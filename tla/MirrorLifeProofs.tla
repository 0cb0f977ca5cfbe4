-------------------------- MODULE MirrorLifeProofs --------------------------
(***************************************************************************)
(* Proofs about the life of a viewer, for any set of connections and any   *)
(* bounds: nobody loses a viewer, and a revoked browser's keystrokes do    *)
(* not reach the terminal.                                                 *)
(***************************************************************************)
EXTENDS MirrorGateProofs

\* The phases of a connection in which its own goroutine answers for its viewer.
OwnPhases == {"reserve", "abandon", "start", "bind", "activate", "discard", "closing", "leaving"}

\* Somebody answers for a viewer until its pin is released, not only until its process
\* ends.  Only closeViewers has viewers to close, and it waits for one at a time.
OwnedInv ==
    /\ op.step # "viewers" => op.pend = {} /\ op.at = {}
    /\ \A c, d \in op.at : c = d
    /\ \A c \in Clients : HoldsPin(c) =>
        c \in active \/ c \in op.pend \cup op.at \/ pc[c] \in OwnPhases

-----------------------------------------------------------------------------
\* At the beginning there is no viewer.
LEMMA OwnedInit == Init => OwnedInv
  BY DEF Init, Idle, OwnedInv, HoldsPin

\* Steps that touch neither viewers nor their owners.
LEMMA OwnedFrame ==
    ASSUME OwnedInv, UNCHANGED <<pc, viewer, active>>, op'.pend = op.pend, op'.at = op.at,
           op'.step = "viewers" \/ op.step # "viewers" \/ (op.pend = {} /\ op.at = {})
    PROVE  OwnedInv'
  BY DEF OwnedInv, HoldsPin

\* When the maps are emptied, whoever empties them takes the viewers over.
LEMMA OwnedDetach ==
    ASSUME OwnedInv, op.step # "viewers", UNCHANGED <<pc, viewer>>,
           op'.step = "viewers", op'.pend = Attached, op'.at = {}
    PROVE  OwnedInv'
  BY DEF OwnedInv, HoldsPin, Attached

\* No operation on the Manager loses a viewer.
LEMMA OwnedManager ==
    ASSUME TypeOK, OwnedInv, ManagerStep
    PROVE  OwnedInv'
<1> USE DEF mgrVars, setVars, srvVars, connVars, viewVars, opVars, hist
<1>1. CASE StartBegin \/ RotateBegin
  <2>1. /\ op'.pend = {} /\ op'.at = {} /\ op.step = "idle"
        /\ UNCHANGED <<pc, viewer, active>>
    BY <1>1, OpAfter DEF NextOp, StartBegin, RotateBegin, OpFree
  <2>2. op.pend = {} /\ op.at = {}
    BY <2>1 DEF OwnedInv
  <2> QED
    BY <2>1, <2>2, OwnedFrame
<1>2. CASE StartServer \/ StartTunnel \/ StartTunnelFails \/ StartCanceled \/ StartClosePartial
  <2>1. op'.pend = op.pend /\ op'.at = op.at
    BY <1>2, OpAfter DEF NextOp
  <2>2. op.step # "viewers" /\ UNCHANGED <<pc, viewer, active>>
    BY <1>2
        DEF StartServer, StartTunnel, StartTunnelFails, StartCanceled, StartClosePartial
  <2> QED
    BY <2>1, <2>2, OwnedFrame
<1>3. CASE StartServerFails \/ StartCommit \/ RotateEnd \/ \E t \in BOOLEAN : OpDrained(t)
  <2>1. op'.pend = {} /\ op'.at = {}
    BY <1>3, OpAfter DEF NextOp
  <2>2. op.step # "viewers" /\ UNCHANGED <<pc, viewer, active>>
    BY <1>3 DEF StartServerFails, StartCommit, RotateEnd, OpDrained
  <2>3. op.pend = {} /\ op.at = {}
    BY <2>2 DEF OwnedInv
  <2> QED
    BY <2>1, <2>2, <2>3, OwnedFrame
<1>4. CASE RotateSetSecret \/ RotateCutDone \/ OpTellDone \/ OpClose \/ OpViewersDone
           \/ \E failed \in BOOLEAN : OpFactory(failed)
  <2>1. op'.pend = op.pend /\ op'.at = op.at
    BY <1>4, OpAfter DEF NextOp
  <2>2. /\ op.step # "viewers" \/ (op.pend = {} /\ op.at = {})
        /\ UNCHANGED <<pc, viewer, active>>
    BY <1>4
        DEF RotateSetSecret, RotateCutDone, OpTellDone, OpClose, OpViewersDone,
            OpFactory
  <2> QED
    BY <2>1, <2>2, OwnedFrame
<1>5. CASE RotateDetach
  <2>1. /\ op'.step = "viewers" /\ op'.pend = Attached /\ op'.at = op.at
        /\ op.step = "detach" /\ UNCHANGED <<pc, viewer>>
    BY <1>5, OpAfter DEF NextOp, RotateDetach
  <2>2. op.at = {}
    BY <2>1 DEF OwnedInv
  <2> QED
    BY <2>1, <2>2, OwnedDetach
<1>6. CASE ShutdownAsk \/ \E s \in Servers : TunnelExit(s)
  BY <1>6, OwnedFrame DEF ShutdownAsk, TunnelExit
<1>7. CASE ShutdownClear
  <2>1. /\ op'.step = "viewers" /\ op'.pend = Attached /\ op'.at = {}
        /\ op.step = "idle" /\ UNCHANGED <<pc, viewer>>
    BY <1>7, OpAfter DEF NextOp, ShutdownClear, ClearLocked, OpFree
  <2> QED
    BY <2>1, OwnedDetach
<1>8. ASSUME NEW s \in Servers, WatchTunnel(s)
      PROVE  OwnedInv'
  <2>1. op.step = "idle" /\ UNCHANGED viewer
    BY <1>8 DEF WatchTunnel, OpFree
  <2>2. CASE op' = op /\ UNCHANGED <<mgrVars, setVars, connVars>>
    BY <2>1, <2>2, OwnedFrame
  <2>3. CASE /\ NextOp("tunnel", "viewers", msecret, mserver, Attached, {}, clients)
             /\ ClearLocked("tunnel", "Failed")
    <3>1. op'.step = "viewers" /\ op'.pend = Attached /\ op'.at = {} /\ UNCHANGED pc
      BY <2>3 DEF NextOp, ClearLocked
    <3> QED
      BY <2>1, <3>1, OwnedDetach
  <2> QED
    BY <1>8, <2>2, <2>3, OpAfter
<1> QED
  BY <1>1, <1>2, <1>3, <1>4, <1>5, <1>6, <1>7, <1>8 DEF ManagerStep

\* No step of a connection or of its viewer loses a viewer.
LEMMA OwnedClient ==
    ASSUME TypeOK, OwnedInv, NEW c \in Clients, ClientStep(c)
    PROVE  OwnedInv'
<1> USE DEF mgrVars, setVars, srvVars, connVars, viewVars, opVars, hist
<1>0. /\ pc \in [Clients -> Phases]
      /\ viewer \in [Clients -> {"none", "prepared", "live", "dying", "finished"}]
  BY DEF TypeOK, ConnType, ViewType
<1>1. CASE RotateCut(c) \/ OpTell(c)
  <2>1. op'.pend = op.pend /\ op'.at = op.at /\ op'.step = op.step
    BY <1>1, OpAfter DEF NextOp
  <2> QED
    BY <1>1, <2>1, OwnedFrame DEF RotateCut, OpTell
<1>2. CASE OpTerminate(c)
  <2>1. /\ op'.pend = op.pend \ {c} /\ op'.at = {c} /\ op'.step = op.step
        /\ op.step = "viewers" /\ op.at = {} /\ UNCHANGED <<pc, active>>
        /\ viewer' = [viewer EXCEPT ![c] = IF @ = "live" THEN "dying" ELSE @]
    BY <1>2, OpAfter DEF NextOp, OpTerminate
  <2> QED
    BY <1>0, <2>1 DEF OwnedInv, HoldsPin
<1>3. CASE OpViewerClosed(c)
  <2>1. /\ op'.pend = op.pend /\ op'.at = {} /\ op'.step = op.step
        /\ op.step = "viewers" /\ c \in op.at /\ UNCHANGED <<pc, active, viewer>>
        /\ viewer[c] = "finished"
    BY <1>3, OpAfter DEF NextOp, OpViewerClosed
  <2> QED
    BY <2>1 DEF OwnedInv, HoldsPin
<1>4. ASSUME NEW s \in Servers, Accept(c, s)
      PROVE  OwnedInv'
  BY <1>0, <1>4 DEF Accept, Goto, OwnedInv, HoldsPin, OwnPhases
<1>5. CASE Authenticate(c) \/ AuthenticateFails(c) \/ Register(c) \/ Connected(c)
  BY <1>0, <1>5 DEF Authenticate, AuthenticateFails, Register, Connected, Goto,
                    OwnedInv, HoldsPin, OwnPhases
<1>6. CASE Prepare(c) \/ PrepareFails(c) \/ Reserve(c)
  BY <1>0, <1>6 DEF Prepare, PrepareFails, Reserve, Goto, OwnedInv, HoldsPin, OwnPhases
<1>7. ASSUME NEW failed \in BOOLEAN, Abandon(c, failed) \/ StartViewerFails(c, failed)
      PROVE  OwnedInv'
  BY <1>0, <1>7
      DEF Abandon, StartViewerFails, ReleasePin, Goto, OwnedInv, HoldsPin, OwnPhases
<1>8. CASE StartViewer(c) \/ RemoveOpening(c) \/ BindViewer(c)
  BY <1>0, <1>8
      DEF StartViewer, RemoveOpening, BindViewer, Goto, OwnedInv, HoldsPin, OwnPhases
<1>9. CASE Activate(c)
  BY <1>0, <1>9 DEF Activate, Goto, OwnedInv, HoldsPin, OwnPhases
<1>10. CASE Terminate(c) \/ ViewerEnds(c) \/ QueueFails(c)
  BY <1>0, <1>10 DEF Terminate, ViewerEnds, QueueFails, OwnedInv, HoldsPin, OwnPhases
<1>11. CASE Discarded(c) \/ Closed(c) \/ Left(c)
  BY <1>0, <1>11 DEF Discarded, Closed, Left, Goto, OwnedInv, HoldsPin, OwnPhases
<1>12. CASE Refuse(c) \/ RecvInput(c) \/ InputLookup(c) \/ InputWritten(c) \/ InputRejected(c)
  BY <1>0, <1>12 DEF Refuse, RecvInput, InputLookup, InputWritten, InputRejected,
                     DispatchError, Goto, OwnedInv, HoldsPin, OwnPhases
<1>13. CASE RecvClose(c) \/ Acknowledge(c) \/ PeerLeaves(c) \/ Exit(c)
  BY <1>0, <1>13 DEF RecvClose, Acknowledge, PeerLeaves, Exit, Goto,
                     OwnedInv, HoldsPin, OwnPhases
<1>14. CASE ManagerClose(c) \/ Disconnected(c)
  BY <1>0, <1>14
      DEF ManagerClose, Disconnected, Attached, Goto, OwnedInv, HoldsPin, OwnPhases
<1>15. CASE WatchViewer(c)
  BY <1>15 DEF WatchViewer, OwnedInv, HoldsPin
<1>16. ASSUME NEW failed \in BOOLEAN, NEW error \in BOOLEAN, ViewerFinish(c, failed, error)
       PROVE  OwnedInv'
  BY <1>0, <1>16 DEF ViewerFinish, ReleasePin, OwnedInv, HoldsPin
<1> QED
  BY <1>1, <1>2, <1>3, <1>4, <1>5, <1>6, <1>7, <1>8, <1>9, <1>10, <1>11, <1>12, <1>13,
       <1>14, <1>15, <1>16
      DEF ClientStep

\* No step loses a viewer.
LEMMA OwnedStep == TypeOK /\ OwnedInv /\ [Next]_vars => OwnedInv'
<1> SUFFICES ASSUME TypeOK, OwnedInv, [Next]_vars PROVE OwnedInv'
  OBVIOUS
<1>1. CASE UNCHANGED vars
  BY <1>1, OwnedFrame DEF vars, connVars, viewVars, setVars, opVars
<1> QED
  BY <1>1, OwnedManager, OwnedClient DEF Next, Terminated

\* Somebody answers for every pin in every reachable state.
LEMMA OwnedAlways == Spec => []OwnedInv
  BY OwnedInit, OwnedStep, TypeCorrect, PTL DEF Spec

(***************************************************************************)
(* Whatever opens, rotates, shuts down and disconnects at the same time,   *)
(* every viewer that is prepared or runs is in the map of active viewers,  *)
(* in the operation that detached it or in its own goroutine's hands.      *)
(***************************************************************************)
THEOREM ViewersAlwaysOwned == Spec => []ViewersOwned
<1>1. OwnedInv => ViewersOwned
  BY DEF OwnedInv, OwnPhases, HoldsPin, ViewersOwned
<1> QED
  BY <1>1, OwnedAlways, PTL

-----------------------------------------------------------------------------
\* A write to a running viewer is either left as it is or is begun by Manager.Input.
LEMMA WritesBegin ==
    ASSUME TypeOK, NEW c \in Clients, ClientStep(c), ~InputLookup(c)
    PROVE  \A d \in Clients : pc'[d] = "write" /\ viewer'[d] = "live" =>
                pc[d] = "write" /\ viewer[d] = "live"
<1> DEFINE Same == \A d \in Clients : pc'[d] = "write" /\ viewer'[d] = "live" =>
                        pc[d] = "write" /\ viewer[d] = "live"
<1> USE DEF mgrVars, setVars, srvVars, connVars, viewVars, opVars, hist
<1>0. /\ pc \in [Clients -> Phases]
      /\ viewer \in [Clients -> {"none", "prepared", "live", "dying", "finished"}]
  BY DEF TypeOK, ConnType, ViewType
<1>1. CASE RotateCut(c) \/ OpTell(c) \/ OpViewerClosed(c) \/ OpTerminate(c)
  BY <1>0, <1>1 DEF RotateCut, OpTell, OpViewerClosed, OpTerminate
<1>2. ASSUME NEW s \in Servers, Accept(c, s)
      PROVE  Same
  BY <1>0, <1>2 DEF Accept, Goto
<1>3. CASE Authenticate(c) \/ AuthenticateFails(c) \/ Register(c) \/ Connected(c)
  BY <1>0, <1>3 DEF Authenticate, AuthenticateFails, Register, Connected, Goto
<1>4. CASE Prepare(c) \/ PrepareFails(c) \/ Reserve(c)
  BY <1>0, <1>4 DEF Prepare, PrepareFails, Reserve, Goto
<1>5. ASSUME NEW failed \in BOOLEAN, Abandon(c, failed) \/ StartViewerFails(c, failed)
      PROVE  Same
  BY <1>0, <1>5 DEF Abandon, StartViewerFails, ReleasePin, Goto
<1>6. CASE StartViewer(c) \/ RemoveOpening(c) \/ BindViewer(c) \/ Activate(c)
  BY <1>0, <1>6 DEF StartViewer, RemoveOpening, BindViewer, Activate, Goto
<1>7. CASE Terminate(c) \/ ViewerEnds(c) \/ WatchViewer(c) \/ QueueFails(c)
  BY <1>0, <1>7 DEF Terminate, ViewerEnds, WatchViewer, QueueFails
<1>8. CASE Discarded(c) \/ Closed(c) \/ Left(c)
  BY <1>0, <1>8 DEF Discarded, Closed, Left, Goto
<1>9. CASE Refuse(c) \/ RecvInput(c) \/ InputWritten(c) \/ InputRejected(c)
  BY <1>0, <1>9 DEF Refuse, RecvInput, InputWritten, InputRejected, DispatchError, Goto
<1>10. CASE RecvClose(c) \/ Acknowledge(c) \/ PeerLeaves(c) \/ Exit(c)
  BY <1>0, <1>10 DEF RecvClose, Acknowledge, PeerLeaves, Exit, Goto
<1>11. CASE ManagerClose(c) \/ Disconnected(c)
  BY <1>0, <1>11 DEF ManagerClose, Disconnected, Goto
<1>12. ASSUME NEW failed \in BOOLEAN, NEW error \in BOOLEAN, ViewerFinish(c, failed, error)
       PROVE  Same
  BY <1>0, <1>12 DEF ViewerFinish, ReleasePin
<1> QED
  BY <1>1, <1>2, <1>3, <1>4, <1>5, <1>6, <1>7, <1>8, <1>9, <1>10, <1>11, <1>12
      DEF ClientStep

\* Manager.Input finds only viewers of the credential in force, and what a rotation or a
\* cleanup withdraws for good has no running viewer left in anybody's hands.
LEMMA InputStep ==
    TypeOK /\ CredentialInv /\ GateInv /\ OwnedInv /\ NoRevokedInput /\ [Next]_vars
    => NoRevokedInput'
<1> SUFFICES ASSUME TypeOK, CredentialInv, GateInv, OwnedInv, NoRevokedInput, [Next]_vars
             PROVE  NoRevokedInput'
  OBVIOUS
<1> USE DEF mgrVars, setVars, srvVars, connVars, viewVars, opVars, hist
<1>0. /\ msecret \in Nat /\ retired \in Nat /\ op.secret \in Nat
      /\ pc \in [Clients -> Phases] /\ cred \in [Clients -> 0..MaxSecrets]
  BY MirrorAssumption DEF TypeOK, MgrType, HistType, OpType, Operations, ConnType
<1>1. ASSUME NEW c \in Clients, pc[c] = "write", viewer[c] = "live",
             op.step # "viewers"
      PROVE  c \in active /\ mstate = "Ready"
  <2>1. c \in active
    BY <1>1 DEF OwnedInv, OwnPhases, HoldsPin
  <2> QED
    BY <2>1 DEF CredentialInv, SessionInv
<1>2. CASE RotateEnd
  <2>1. /\ op.kind = "rotate" /\ op.step = "warn" /\ retired' = op.secret - 1
        /\ op.secret # 0 /\ UNCHANGED <<pc, viewer, cred>>
    BY <1>2 DEF RotateEnd, TypeOK, OpType
  <2>2. msecret = op.secret
    BY <2>1 DEF GateInv, SecretInv
  <2>3. ASSUME NEW c \in Clients, pc[c] = "write", viewer[c] = "live"
        PROVE  cred[c] = op.secret
    BY <1>1, <2>1, <2>2, <2>3 DEF CredentialInv, SessionInv, MuFree
  <2> QED
    BY <1>0, <2>1, <2>3 DEF NoRevokedInput
<1>3. ASSUME NEW timedOut \in BOOLEAN, OpDrained(timedOut)
      PROVE  NoRevokedInput'
  <2>1. op.step = "drain" /\ UNCHANGED <<pc, viewer, cred>>
    BY <1>3 DEF OpDrained
  <2>2. op.kind \in {"start", "shutdown", "tunnel"}
    BY <2>1 DEF CredentialInv, OpInv, TypeOK, OpType, Operations, OpKinds
  <2>3. mstate # "Ready"
    BY <2>2 DEF CredentialInv, OpInv
  <2> QED
    BY <1>1, <2>1, <2>3 DEF NoRevokedInput
<1>4. CASE ManagerStep /\ ~RotateEnd /\ ~(\E t \in BOOLEAN : OpDrained(t))
  <2>1. UNCHANGED <<pc, viewer, cred, retired>>
    <3>1. CASE StartBegin \/ StartServer \/ StartServerFails \/ StartTunnel \/ StartTunnelFails
               \/ StartCanceled \/ StartCommit \/ StartClosePartial
      BY <3>1 DEF StartBegin, StartServer, StartServerFails, FailStart, StartTunnel,
                  StartTunnelFails, StartCanceled, StartCommit, StartClosePartial
    <3>2. CASE RotateBegin \/ RotateSetSecret \/ RotateCutDone \/ RotateDetach
      BY <3>2 DEF RotateBegin, RotateSetSecret, RotateCutDone, RotateDetach
    <3>3. CASE ShutdownAsk \/ ShutdownClear \/ OpViewersDone \/ OpTellDone \/ OpClose
      BY <3>3
          DEF ShutdownAsk, ShutdownClear, ClearLocked, OpViewersDone, OpTellDone,
              OpClose
    <3>4. ASSUME NEW s \in Servers, TunnelExit(s) \/ WatchTunnel(s)
          PROVE  UNCHANGED <<pc, viewer, cred, retired>>
      BY <3>4 DEF TunnelExit, WatchTunnel, ClearLocked
    <3>5. ASSUME NEW failed \in BOOLEAN, OpFactory(failed)
          PROVE  UNCHANGED <<pc, viewer, cred, retired>>
      BY <3>5 DEF OpFactory
    <3> QED
      BY <1>4, <3>1, <3>2, <3>3, <3>4, <3>5 DEF ManagerStep
  <2> QED
    BY <2>1 DEF NoRevokedInput
<1>5. ASSUME NEW c \in Clients, InputLookup(c)
      PROVE  NoRevokedInput'
  <2>1. /\ MuFree /\ UNCHANGED <<viewer, cred, retired>>
        /\ \A d \in Clients : pc'[d] = "write" => pc[d] = "write" \/ (d = c /\ c \in active)
    BY <1>0, <1>5 DEF InputLookup, DispatchError, Goto
  <2>2. ASSUME c \in active
        PROVE  cred[c] = msecret /\ retired < msecret
    BY <2>1, <2>2 DEF CredentialInv, SessionInv, GateInv, SecretInv
  <2> QED
    BY <1>0, <2>1, <2>2 DEF NoRevokedInput
<1>6. ASSUME NEW c \in Clients, ClientStep(c), ~InputLookup(c)
      PROVE  NoRevokedInput'
  <2>1. QuietStep(c)
    BY <1>6, ClientQuiet
  <2>2. \A d \in Clients : pc'[d] = "write" /\ viewer'[d] = "live" =>
            pc[d] = "write" /\ viewer[d] = "live"
    BY <1>6, WritesBegin
  <2>3. \A d \in Clients : pc[d] = "write" => cred'[d] = cred[d]
    BY <1>0, <2>1 DEF QuietStep, Accept
  <2>4. retired' = retired
    BY <2>1 DEF QuietStep
  <2> QED
    BY <2>2, <2>3, <2>4 DEF NoRevokedInput
<1>7. CASE UNCHANGED vars
  BY <1>7 DEF vars, NoRevokedInput
<1> QED
  BY <1>2, <1>3, <1>4, <1>5, <1>6, <1>7 DEF Next, Terminated, ManagerStep

(***************************************************************************)
(* Manager.Input lets go of m.mu before it writes.  Once a rotation, a     *)
(* shutdown or a tunnel's cleanup is through, no write that was under way  *)
(* can reach the terminal with a credential it withdrew.                   *)
(***************************************************************************)
THEOREM NoRevokedInputAlways == Spec => []NoRevokedInput
<1>1. Init => NoRevokedInput
  BY DEF Init, NoRevokedInput
<1> QED
  BY <1>1, InputStep, TypeCorrect, CredentialAlways, GateAlways, OwnedAlways, PTL
      DEF Spec
=============================================================================
