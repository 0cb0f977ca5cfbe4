-------------------------- MODULE MirrorGateProofs --------------------------
(***************************************************************************)
(* Proof that Mirror implements PairingGate, for any set of connections    *)
(* and any bounds.  The mirror's credentials are serial numbers; what the  *)
(* refinement needs besides the credential invariant is that they only     *)
(* grow, and that no connection holds a newer one than its server.         *)
(***************************************************************************)
EXTENDS MirrorProofs

(***************************************************************************)
(* The invariant.                                                          *)
(***************************************************************************)
\* Credentials are issued in order.  The operation under way has the latest one, and
\* what is withdrawn for good is older than what is in force.
SecretInv ==
    /\ msecret <= issued /\ retired <= issued
    /\ mstate # "Ready" => msecret = 0
    /\ mstate = "Ready" => retired < msecret
    /\ op.kind \in {"start", "rotate"} => op.secret = issued /\ retired < issued
    /\ op.kind \in {"shutdown", "tunnel"} => op.secret <= issued
    /\ op.step \in {"rotate", "cut", "detach"} => msecret < op.secret
    /\ op.kind = "rotate" /\ op.step \in {"viewers", "factory", "warn"} => msecret = op.secret

\* A server has a secret from its start on, and a connection, from its handshake on, the
\* secret its server had then, which is not newer than the one it has now.
PairedInv ==
    /\ \A s \in Servers : s <= starts => secretOf[s] # 0 /\ secretOf[s] <= issued
    /\ \A c \in Clients :
        IF pc[c] = "idle" THEN cred[c] = 0
                          ELSE cred[c] # 0 /\ cred[c] <= secretOf[srv[c]]

\* What the refinement needs of the manager's secret and of paired connections.
GateInv == SecretInv /\ PairedInv

-----------------------------------------------------------------------------
\* The fields of the operation after a step.
NextOp(kind, step, secret, s, pend, at, tell) ==
    /\ op'.kind = kind /\ op'.step = step /\ op'.secret = secret /\ op'.srv = s
    /\ op'.pend = pend /\ op'.at = at /\ op'.tell = tell

\* What each step of an operation on the Manager leaves in the operation's record.
LEMMA OpAfter ==
    ASSUME TypeOK
    PROVE
    /\ StartBegin => NextOp("start", "server", issued + 1, 0, {}, {}, {})
    /\ StartServer => NextOp(op.kind, "tunnel", op.secret, starts + 1, op.pend, op.at, op.tell)
    /\ StartTunnel => NextOp(op.kind, "commit", op.secret, op.srv, op.pend, op.at, op.tell)
    /\ StartTunnelFails \/ StartCanceled =>
        NextOp(op.kind, "partial", op.secret, op.srv, op.pend, op.at, op.tell)
    /\ StartClosePartial \/ OpClose =>
        NextOp(op.kind, "drain", op.secret, op.srv, op.pend, op.at, op.tell)
    /\ RotateBegin => NextOp("rotate", "rotate", issued + 1, mserver, {}, {}, {})
    /\ RotateSetSecret => NextOp(op.kind, "cut", op.secret, op.srv, op.pend, op.at,
                                 {c \in connections : srv[c] = op.srv})
    /\ RotateCutDone => NextOp(op.kind, "detach", op.secret, op.srv, op.pend, op.at, op.tell)
    /\ RotateDetach => NextOp(op.kind, "viewers", op.secret, op.srv, Attached, op.at, op.tell)
    /\ OpViewersDone => NextOp(op.kind, "factory", op.secret, op.srv, op.pend, op.at, op.tell)
    /\ OpTellDone => NextOp(op.kind, "close", op.secret, op.srv, op.pend, op.at, op.tell)
    /\ \A failed \in BOOLEAN : OpFactory(failed) =>
        NextOp(op.kind, IF op.kind = "rotate" THEN "warn" ELSE "clients", op.secret, op.srv,
               op.pend, op.at, op.tell)
    /\ StartServerFails \/ StartCommit \/ RotateEnd \/ (\E t \in BOOLEAN : OpDrained(t)) =>
        NextOp("none", "idle", 0, 0, {}, {}, {})
    /\ ShutdownClear => NextOp("shutdown", "viewers", msecret, mserver, Attached, {}, clients)
    /\ \A s \in Servers : WatchTunnel(s) =>
        \/ op' = op /\ UNCHANGED <<mgrVars, setVars, connVars>>
        \/ /\ NextOp("tunnel", "viewers", msecret, mserver, Attached, {}, clients)
           /\ mserver = s /\ ~shutdown /\ UNCHANGED shutdown /\ ClearLocked("tunnel", "Failed")
    /\ \A c \in Clients :
        /\ RotateCut(c) \/ OpTell(c) =>
            NextOp(op.kind, op.step, op.secret, op.srv, op.pend, op.at, op.tell \ {c})
        /\ OpTerminate(c) =>
            NextOp(op.kind, op.step, op.secret, op.srv, op.pend \ {c}, {c}, op.tell)
        /\ OpViewerClosed(c) =>
            NextOp(op.kind, op.step, op.secret, op.srv, op.pend, {}, op.tell)
<1> USE DEF NextOp
<1>0. op \in Operations
  BY DEF TypeOK, OpType
<1>1. StartBegin => NextOp("start", "server", issued + 1, 0, {}, {}, {})
  BY DEF StartBegin, Idle
<1>2. /\ StartServer =>
         NextOp(op.kind, "tunnel", op.secret, starts + 1, op.pend, op.at, op.tell)
      /\ StartTunnel =>
         NextOp(op.kind, "commit", op.secret, op.srv, op.pend, op.at, op.tell)
  BY <1>0 DEF StartServer, StartTunnel, Operations
<1>3. StartTunnelFails \/ StartCanceled =>
        NextOp(op.kind, "partial", op.secret, op.srv, op.pend, op.at, op.tell)
  BY <1>0 DEF StartTunnelFails, StartCanceled, Operations
<1>4. StartClosePartial \/ OpClose =>
        NextOp(op.kind, "drain", op.secret, op.srv, op.pend, op.at, op.tell)
  BY <1>0 DEF StartClosePartial, OpClose, Operations
<1>5. RotateBegin => NextOp("rotate", "rotate", issued + 1, mserver, {}, {}, {})
  BY DEF RotateBegin, Idle
<1>6. RotateSetSecret => NextOp(op.kind, "cut", op.secret, op.srv, op.pend, op.at,
                                {c \in connections : srv[c] = op.srv})
  BY <1>0 DEF RotateSetSecret, Operations
<1>7. /\ RotateCutDone =>
         NextOp(op.kind, "detach", op.secret, op.srv, op.pend, op.at, op.tell)
      /\ RotateDetach =>
         NextOp(op.kind, "viewers", op.secret, op.srv, Attached, op.at, op.tell)
  BY <1>0 DEF RotateCutDone, RotateDetach, Operations
<1>8. /\ OpViewersDone =>
         NextOp(op.kind, "factory", op.secret, op.srv, op.pend, op.at, op.tell)
      /\ OpTellDone =>
         NextOp(op.kind, "close", op.secret, op.srv, op.pend, op.at, op.tell)
  BY <1>0 DEF OpViewersDone, OpTellDone, Operations
<1>9. \A failed \in BOOLEAN : OpFactory(failed) =>
        NextOp(op.kind, IF op.kind = "rotate" THEN "warn" ELSE "clients", op.secret, op.srv,
               op.pend, op.at, op.tell)
  BY <1>0 DEF OpFactory, Operations
<1>10. StartServerFails \/ StartCommit \/ RotateEnd \/ (\E t \in BOOLEAN : OpDrained(t)) =>
        NextOp("none", "idle", 0, 0, {}, {}, {})
  BY DEF StartServerFails, StartCommit, RotateEnd, OpDrained, FailStart, Idle
<1>11. ShutdownClear =>
        NextOp("shutdown", "viewers", msecret, mserver, Attached, {}, clients)
  BY DEF ShutdownClear, ClearLocked, ClientsToTell
<1>12. \A s \in Servers : WatchTunnel(s) =>
        \/ op' = op /\ UNCHANGED <<mgrVars, setVars, connVars>>
        \/ /\ NextOp("tunnel", "viewers", msecret, mserver, Attached, {}, clients)
           /\ mserver = s /\ ~shutdown /\ UNCHANGED shutdown /\ ClearLocked("tunnel", "Failed")
  BY DEF WatchTunnel, ClearLocked, ClientsToTell
<1>13. ASSUME NEW c \in Clients
       PROVE
        /\ RotateCut(c) \/ OpTell(c) =>
            NextOp(op.kind, op.step, op.secret, op.srv, op.pend, op.at, op.tell \ {c})
        /\ OpTerminate(c) =>
            NextOp(op.kind, op.step, op.secret, op.srv, op.pend \ {c}, {c}, op.tell)
        /\ OpViewerClosed(c) =>
            NextOp(op.kind, op.step, op.secret, op.srv, op.pend, {}, op.tell)
  BY <1>0 DEF RotateCut, OpTell, OpTerminate, OpViewerClosed, Operations
<1> HIDE DEF NextOp
<1> QED
  BY <1>1, <1>2, <1>3, <1>4, <1>5, <1>6, <1>7, <1>8, <1>9, <1>10, <1>11, <1>12, <1>13
-----------------------------------------------------------------------------
\* What no step of a connection, of a viewer or of a cleanup acting on one touches: the
\* Manager's fields, the servers, and which operation is under way at which step.  The
\* sets of connections with a terminal and with a handshake change in few ways.
QuietStep(c) ==
    /\ UNCHANGED <<mstate, msecret, mserver, startup, shutdown, asked>>
    /\ UNCHANGED srvVars /\ UNCHANGED <<retired, result, overdue>>
    /\ op'.kind = op.kind /\ op'.step = op.step /\ op'.secret = op.secret /\ op'.srv = op.srv
    /\ \/ \E s \in Servers : Accept(c, s)
       \/ UNCHANGED <<srv, cred>> /\ \A d \in Clients : pc'[d] = "idle" <=> pc[d] = "idle"
    /\ UNCHANGED active \/ active' = active \ {c} \/ Activate(c)

\* A connection's steps leave the manager's operation and its secret alone.
LEMMA ClientQuiet ==
    ASSUME TypeOK, NEW c \in Clients, ClientStep(c)
    PROVE  QuietStep(c)
<1> USE DEF QuietStep, vars, mgrVars, setVars, srvVars, connVars, viewVars, opVars, hist
<1>0. pc \in [Clients -> Phases]
  BY DEF TypeOK, ConnType
<1>1. CASE RotateCut(c) \/ OpTell(c)
  BY <1>1, OpAfter DEF RotateCut, OpTell, NextOp
<1>2. CASE OpTerminate(c) \/ OpViewerClosed(c)
  BY <1>2, OpAfter DEF OpTerminate, OpViewerClosed, NextOp
<1>3. ASSUME NEW s \in Servers, Accept(c, s)
      PROVE  QuietStep(c)
  BY <1>3 DEF Accept
<1>4. CASE Authenticate(c) \/ AuthenticateFails(c) \/ Register(c)
  BY <1>0, <1>4 DEF Authenticate, AuthenticateFails, Register, Goto
<1>5. CASE Connected(c) \/ Prepare(c) \/ PrepareFails(c) \/ Reserve(c)
  BY <1>0, <1>5 DEF Connected, Prepare, PrepareFails, Reserve, Goto
<1>6. ASSUME NEW failed \in BOOLEAN, Abandon(c, failed) \/ StartViewerFails(c, failed)
      PROVE  QuietStep(c)
  BY <1>0, <1>6 DEF Abandon, StartViewerFails, ReleasePin, Goto
<1>7. CASE StartViewer(c) \/ RemoveOpening(c) \/ BindViewer(c)
  BY <1>0, <1>7 DEF StartViewer, RemoveOpening, BindViewer, Goto
<1>8. CASE Activate(c)
  BY <1>0, <1>8 DEF Activate, Goto
<1>9. CASE Terminate(c) \/ Discarded(c) \/ Closed(c) \/ Left(c)
  BY <1>0, <1>9 DEF Terminate, Discarded, Closed, Left, RecordFailure, Goto
<1>10. CASE Refuse(c) \/ RecvInput(c) \/ InputLookup(c) \/ InputWritten(c) \/ InputRejected(c)
  BY <1>0, <1>10 DEF Refuse, RecvInput, InputLookup, InputWritten, InputRejected,
                     DispatchError, Goto
<1>11. CASE RecvClose(c) \/ ManagerClose(c) \/ Acknowledge(c) \/ PeerLeaves(c)
  BY <1>0, <1>11 DEF RecvClose, ManagerClose, Acknowledge, PeerLeaves, Goto
<1>12. CASE Disconnected(c) \/ Exit(c)
  BY <1>0, <1>12 DEF Disconnected, Exit, Goto
<1>13. CASE ViewerEnds(c) \/ WatchViewer(c) \/ QueueFails(c)
  BY <1>13 DEF ViewerEnds, WatchViewer, RecordFailure, QueueFails
<1>14. ASSUME NEW failed \in BOOLEAN, NEW error \in BOOLEAN, ViewerFinish(c, failed, error)
       PROVE  QuietStep(c)
  BY <1>14 DEF ViewerFinish, ReleasePin
<1> HIDE DEF QuietStep
<1> QED
  BY <1>1, <1>2, <1>3, <1>4, <1>5, <1>6, <1>7, <1>8, <1>9, <1>10, <1>11, <1>12, <1>13,
       <1>14
      DEF ClientStep

-----------------------------------------------------------------------------
\* At the beginning no credential was issued.
LEMMA GateInvInit == Init => GateInv
  BY MirrorAssumption, IdleType DEF Init, Idle, GateInv, SecretInv, PairedInv, Servers

\* No step of a connection can disturb the order of the credentials; the handshake takes
\* the one its server has.
LEMMA GateClient ==
    ASSUME TypeOK, GateInv, NEW c \in Clients, ClientStep(c)
    PROVE  GateInv'
<1>0. QuietStep(c)
  BY ClientQuiet
<1>1. SecretInv'
  BY <1>0 DEF QuietStep, GateInv, SecretInv, srvVars, hist
<1>2. PairedInv'
  <2>1. /\ UNCHANGED <<starts, secretOf, issued>>
        /\ \A s \in Servers : s <= starts => secretOf[s] # 0 /\ secretOf[s] <= issued
    BY <1>0 DEF QuietStep, GateInv, PairedInv, srvVars
  <2>2. ASSUME NEW s \in Servers, Accept(c, s)
        PROVE  PairedInv'
    <3>1. /\ pc' = [pc EXCEPT ![c] = "auth"] /\ srv' = [srv EXCEPT ![c] = s]
          /\ cred' = [cred EXCEPT ![c] = secretOf[s]] /\ s <= starts
      BY <2>2 DEF Accept, Goto
    <3>2. secretOf[s] # 0 /\ secretOf[s] \in 0..MaxSecrets /\ secretOf[s] <= secretOf[s]
      BY <2>1, <3>1, MirrorAssumption DEF TypeOK, SrvType
    <3> QED
      BY <2>1, <3>1, <3>2 DEF GateInv, PairedInv, TypeOK, ConnType
  <2>3. CASE UNCHANGED <<srv, cred>> /\ \A d \in Clients : pc'[d] = "idle" <=> pc[d] = "idle"
    BY <2>1, <2>3 DEF GateInv, PairedInv
  <2> QED
    BY <1>0, <2>2, <2>3 DEF QuietStep
<1> QED
  BY <1>1, <1>2 DEF GateInv

\* The order of the credentials needs nothing but these variables.
LEMMA GateFrame ==
    /\ PairedInv /\ UNCHANGED <<starts, secretOf, issued, pc, srv, cred>> => PairedInv'
    /\ /\ SecretInv /\ UNCHANGED <<msecret, issued, retired, mstate>>
       /\ op'.kind = op.kind /\ op'.secret = op.secret
       /\ op'.step \in {"rotate", "cut", "detach"} => op.step \in {"rotate", "cut", "detach"}
       /\ op'.step \in {"viewers", "factory", "warn"} =>
            op.step \in {"viewers", "factory", "warn"}
       => SecretInv'
<1>1. PairedInv /\ UNCHANGED <<starts, secretOf, issued, pc, srv, cred>> => PairedInv'
  BY DEF PairedInv
<1> QED
  BY <1>1 DEF SecretInv

\* A start, a rotation and a cleanup keep the order of the credentials.
LEMMA GateManager ==
    ASSUME TypeOK, CredentialInv, GateInv, ManagerStep
    PROVE  GateInv'
<1> USE MirrorAssumption DEF mgrVars, setVars, srvVars, connVars, viewVars, opVars, hist
<1>0. /\ SecretInv /\ PairedInv /\ OpInv /\ ConnInv
      /\ issued \in Nat /\ msecret \in Nat /\ retired \in Nat /\ starts \in Nat
      /\ op.secret \in Nat /\ op.kind \in OpKinds
      /\ secretOf \in [Servers -> 0..MaxSecrets] /\ cred \in [Clients -> 0..MaxSecrets]
  BY DEF GateInv, CredentialInv, TypeOK, SrvType, MgrType, HistType, OpType, Operations,
         ConnType
<1>1. CASE StartBegin
  <2>1. NextOp("start", "server", issued + 1, 0, {}, {}, {})
    BY <1>1, OpAfter
  <2>2. SecretInv'
    BY <1>0, <1>1, <2>1 DEF StartBegin, NextOp, SecretInv
  <2>3. PairedInv'
    BY <1>0, <1>1 DEF StartBegin, PairedInv
  <2> QED
    BY <2>2, <2>3 DEF GateInv
<1>2. CASE StartServer
  <2>1. /\ NextOp(op.kind, "tunnel", op.secret, starts + 1, op.pend, op.at, op.tell)
        /\ op.kind = "start" /\ op.secret # 0
    BY <1>2, OpAfter DEF StartServer, TypeOK, OpType
  <2>2. SecretInv'
    BY <1>0, <1>2, <2>1, GateFrame DEF StartServer, NextOp
  <2>3. PairedInv'
    <3>1. /\ secretOf' = [secretOf EXCEPT ![starts + 1] = op.secret] /\ starts' = starts + 1
          /\ UNCHANGED <<issued, pc, srv, cred>>
      BY <1>2 DEF StartServer
    <3>2. op.secret = issued
      BY <1>0, <2>1 DEF SecretInv
    <3>3. ASSUME NEW s \in Servers, s <= starts'
          PROVE  secretOf'[s] # 0 /\ secretOf'[s] <= issued
      <4>1. CASE s = starts + 1
        BY <1>0, <2>1, <3>1, <3>2, <4>1
      <4>2. CASE s # starts + 1
        BY <1>0, <3>1, <3>3, <4>2 DEF PairedInv, Servers
      <4> QED
        BY <4>1, <4>2
    <3>4. ASSUME NEW c \in Clients, pc[c] # "idle"
          PROVE  cred[c] # 0 /\ cred[c] <= secretOf'[srv[c]]
      <4>1. srv[c] \in Servers /\ srv[c] <= starts /\ cred[c] # 0 /\ cred[c] <= secretOf[srv[c]]
        BY <1>0, <3>4 DEF ConnInv, PairedInv
      <4> QED
        BY <1>0, <3>1, <4>1 DEF Servers
    <3> QED
      BY <1>0, <3>1, <3>3, <3>4 DEF PairedInv
  <2> QED
    BY <2>2, <2>3 DEF GateInv
<1>3. CASE StartServerFails
  <2>1. /\ NextOp("none", "idle", 0, 0, {}, {}, {})
        /\ op.kind = "start"
    BY <1>3, OpAfter DEF StartServerFails, TypeOK, OpType
  <2>2. SecretInv'
    BY <1>0, <1>3, <2>1 DEF StartServerFails, FailStart, NextOp, SecretInv, OpInv
  <2>3. PairedInv'
    BY <1>0, <1>3, GateFrame DEF StartServerFails
  <2> QED
    BY <2>2, <2>3 DEF GateInv
<1>4. CASE StartTunnel \/ StartTunnelFails \/ StartCanceled \/ StartClosePartial \/ OpClose
           \/ RotateCutDone \/ OpTellDone
  <2>1. /\ op'.kind = op.kind /\ op'.secret = op.secret
        /\ op'.step \in {"rotate", "cut", "detach"} => op.step \in {"rotate", "cut", "detach"}
        /\ op'.step \notin {"viewers", "factory", "warn"}
    BY <1>4, OpAfter DEF NextOp, RotateCutDone
  <2>2. UNCHANGED <<msecret, issued, retired, mstate, starts, secretOf, pc, srv, cred>>
    BY <1>4
        DEF StartTunnel, StartTunnelFails, StartCanceled, StartClosePartial, OpClose,
            RotateCutDone, OpTellDone
  <2> QED
    BY <1>0, <2>1, <2>2, GateFrame DEF GateInv
<1>5. CASE StartCommit
  <2>1. /\ NextOp("none", "idle", 0, 0, {}, {}, {})
        /\ op.kind = "start"
    BY <1>5, OpAfter DEF StartCommit, TypeOK, OpType
  <2>2. SecretInv'
    BY <1>0, <1>5, <2>1 DEF StartCommit, NextOp, SecretInv
  <2>3. PairedInv'
    BY <1>0, <1>5, GateFrame DEF StartCommit
  <2> QED
    BY <2>2, <2>3 DEF GateInv
<1>6. CASE RotateBegin
  <2>1. NextOp("rotate", "rotate", issued + 1, mserver, {}, {}, {})
    BY <1>6, OpAfter
  <2>2. SecretInv'
    BY <1>0, <1>6, <2>1 DEF RotateBegin, NextOp, SecretInv
  <2>3. PairedInv'
    BY <1>0, <1>6 DEF RotateBegin, PairedInv
  <2> QED
    BY <2>2, <2>3 DEF GateInv
<1>7. CASE RotateSetSecret
  <2>1. /\ op'.kind = op.kind /\ op'.step = "cut" /\ op'.secret = op.secret
        /\ op.kind = "rotate" /\ op.step = "rotate" /\ op.secret # 0
    BY <1>7, OpAfter DEF RotateSetSecret, NextOp, TypeOK, OpType
  <2>2. SecretInv'
    BY <1>0, <1>7, <2>1, GateFrame DEF RotateSetSecret
  <2>3. PairedInv'
    <3>1. /\ secretOf' = [secretOf EXCEPT ![op.srv] = op.secret]
          /\ UNCHANGED <<starts, issued, pc, srv, cred>>
      BY <1>7 DEF RotateSetSecret
    <3>2. op.secret = issued
      BY <1>0, <2>1 DEF SecretInv
    <3>3. ASSUME NEW s \in Servers, s <= starts
          PROVE  secretOf'[s] # 0 /\ secretOf'[s] <= issued
      BY <1>0, <2>1, <3>1, <3>2, <3>3 DEF PairedInv
    <3>4. ASSUME NEW c \in Clients, pc[c] # "idle"
          PROVE  cred[c] # 0 /\ cred[c] <= secretOf'[srv[c]]
      <4>1. /\ srv[c] \in Servers /\ srv[c] <= starts /\ cred[c] # 0
            /\ cred[c] <= secretOf[srv[c]] /\ secretOf[srv[c]] <= issued
        BY <1>0, <3>4 DEF ConnInv, PairedInv
      <4>2. cred[c] \in Nat /\ secretOf[srv[c]] \in Nat
        BY <1>0, <4>1
      <4>3. cred[c] <= issued
        BY <1>0, <4>1, <4>2
      <4> QED
        BY <1>0, <3>1, <3>2, <4>1, <4>3
    <3> QED
      BY <1>0, <3>1, <3>3, <3>4 DEF PairedInv
  <2> QED
    BY <2>2, <2>3 DEF GateInv
<1>8. CASE RotateDetach
  <2>1. /\ op'.kind = op.kind /\ op'.step = "viewers" /\ op'.secret = op.secret
        /\ op.kind = "rotate" /\ msecret' = op.secret
        /\ UNCHANGED <<issued, retired, mstate, starts, secretOf, pc, srv, cred>>
    BY <1>8, OpAfter DEF RotateDetach, NextOp, TypeOK, OpType
  <2>2. mstate = "Ready"
    BY <1>0, <2>1 DEF OpInv
  <2>3. SecretInv'
    BY <1>0, <2>1, <2>2 DEF SecretInv
  <2> QED
    BY <1>0, <2>1, <2>3, GateFrame DEF GateInv
<1>9. CASE RotateEnd
  <2>1. /\ op'.kind = "none" /\ op'.step = "idle"
        /\ op.kind = "rotate" /\ op.step = "warn" /\ op.secret # 0 /\ retired' = op.secret - 1
        /\ UNCHANGED <<issued, msecret, mstate, starts, secretOf, pc, srv, cred>>
    BY <1>9, OpAfter DEF RotateEnd, NextOp, TypeOK, OpType
  <2>2. SecretInv'
    BY <1>0, <2>1 DEF SecretInv
  <2> QED
    BY <1>0, <2>1, <2>2, GateFrame DEF GateInv
<1>10. CASE ShutdownAsk
  <2>1. UNCHANGED <<issued, msecret, mstate, starts, secretOf, pc, srv, cred, retired, op>>
    BY <1>10 DEF ShutdownAsk
  <2> QED
    BY <1>0, <2>1, GateFrame DEF GateInv
<1>11. ASSUME NEW kind \in {"shutdown", "tunnel"}, NEW state \in {"Stopped", "Failed"},
              ClearLocked(kind, state), UNCHANGED <<issued, starts, secretOf, retired>>
       PROVE  GateInv'
  <2>1. /\ op'.kind = kind /\ op'.step = "viewers" /\ op'.secret = msecret
        /\ msecret' = 0 /\ mstate' = state /\ UNCHANGED <<pc, srv, cred>>
    BY <1>11 DEF ClearLocked
  <2>2. SecretInv'
    BY <1>0, <1>11, <2>1 DEF SecretInv
  <2> QED
    BY <1>0, <1>11, <2>1, <2>2, GateFrame DEF GateInv
<1>12. CASE ShutdownClear
  BY <1>11, <1>12 DEF ShutdownClear
<1>13. CASE OpViewersDone
  <2>1. /\ op'.kind = op.kind /\ op'.step = "factory" /\ op'.secret = op.secret
        /\ op.step = "viewers"
        /\ UNCHANGED <<issued, msecret, mstate, starts, secretOf, pc, srv, cred, retired>>
    BY <1>13, OpAfter DEF NextOp, OpViewersDone
  <2> QED
    BY <1>0, <2>1, GateFrame DEF GateInv
<1>14. ASSUME NEW s \in Servers, TunnelExit(s)
       PROVE  GateInv'
  <2>1. UNCHANGED <<issued, msecret, mstate, starts, secretOf, pc, srv, cred, retired, op>>
    BY <1>14 DEF TunnelExit
  <2> QED
    BY <1>0, <2>1, GateFrame DEF GateInv
<1>15. ASSUME NEW s \in Servers, WatchTunnel(s)
       PROVE  GateInv'
  <2>1. UNCHANGED <<issued, starts, secretOf, retired>>
    BY <1>15 DEF WatchTunnel
  <2>2. CASE ClearLocked("tunnel", "Failed")
    BY <1>11, <2>1, <2>2
  <2>3. CASE op' = op /\ UNCHANGED <<mgrVars, setVars, connVars>>
    BY <1>0, <2>1, <2>3, GateFrame DEF GateInv
  <2> QED
    BY <1>15, <2>2, <2>3, OpAfter
<1>16. ASSUME NEW failed \in BOOLEAN, OpFactory(failed)
       PROVE  GateInv'
  <2>1. /\ op'.kind = op.kind /\ op'.step \in {"warn", "clients"} /\ op'.secret = op.secret
        /\ op.step = "factory"
        /\ UNCHANGED <<issued, msecret, mstate, starts, secretOf, pc, srv, cred, retired>>
    BY <1>16, OpAfter DEF NextOp, OpFactory
  <2> QED
    BY <1>0, <2>1, GateFrame DEF GateInv
<1>17. ASSUME NEW timedOut \in BOOLEAN, OpDrained(timedOut)
       PROVE  GateInv'
  <2>1. /\ op'.kind = "none" /\ op'.step = "idle" /\ op.step = "drain"
        /\ UNCHANGED <<issued, msecret, starts, secretOf, pc, srv, cred>>
        /\ retired' \in {retired, op.secret}
        /\ op.kind = "start" => mstate' # "Ready" /\ retired' = retired
        /\ op.kind # "start" => mstate' = mstate
    BY <1>17, OpAfter DEF NextOp, OpDrained, FailStart
  <2>2. op.kind \in {"start", "shutdown", "tunnel"}
    BY <1>0, <2>1 DEF OpInv, OpKinds
  <2>3. mstate # "Ready" /\ mstate' # "Ready"
    BY <1>0, <2>1, <2>2 DEF OpInv
  <2>4. SecretInv'
    BY <1>0, <2>1, <2>2, <2>3 DEF SecretInv
  <2> QED
    BY <1>0, <2>1, <2>4, GateFrame DEF GateInv
<1> QED
  BY <1>1, <1>2, <1>3, <1>4, <1>5, <1>6, <1>7, <1>8, <1>9, <1>10, <1>12, <1>13, <1>14,
       <1>15, <1>16, <1>17
      DEF ManagerStep

\* Every step preserves the order of the credentials.
LEMMA GateStep == TypeOK /\ CredentialInv /\ GateInv /\ [Next]_vars => GateInv'
<1> SUFFICES ASSUME TypeOK, CredentialInv, GateInv, [Next]_vars PROVE GateInv'
  OBVIOUS
<1>1. CASE ManagerStep
  BY <1>1, GateManager
<1>2. ASSUME NEW c \in Clients, ClientStep(c)
      PROVE  GateInv'
  BY <1>2, GateClient
<1>3. CASE UNCHANGED vars
  BY <1>3, GateFrame DEF GateInv, vars, mgrVars, srvVars, connVars, opVars, hist
<1> QED
  BY <1>1, <1>2, <1>3 DEF Next, Terminated

\* The order of the credentials holds in every reachable state.
LEMMA GateAlways == Spec => []GateInv
  BY GateInvInit, GateStep, TypeCorrect, CredentialAlways, PTL DEF Spec

-----------------------------------------------------------------------------
\* What the Manager's operations do to the gate: a committed start and a rotation publish
\* a newer credential, a shutdown and a tunnel's end withdraw it, the rest is not visible.
LEMMA ManagerImplementsGate ==
    ASSUME TypeOK, CredentialInv, GateInv, ManagerStep
    PROVE  Gate!Publish \/ Gate!Withdraw \/ UNCHANGED Gate!gateVars
<1> USE DEF mgrVars, setVars, srvVars, connVars, viewVars, opVars, hist, Gate!gateVars
<1>0. SecretInv /\ OpInv /\ SessionInv /\ msecret \in Nat /\ issued \in Nat
  BY MirrorAssumption DEF GateInv, CredentialInv, TypeOK, MgrType, SrvType
<1>1. CASE StartBegin \/ StartServer \/ StartServerFails \/ StartTunnel \/ StartTunnelFails
           \/ StartCanceled \/ StartClosePartial
  BY <1>1 DEF StartBegin, StartServer, StartServerFails, FailStart, StartTunnel,
              StartTunnelFails, StartCanceled, StartClosePartial
<1>2. CASE StartCommit
  <2>1. /\ op.kind = "start" /\ op.secret # 0 /\ msecret' = op.secret
        /\ UNCHANGED <<active, cred>>
    BY <1>2 DEF StartCommit, TypeOK, OpType
  <2>2. mstate # "Ready"
    BY <1>0, <2>1 DEF OpInv
  <2>3. msecret = 0 /\ active = {} /\ op.secret = issued
    BY <1>0, <2>1, <2>2 DEF SecretInv, SessionInv
  <2> QED
    BY <1>0, <2>1, <2>3 DEF Gate!Publish
<1>3. CASE RotateBegin \/ RotateSetSecret \/ RotateCutDone \/ RotateEnd
  BY <1>3 DEF RotateBegin, RotateSetSecret, RotateCutDone, RotateEnd
<1>4. CASE RotateDetach
  <2>1. /\ op.step = "detach" /\ msecret' = op.secret /\ active' = {} /\ UNCHANGED cred
    BY <1>4 DEF RotateDetach, Detach
  <2>2. msecret < op.secret
    BY <1>0, <2>1 DEF SecretInv
  <2>3. op.secret \in Nat
    BY MirrorAssumption DEF TypeOK, OpType, Operations
  <2> QED
    BY <1>0, <2>1, <2>2, <2>3 DEF Gate!Publish
<1>5. CASE ShutdownAsk \/ OpViewersDone \/ OpTellDone \/ OpClose
  BY <1>5 DEF ShutdownAsk, OpViewersDone, OpTellDone, OpClose
<1>6. CASE ShutdownClear
  BY <1>6 DEF ShutdownClear, ClearLocked, Detach, Gate!Withdraw
<1>7. ASSUME NEW s \in Servers, TunnelExit(s) \/ WatchTunnel(s)
      PROVE  Gate!Withdraw \/ UNCHANGED Gate!gateVars
  BY <1>7 DEF TunnelExit, WatchTunnel, ClearLocked, Detach, Gate!Withdraw
<1>8. ASSUME NEW b \in BOOLEAN, OpFactory(b) \/ OpDrained(b)
      PROVE  UNCHANGED Gate!gateVars
  BY <1>8 DEF OpFactory, OpDrained, FailStart
<1> QED
  BY <1>1, <1>2, <1>3, <1>4, <1>5, <1>6, <1>7, <1>8 DEF ManagerStep

\* What a connection does to the gate: the handshake presents a credential, activation is
\* granted while it is in force, and whoever takes a viewer out of m.active ends a session.
LEMMA ClientImplementsGate ==
    ASSUME TypeOK, CredentialInv, GateInv, NEW c \in Clients, ClientStep(c)
    PROVE  Gate!Present(c) \/ Gate!Grant(c) \/ Gate!End(c) \/ UNCHANGED Gate!gateVars
<1> USE DEF Gate!gateVars
<1>0. QuietStep(c)
  BY ClientQuiet
<1>1. ASSUME NEW s \in Servers, Accept(c, s)
      PROVE  Gate!Present(c)
  <2>1. /\ pc[c] = "idle" /\ s <= starts /\ cred' = [cred EXCEPT ![c] = secretOf[s]]
        /\ UNCHANGED <<msecret, active>>
    BY <1>1 DEF Accept, mgrVars, setVars
  <2>2. cred[c] = 0 /\ secretOf[s] # 0 /\ secretOf[s] \in Nat
    BY <2>1, MirrorAssumption DEF GateInv, PairedInv, TypeOK, SrvType
  <2>3. cred'[c] = secretOf[s]
    BY <2>1 DEF TypeOK, ConnType
  <2> QED
    BY <2>1, <2>2, <2>3 DEF Gate!Present
<1>2. ASSUME UNCHANGED <<srv, cred>>
      PROVE  Gate!Grant(c) \/ Gate!End(c) \/ UNCHANGED Gate!gateVars
  <2>1. UNCHANGED msecret
    BY <1>0 DEF QuietStep
  <2>2. CASE Activate(c) /\ active' # active
    <3>1. /\ active' = active \cup {c} /\ c \in opening /\ c \notin active /\ MuFree
      BY <2>2 DEF Activate, StillReserved
    <3>2. cred[c] = msecret /\ msecret # 0
      BY <3>1 DEF CredentialInv, SessionInv, ServerInv
    <3> QED
      BY <1>2, <2>1, <3>1, <3>2 DEF Gate!Grant
  <2> QED
    BY <1>0, <1>2, <2>1, <2>2 DEF QuietStep, Gate!End
<1> QED
  BY <1>0, <1>1, <1>2 DEF QuietStep

(***************************************************************************)
(* The mirror implements the pairing gate, whatever number of connections, *)
(* starts and rotations: every step of Manager, server and connections is  *)
(* a step of the gate or not visible there, so a terminal is granted only  *)
(* while the credential its browser presented is in force, and withdrawing *)
(* the credential ends every session in the same step.                     *)
(***************************************************************************)
THEOREM MirrorImplementsGate == Spec => ImplementsGate
<1>1. Init => Gate!GateInit
  BY DEF Init, Gate!GateInit
<1>2. TypeOK /\ CredentialInv /\ GateInv /\ [Next]_vars => [Gate!GateNext]_(Gate!gateVars)
  <2> SUFFICES ASSUME TypeOK, CredentialInv, GateInv, [Next]_vars
               PROVE  Gate!GateNext \/ UNCHANGED Gate!gateVars
    OBVIOUS
  <2>1. CASE ManagerStep
    BY <2>1, ManagerImplementsGate DEF Gate!GateNext
  <2>2. ASSUME NEW c \in Clients, ClientStep(c)
        PROVE  Gate!GateNext \/ UNCHANGED Gate!gateVars
    BY <2>2, ClientImplementsGate DEF Gate!GateNext
  <2>3. CASE UNCHANGED vars
    BY <2>3 DEF vars, mgrVars, setVars, connVars, Gate!gateVars
  <2> QED
    BY <2>1, <2>2, <2>3 DEF Next, Terminated
<1> QED
  BY <1>1, <1>2, TypeCorrect, CredentialAlways, GateAlways, PTL
  DEF Spec, ImplementsGate, Gate!GateSpec
=============================================================================
