--------------------------- MODULE MirrorEndProofs ---------------------------
(***************************************************************************)
(* Proofs about the end of a mirror, for any set of connections and any    *)
(* bounds: who was still connected gets the last word before the server    *)
(* goes, and a shutdown that reports success left nothing behind.          *)
(***************************************************************************)
EXTENDS MirrorLifeProofs

(***************************************************************************)
(* The invariants.                                                         *)
(***************************************************************************)
\* Whose context is done: never the current server's, that of a server being cleaned up
\* only once its clients were told, and that of a starting one only if the start was
\* canceled.
CancelInv ==
    /\ \A s \in cancelled : s <= starts
    /\ mserver \notin cancelled
    /\ op.kind \in {"shutdown", "tunnel"} /\ op.step # "drain" => op.srv \notin cancelled
    /\ startup # "none" => op.kind = "start"
    /\ op.step \in {"server", "tunnel", "commit"} => startup # "none"
    /\ op.step \in {"tunnel", "commit"} /\ startup # "canceled" => op.srv \notin cancelled

\* The phases of a connection whose terminal is open, or reserved and being opened.
OpenPhases == {"start", "bind", "activate", "run", "input", "write"}

\* A connection whose terminal is open, whose credential is still accepted and whose own
\* queue did not fail has been told that the mirror ends, or can be, and will be: it is a
\* client of the current server or on the list of the cleanup that closes its server.
UntoldReached ==
    \A c \in Clients : pc[c] \in OpenPhases /\ CredentialCurrent(c) /\ c \notin told \cup broken =>
        /\ c \notin qclosed
        /\ \/ c \in clients /\ srv[c] = mserver
           \/ /\ op.kind \in {"shutdown", "tunnel"}
              /\ op.step \in {"viewers", "factory", "clients"}
              /\ c \in op.tell /\ srv[c] = op.srv

\* What Rotate cuts off holds the old credential, and so does, while it has m.mu, every
\* terminal of its server.
CutIsStale ==
    /\ op.step = "cut" => \A c \in op.tell : ~CredentialCurrent(c)
    /\ op.step \in {"cut", "detach"} =>
        \A c \in Clients : pc[c] \in OpenPhases /\ srv[c] = mserver => ~CredentialCurrent(c)

\* Nobody lists a connection that has not begun.
ListedBegun == \A c \in connections \cup clients \cup op.tell : pc[c] # "idle"

\* Who has yet to be told will be reached.
TellInv == UntoldReached /\ CutIsStale /\ ListedBegun

\* What a handler holds tells how far it is; a handler that is through holds nothing.
HeldInv ==
    /\ \A c \in hsHeld : pc[c] = "auth"
    /\ \A c \in slotHeld : pc[c] \notin {"idle", "auth", "done"}
    /\ \A c \in connections : pc[c] \notin {"idle", "auth", "check", "done"}

\* Shutdown empties the Manager for good, and has returned only when it is through.
ShutInv ==
    /\ shutdown => /\ clients = {} /\ active = {} /\ opening = {}
                   /\ mstate # "Ready" /\ op.kind \in {"none", "shutdown"}
    /\ op.kind = "shutdown" => shutdown
    /\ result # "none" => shutdown /\ op.step = "idle"

\* The handlers of a server that is gone have returned, unless a cleanup gave up on them.
GoneInv ==
    \A s \in Servers : s <= starts /\ s \notin overdue /\ s # mserver /\ s # op.srv
        => HandlersGone(s)

\* What a shutdown that reports success waited for.
DrainInv == HeldInv /\ ShutInv /\ GoneInv

-----------------------------------------------------------------------------
\* At the beginning nothing is canceled and nobody is connected.
LEMMA CancelInit == Init => CancelInv
  BY IdleType DEF Init, CancelInv

\* The steps of connections and viewers do not end a server.
LEMMA CancelClient ==
    ASSUME TypeOK, CancelInv, NEW c \in Clients, ClientStep(c)
    PROVE  CancelInv'
<1>1. QuietStep(c)
  BY ClientQuiet
<1> QED
  BY <1>1 DEF QuietStep, srvVars, CancelInv

\* The operations on the Manager end a server only as CancelInv says.
LEMMA CancelManager ==
    ASSUME TypeOK, CredentialInv, CancelInv, ManagerStep
    PROVE  CancelInv'
<1> USE DEF mgrVars, setVars, srvVars, connVars, viewVars, opVars, hist
<1>0. /\ OpInv /\ starts \in Nat /\ mserver \in Nat /\ op.srv \in Nat
      /\ cancelled \subseteq Servers /\ 0 \notin cancelled
  BY MirrorAssumption
      DEF CredentialInv, TypeOK, SrvType, MgrType, OpType, Operations, Servers
<1>1. CASE StartBegin
  <2>1. /\ op'.kind = "start" /\ op'.step = "server" /\ startup' = "running"
        /\ UNCHANGED <<starts, cancelled, mserver>>
    BY <1>1, OpAfter DEF NextOp, StartBegin
  <2> QED
    BY <2>1 DEF CancelInv
<1>2. CASE StartServer
  <2>1. /\ op'.kind = op.kind /\ op'.step = "tunnel" /\ op'.srv = starts + 1
        /\ starts' = starts + 1 /\ op.step = "server" /\ op.kind = "start"
        /\ cancelled' = IF startup = "canceled" THEN cancelled \cup {starts + 1} ELSE cancelled
        /\ UNCHANGED <<startup, mserver>>
    BY <1>2, OpAfter DEF NextOp, StartServer, TypeOK, OpType
  <2>2. \A s \in cancelled : s \in Nat /\ s <= starts
    BY <1>0 DEF CancelInv, Servers
  <2>3. starts + 1 \notin cancelled /\ mserver <= starts
    BY <1>0, <2>2 DEF OpInv
  <2>4. \A s \in cancelled' : s <= starts'
    BY <1>0, <2>1, <2>2
  <2>5. mserver' \notin cancelled'
    BY <1>0, <2>1, <2>3 DEF CancelInv
  <2> QED
    BY <2>1, <2>3, <2>4, <2>5 DEF CancelInv
<1>3. CASE StartServerFails \/ StartCommit \/ RotateEnd \/ \E t \in BOOLEAN : OpDrained(t)
  <2>1. op'.kind = "none" /\ op'.step = "idle" /\ UNCHANGED <<starts, cancelled>>
    BY <1>3, OpAfter DEF NextOp, StartServerFails, StartCommit, RotateEnd, OpDrained
  <2>2. startup' = "none"
    <3>1. CASE StartServerFails \/ StartCommit
      BY <3>1 DEF StartServerFails, StartCommit, FailStart
    <3>2. CASE RotateEnd
      BY <3>2 DEF RotateEnd, CancelInv, TypeOK, OpType
    <3>3. CASE \E t \in BOOLEAN : OpDrained(t)
      BY <3>3 DEF OpDrained, FailStart, CancelInv
    <3> QED
      BY <1>3, <3>1, <3>2, <3>3
  <2>3. mserver' \notin cancelled'
    <3>1. CASE StartCommit
      BY <2>1, <3>1 DEF StartCommit, StartupCanceled, CancelInv
    <3>2. CASE StartServerFails \/ RotateEnd \/ \E t \in BOOLEAN : OpDrained(t)
      BY <2>1, <3>2 DEF StartServerFails, RotateEnd, OpDrained, FailStart, CancelInv
    <3> QED
      BY <1>3, <3>1, <3>2
  <2> QED
    BY <2>1, <2>2, <2>3 DEF CancelInv
<1>4. CASE StartTunnel \/ StartTunnelFails \/ StartCanceled
  <2>1. /\ op'.kind = op.kind /\ op'.srv = op.srv /\ op'.step \in {"commit", "partial"}
        /\ op'.step = "commit" => startup' = startup
        /\ op.step \in {"tunnel", "commit"} /\ op.kind = "start"
        /\ startup' \in {startup, "none"}
        /\ UNCHANGED <<starts, cancelled, mserver>>
    BY <1>4, OpAfter
        DEF NextOp, StartTunnel, StartTunnelFails, StartCanceled, TypeOK, OpType
  <2> QED
    BY <2>1 DEF CancelInv
<1>5. CASE StartClosePartial \/ OpClose
  <2>1. /\ op'.kind = op.kind /\ op'.srv = op.srv /\ op'.step = "drain"
        /\ cancelled' \subseteq cancelled \cup ({op.srv} \ {0})
        /\ op.step \in {"partial", "close"} /\ UNCHANGED <<starts, mserver, startup>>
    BY <1>5, OpAfter DEF NextOp, StartClosePartial, OpClose, TypeOK, OpType
  <2>2. op.kind \in {"start", "shutdown", "tunnel"}
    BY <1>0, <2>1 DEF OpInv, TypeOK, OpType, Operations, OpKinds
  <2>3. mserver = 0 /\ op.srv <= starts
    BY <1>0, <2>2 DEF OpInv
  <2> QED
    BY <1>0, <2>1, <2>3 DEF CancelInv
<1>6. CASE RotateBegin
  <2>1. /\ op'.kind = "rotate" /\ op'.step = "rotate" /\ op.step = "idle"
        /\ UNCHANGED <<starts, cancelled, mserver, startup>>
    BY <1>6, OpAfter DEF NextOp, RotateBegin, OpFree
  <2>2. startup = "none"
    BY <1>0, <2>1 DEF OpInv, CancelInv
  <2> QED
    BY <2>1, <2>2 DEF CancelInv
<1>7. CASE RotateSetSecret \/ RotateCutDone \/ RotateDetach \/ OpViewersDone \/ OpTellDone
           \/ \E failed \in BOOLEAN : OpFactory(failed)
  <2>1. /\ op'.kind = op.kind /\ op'.srv = op.srv
        /\ op'.step \notin {"drain", "server", "tunnel", "commit"}
    BY <1>7, OpAfter DEF NextOp
  <2>2. op.step # "drain" /\ UNCHANGED <<starts, cancelled, mserver, startup>>
    BY <1>7 DEF RotateSetSecret, RotateCutDone, RotateDetach, OpViewersDone, OpTellDone,
                OpFactory
  <2> QED
    BY <2>1, <2>2 DEF CancelInv
<1>8. CASE ShutdownAsk
  <2>1. CASE startup = "running"
    <3>1. /\ startup' = "canceled" /\ cancelled' \subseteq cancelled \cup ({op.srv} \ {0})
          /\ UNCHANGED <<op, starts, mserver>>
      BY <1>8, <2>1 DEF ShutdownAsk
    <3>2. op.kind = "start"
      BY <2>1 DEF CancelInv
    <3>3. mserver = 0 /\ op.srv <= starts
      BY <1>0, <3>2 DEF OpInv
    <3> QED
      BY <1>0, <3>1, <3>2, <3>3 DEF CancelInv
  <2>2. CASE startup # "running"
    BY <1>8, <2>2 DEF ShutdownAsk, CancelInv
  <2> QED
    BY <2>1, <2>2
<1>9. ASSUME NEW kind \in {"shutdown", "tunnel"}, NEW state,
             ClearLocked(kind, state), OpFree, UNCHANGED <<starts, cancelled>>
      PROVE  CancelInv'
  <2>1. /\ op'.kind = kind /\ op'.step = "viewers" /\ op'.srv = mserver /\ mserver' = 0
        /\ startup' = startup /\ op.step = "idle"
    BY <1>9 DEF ClearLocked, OpFree
  <2>2. startup = "none"
    BY <1>0, <2>1 DEF OpInv, CancelInv
  <2> QED
    BY <1>0, <1>9, <2>1, <2>2 DEF CancelInv
<1>10. CASE ShutdownClear
  BY <1>9, <1>10 DEF ShutdownClear
<1>11. ASSUME NEW s \in Servers, TunnelExit(s)
       PROVE  CancelInv'
  BY <1>11 DEF TunnelExit, CancelInv
<1>12. ASSUME NEW s \in Servers, WatchTunnel(s)
       PROVE  CancelInv'
  <2>1. OpFree /\ UNCHANGED <<starts, cancelled>>
    BY <1>12 DEF WatchTunnel
  <2>2. CASE op' = op /\ UNCHANGED <<mgrVars, setVars, connVars>>
    BY <2>1, <2>2 DEF CancelInv
  <2> QED
    BY <1>9, <1>12, <2>1, <2>2, OpAfter
<1> QED
  BY <1>1, <1>2, <1>3, <1>4, <1>5, <1>6, <1>7, <1>8, <1>10, <1>11, <1>12 DEF ManagerStep

\* A server's context ends in every reachable state as CancelInv says.
LEMMA CancelAlways == Spec => []CancelInv
<1>1. TypeOK /\ CredentialInv /\ CancelInv /\ [Next]_vars => CancelInv'
  <2> SUFFICES ASSUME TypeOK, CredentialInv, CancelInv, [Next]_vars PROVE CancelInv'
    OBVIOUS
  <2>1. CASE UNCHANGED vars
    BY <2>1 DEF vars, mgrVars, srvVars, opVars, CancelInv
  <2> QED
    BY <2>1, CancelManager, CancelClient DEF Next, Terminated
<1> QED
  BY <1>1, CancelInit, TypeCorrect, CredentialAlways, PTL DEF Spec

-----------------------------------------------------------------------------
\* At the beginning nobody is connected.
LEMMA TellInit == Init => TellInv
  BY DEF Init, Idle, TellInv, UntoldReached, CutIsStale, ListedBegun, OpenPhases

\* A terminal is opened by Reserve only, a connection that keeps its terminal keeps its
\* queue, unless that fails, and its place among the clients, and only begun connections
\* are registered.
LEMMA OpenSteps ==
    ASSUME TypeOK, NEW c \in Clients, ClientStep(c), ~Reserve(c), ~OpTell(c), ~RotateCut(c)
    PROVE  /\ \A d \in Clients : pc'[d] \in OpenPhases =>
                /\ pc[d] \in OpenPhases
                /\ d \in qclosed' => d \in qclosed \cup broken'
                /\ d \in clients => d \in clients'
           /\ told' = told /\ broken \subseteq broken' /\ op'.tell = op.tell
           /\ \A d \in connections' \cup clients' :
                d \in connections \cup clients \/ pc'[d] # "idle"
<1> DEFINE Kept == /\ \A d \in Clients : pc'[d] \in OpenPhases =>
                        /\ pc[d] \in OpenPhases
                        /\ d \in qclosed' => d \in qclosed \cup broken'
                        /\ d \in clients => d \in clients'
                   /\ told' = told /\ broken \subseteq broken' /\ op'.tell = op.tell
                   /\ \A d \in connections' \cup clients' :
                        d \in connections \cup clients \/ pc'[d] # "idle"
<1> USE DEF mgrVars, setVars, srvVars, connVars, viewVars, opVars, hist, OpenPhases
<1>0. pc \in [Clients -> Phases]
  BY DEF TypeOK, ConnType
<1>1. CASE OpViewerClosed(c) \/ OpTerminate(c)
  BY <1>1, OpAfter DEF OpViewerClosed, OpTerminate, NextOp
<1>2. ASSUME NEW s \in Servers, Accept(c, s)
      PROVE  Kept
  BY <1>0, <1>2 DEF Accept, Goto
<1>3. CASE Authenticate(c) \/ AuthenticateFails(c)
  BY <1>0, <1>3 DEF Authenticate, AuthenticateFails, Goto
<1>4. CASE Register(c) \/ Connected(c)
  BY <1>0, <1>4 DEF Register, Connected, Goto
<1>5. CASE Prepare(c) \/ PrepareFails(c)
  BY <1>0, <1>5 DEF Prepare, PrepareFails, Goto
<1>6. ASSUME NEW failed \in BOOLEAN, Abandon(c, failed) \/ StartViewerFails(c, failed)
      PROVE  Kept
  BY <1>0, <1>6 DEF Abandon, StartViewerFails, Goto
<1>7. CASE StartViewer(c) \/ RemoveOpening(c) \/ BindViewer(c) \/ Activate(c)
  BY <1>0, <1>7 DEF StartViewer, RemoveOpening, BindViewer, Activate, Goto
<1>8. CASE Terminate(c) \/ ViewerEnds(c) \/ WatchViewer(c) \/ QueueFails(c)
  BY <1>8 DEF Terminate, ViewerEnds, WatchViewer, QueueFails
<1>9. CASE Discarded(c) \/ Closed(c) \/ Left(c)
  BY <1>0, <1>9 DEF Discarded, Closed, Left, Goto
<1>10. CASE Refuse(c) \/ RecvInput(c) \/ InputLookup(c) \/ InputWritten(c) \/ InputRejected(c)
  BY <1>0, <1>10 DEF Refuse, RecvInput, InputLookup, InputWritten, InputRejected,
                     DispatchError, Goto
<1>11. CASE RecvClose(c) \/ Acknowledge(c) \/ PeerLeaves(c) \/ Exit(c)
  BY <1>0, <1>11 DEF RecvClose, Acknowledge, PeerLeaves, Exit, Goto
<1>12. CASE ManagerClose(c) \/ Disconnected(c)
  BY <1>0, <1>12 DEF ManagerClose, Disconnected, Goto
<1>13. ASSUME NEW failed \in BOOLEAN, NEW error \in BOOLEAN, ViewerFinish(c, failed, error)
       PROVE  Kept
  BY <1>13 DEF ViewerFinish
<1> QED
  BY <1>1, <1>2, <1>3, <1>4, <1>5, <1>6, <1>7, <1>8, <1>9, <1>10, <1>11, <1>12, <1>13
  DEF ClientStep

\* No step of a connection, and neither cutting off nor telling one, leaves an open
\* terminal out of reach.
LEMMA TellClient ==
    ASSUME TypeOK, CredentialInv, TellInv, NEW c \in Clients, ClientStep(c)
    PROVE  TellInv'
<1> USE DEF mgrVars, setVars, srvVars, connVars, viewVars, opVars, hist
<1>0. /\ pc \in [Clients -> Phases] /\ srv \in [Clients -> 0..MaxStarts]
      /\ cred \in [Clients -> 0..MaxSecrets] /\ op.tell \subseteq Clients
      /\ connections \subseteq Clients /\ clients \subseteq Clients
  BY DEF TypeOK, ConnType, SetType, OpType, Operations
<1>1. QuietStep(c)
  BY ClientQuiet
<1>2. /\ UNCHANGED <<mserver, secretOf, starts>>
      /\ op'.kind = op.kind /\ op'.step = op.step /\ op'.srv = op.srv
  BY <1>1 DEF QuietStep
<1>3. \A d \in Clients : pc[d] # "idle" =>
        /\ CredentialCurrent(d)' = CredentialCurrent(d) /\ srv'[d] = srv[d]
        /\ pc'[d] # "idle"
  <2>1. ASSUME NEW s \in Servers, Accept(c, s)
        PROVE  \A d \in Clients : pc[d] # "idle" =>
                cred'[d] = cred[d] /\ srv'[d] = srv[d] /\ pc'[d] # "idle"
    BY <1>0, <2>1 DEF Accept, Goto
  <2>2. \A d \in Clients : pc[d] # "idle" =>
                cred'[d] = cred[d] /\ srv'[d] = srv[d] /\ pc'[d] # "idle"
    BY <1>1, <2>1 DEF QuietStep
  <2> QED
    BY <1>2, <2>2 DEF CredentialCurrent
<1>4. \A d \in Clients : pc[d] \in OpenPhases => pc[d] # "idle"
  BY DEF OpenPhases
<1>5. CASE RotateCut(c)
  <2>1. /\ op'.tell = op.tell \ {c} /\ op.step = "cut" /\ c \in op.tell
        /\ qclosed' = qclosed \cup {c} /\ UNCHANGED <<pc, connections, clients, told, broken>>
    BY <1>5, OpAfter DEF NextOp, RotateCut
  <2>2. ~CredentialCurrent(c)
    BY <2>1 DEF TellInv, CutIsStale
  <2>3. \A d \in Clients : CredentialCurrent(d)' = CredentialCurrent(d) /\ srv'[d] = srv[d]
    BY <1>5 DEF RotateCut, CredentialCurrent
  <2>4. UntoldReached'
    BY <1>2, <2>1, <2>2, <2>3 DEF TellInv, UntoldReached
  <2>5. CutIsStale'
    BY <1>0, <1>2, <2>1, <2>3 DEF TellInv, CutIsStale
  <2>6. ListedBegun'
    BY <2>1 DEF TellInv, ListedBegun
  <2> QED
    BY <2>4, <2>5, <2>6 DEF TellInv
<1>6. CASE OpTell(c)
  <2>1. /\ op'.tell = op.tell \ {c} /\ op.step = "clients"
        /\ told' = told \cup ({c} \ qclosed)
        /\ qclosed' = qclosed \cup {c} /\ UNCHANGED <<pc, connections, clients, broken>>
    BY <1>6, OpAfter DEF NextOp, OpTell
  <2>2. \A d \in Clients : CredentialCurrent(d)' = CredentialCurrent(d) /\ srv'[d] = srv[d]
    BY <1>6 DEF OpTell, CredentialCurrent
  <2>3. UntoldReached'
    BY <1>2, <2>1, <2>2 DEF TellInv, UntoldReached
  <2>4. CutIsStale'
    BY <1>2, <2>1 DEF CutIsStale
  <2>5. ListedBegun'
    BY <2>1 DEF TellInv, ListedBegun
  <2> QED
    BY <2>3, <2>4, <2>5 DEF TellInv
<1>7. CASE Reserve(c)
  <2>1. /\ UNCHANGED <<connections, clients, told, broken, qclosed, op, srv, cred>>
        /\ MuFree /\ pc[c] = "reserve"
        /\ \A d \in Clients : d # c => pc'[d] = pc[d]
        /\ pc'[c] \in {"start", "abandon"}
        /\ pc'[c] = "start" => c \in clients /\ mstate = "Ready" /\ CanSend(c)
    BY <1>0, <1>7 DEF Reserve, Goto, Serving
  <2>2. ASSUME pc'[c] = "start"
        PROVE  c \in clients /\ c \notin qclosed /\ srv[c] = mserver
    <3>1. c \in clients /\ mstate = "Ready" /\ c \notin qclosed /\ srv[c] \notin cancelled
      BY <2>1, <2>2 DEF CanSend
    <3>2. srv[c] \in Servers /\ srv[c] <= starts
      BY <2>1 DEF CredentialInv, ConnInv
    <3>3. op.kind \in {"none", "rotate"}
      BY <3>1 DEF CredentialInv, OpInv, TypeOK, OpType, Operations, OpKinds
    <3>4. op.srv \in {0, mserver}
      BY <3>3 DEF CredentialInv, OpInv
    <3>5. srv[c] # 0
      BY <3>2 DEF Servers
    <3> QED
      BY <3>1, <3>2, <3>4, <3>5 DEF CredentialInv, ServerInv
  <2>3. CredentialCurrent(c)' = CredentialCurrent(c)
    BY <1>2, <2>1 DEF CredentialCurrent
  <2>4. UntoldReached'
    <3> SUFFICES ASSUME NEW d \in Clients, pc'[d] \in OpenPhases, CredentialCurrent(d)',
                        d \notin told' \cup broken'
                 PROVE  /\ d \notin qclosed'
                        /\ \/ d \in clients' /\ srv'[d] = mserver'
                           \/ /\ op'.kind \in {"shutdown", "tunnel"}
                              /\ op'.step \in {"viewers", "factory", "clients"}
                              /\ d \in op'.tell /\ srv'[d] = op'.srv
      BY DEF UntoldReached
    <3>1. CASE d = c
      BY <1>2, <2>1, <2>2, <3>1 DEF OpenPhases
    <3>2. CASE d # c
      <4>1. pc[d] \in OpenPhases /\ CredentialCurrent(d) /\ d \notin told \cup broken
        BY <1>3, <1>4, <2>1, <3>2
      <4> QED
        BY <1>2, <2>1, <4>1 DEF TellInv, UntoldReached
    <3> QED
      BY <3>1, <3>2
  <2>5. CutIsStale'
    BY <2>1 DEF CutIsStale, MuFree
  <2>6. ListedBegun'
    BY <1>0, <1>3, <2>1 DEF TellInv, ListedBegun
  <2> QED
    BY <2>4, <2>5, <2>6 DEF TellInv
<1>8. CASE ~Reserve(c) /\ ~OpTell(c) /\ ~RotateCut(c)
  <2>1. /\ \A d \in Clients : pc'[d] \in OpenPhases =>
                /\ pc[d] \in OpenPhases
                /\ d \in qclosed' => d \in qclosed \cup broken'
                /\ d \in clients => d \in clients'
        /\ told' = told /\ broken \subseteq broken' /\ op'.tell = op.tell
        /\ \A d \in connections' \cup clients' :
                d \in connections \cup clients \/ pc'[d] # "idle"
    BY <1>8, OpenSteps
  <2>2. UntoldReached'
    BY <1>2, <1>3, <1>4, <2>1 DEF TellInv, UntoldReached
  <2>3. CutIsStale'
    <3>1. op.step = "cut" => \A d \in op.tell : ~CredentialCurrent(d)'
      BY <1>0, <1>3 DEF TellInv, CutIsStale, ListedBegun
    <3>2. op.step \in {"cut", "detach"} =>
            \A d \in Clients : pc'[d] \in OpenPhases /\ srv'[d] = mserver
                               => ~CredentialCurrent(d)'
      BY <1>3, <1>4, <2>1 DEF TellInv, CutIsStale
    <3> QED
      BY <1>2, <2>1, <3>1, <3>2 DEF CutIsStale
  <2>4. ListedBegun'
    <3>1. \A d \in op.tell : pc'[d] # "idle"
      BY <1>0, <1>3 DEF TellInv, ListedBegun
    <3>2. \A d \in connections' \cup clients' : pc'[d] # "idle"
      BY <1>0, <1>3, <2>1 DEF TellInv, ListedBegun
    <3> QED
      BY <2>1, <3>1, <3>2 DEF ListedBegun
  <2> QED
    BY <2>2, <2>3, <2>4 DEF TellInv
<1> QED
  BY <1>5, <1>6, <1>7, <1>8

\* Steps of an operation that change nothing but its place, while its list is not used or
\* goes on being used.
LEMMA TellFrame ==
    ASSUME TellInv, UNCHANGED <<pc, srv, cred, secretOf, qclosed, told, broken>>,
           UNCHANGED <<clients, connections, mserver>>, op'.tell \subseteq op.tell,
           op.kind \in {"shutdown", "tunnel"} /\ op.step \in {"viewers", "factory", "clients"}
             => \/ op.tell = {}
                \/ /\ op'.kind = op.kind /\ op'.srv = op.srv /\ op'.tell = op.tell
                   /\ op'.step \in {"viewers", "factory", "clients"},
           op'.step = "cut" => op.step = "cut",
           op'.step = "detach" => op.step \in {"cut", "detach"}
    PROVE  TellInv'
<1>1. UntoldReached'
  BY DEF TellInv, UntoldReached, CredentialCurrent
<1>2. CutIsStale'
  BY DEF TellInv, CutIsStale, CredentialCurrent
<1>3. ListedBegun'
  BY DEF TellInv, ListedBegun
<1> QED
  BY <1>1, <1>2, <1>3 DEF TellInv

\* No operation on the Manager leaves an open terminal out of reach.
LEMMA TellManager ==
    ASSUME TypeOK, CredentialInv, GateInv, TellInv, ManagerStep
    PROVE  TellInv'
<1> USE DEF mgrVars, setVars, srvVars, connVars, viewVars, opVars, hist
<1>0. /\ OpInv /\ ConnInv /\ UntoldReached /\ CutIsStale /\ ListedBegun
      /\ starts \in Nat /\ op.secret \in Nat /\ msecret \in Nat
      /\ secretOf \in [Servers -> 0..MaxSecrets] /\ cred \in [Clients -> 0..MaxSecrets]
      /\ connections \subseteq Clients /\ op.tell \subseteq Clients
  BY MirrorAssumption
  DEF CredentialInv, TellInv, TypeOK, SrvType, MgrType, OpType, Operations, ConnType
<1>1. \A c \in Clients : pc[c] \in OpenPhases => srv[c] \in Servers /\ srv[c] <= starts
  BY <1>0 DEF ConnInv, OpenPhases
<1>2. CASE StartBegin \/ RotateBegin
  <2>1. /\ op'.tell = {} /\ op'.step \in {"server", "rotate"} /\ op.step = "idle"
    BY <1>2, OpAfter DEF NextOp, StartBegin, RotateBegin, OpFree
  <2>2. /\ UNCHANGED <<pc, srv, cred, secretOf, qclosed, told, broken>>
        /\ UNCHANGED <<clients, connections, mserver>>
    BY <1>2 DEF StartBegin, RotateBegin
  <2> QED
    BY <2>1, <2>2, TellFrame
<1>3. CASE StartServer
  <2>1. /\ op.kind = "start" /\ op'.kind = "start" /\ op'.step = "tunnel" /\ op'.tell = op.tell
        /\ secretOf' = [secretOf EXCEPT ![starts + 1] = op.secret]
        /\ UNCHANGED <<pc, srv, cred, qclosed, told, broken>>
        /\ UNCHANGED <<clients, connections, mserver>>
    BY <1>3, OpAfter DEF NextOp, StartServer, TypeOK, OpType
  <2>2. \A c \in Clients : pc[c] \in OpenPhases => secretOf'[srv[c]] = secretOf[srv[c]]
    BY <1>0, <1>1, <2>1 DEF Servers
  <2>3. UntoldReached'
    BY <1>0, <2>1, <2>2 DEF UntoldReached, CredentialCurrent
  <2>4. CutIsStale' /\ ListedBegun'
    BY <1>0, <2>1 DEF CutIsStale, ListedBegun
  <2> QED
    BY <2>3, <2>4 DEF TellInv
<1>4. CASE StartServerFails \/ RotateEnd \/ \E t \in BOOLEAN : OpDrained(t)
  <2>1. op'.tell = {} /\ op'.step = "idle"
    BY <1>4, OpAfter DEF NextOp
  <2>2. /\ op.step \in {"server", "warn", "drain"}
        /\ UNCHANGED <<pc, srv, cred, secretOf, qclosed, told, broken>>
        /\ UNCHANGED <<clients, connections, mserver>>
    BY <1>4 DEF StartServerFails, RotateEnd, OpDrained, FailStart
  <2> QED
    BY <2>1, <2>2, TellFrame
<1>5. CASE StartTunnel \/ StartTunnelFails \/ StartCanceled \/ StartClosePartial \/ OpClose
  <2>1. op'.tell = op.tell /\ op'.step \in {"commit", "partial", "drain"}
    BY <1>5, OpAfter DEF NextOp
  <2>2. /\ op.step \in {"tunnel", "commit", "partial", "close"}
        /\ UNCHANGED <<pc, srv, cred, secretOf, qclosed, told, broken>>
        /\ UNCHANGED <<clients, connections, mserver>>
    BY <1>5 DEF StartTunnel, StartTunnelFails, StartCanceled, StartClosePartial, OpClose
  <2> QED
    BY <2>1, <2>2, TellFrame
<1>6. CASE StartCommit
  <2>1. /\ op.kind = "start" /\ op'.kind = "none" /\ op'.step = "idle" /\ op'.tell = {}
        /\ UNCHANGED <<pc, srv, cred, secretOf, qclosed, told, broken, clients, connections>>
    BY <1>6, OpAfter DEF NextOp, StartCommit, TypeOK, OpType
  <2>2. mserver = 0
    BY <1>0, <2>1 DEF OpInv
  <2>3. \A c \in Clients : pc[c] \in OpenPhases => srv[c] # mserver
    BY <1>1, <2>2 DEF Servers
  <2>4. UntoldReached'
    BY <1>0, <2>1, <2>3 DEF UntoldReached, CredentialCurrent
  <2>5. CutIsStale' /\ ListedBegun'
    BY <1>0, <2>1 DEF CutIsStale, ListedBegun
  <2> QED
    BY <2>4, <2>5 DEF TellInv
<1>7. CASE RotateSetSecret
  <2>1. /\ op.step = "rotate" /\ op.kind = "rotate" /\ op'.kind = "rotate" /\ op'.step = "cut"
        /\ op'.tell = {c \in connections : srv[c] = op.srv}
        /\ secretOf' = [secretOf EXCEPT ![op.srv] = op.secret]
        /\ UNCHANGED <<pc, srv, cred, qclosed, told, broken>>
        /\ UNCHANGED <<clients, connections, mserver>>
    BY <1>7, OpAfter DEF NextOp, RotateSetSecret, TypeOK, OpType
  <2>2. op.srv = mserver /\ mserver # 0 /\ mserver \in Servers
    BY <1>0, <2>1, MirrorAssumption DEF OpInv, TypeOK, MgrType, Servers
  <2>3. secretOf[mserver] < op.secret
    BY <1>0, <2>1, <2>2 DEF OpInv, MuFree, CredentialInv, ServerInv, GateInv, SecretInv
  <2>4. secretOf'[mserver] = op.secret
    BY <1>0, <2>1, <2>2
  <2>5. ASSUME NEW c \in Clients, pc[c] # "idle", srv[c] = mserver
        PROVE  ~CredentialCurrent(c)'
    <3>1. cred[c] <= secretOf[mserver] /\ cred[c] \in Nat /\ secretOf[mserver] \in Nat
      BY <1>0, <2>2, <2>5 DEF GateInv, PairedInv
    <3>2. cred[c] # op.secret
      BY <1>0, <2>3, <3>1
    <3> QED
      BY <2>1, <2>4, <2>5, <3>2 DEF CredentialCurrent
  <2>6. \A c \in Clients : pc[c] \in OpenPhases => pc[c] # "idle"
    BY DEF OpenPhases
  <2>7. \A c \in Clients : pc[c] \in OpenPhases /\ CredentialCurrent(c)' =>
            CredentialCurrent(c) /\ srv[c] # mserver
    <3> SUFFICES ASSUME NEW c \in Clients, pc[c] \in OpenPhases, CredentialCurrent(c)'
                 PROVE  CredentialCurrent(c) /\ srv[c] # mserver
      OBVIOUS
    <3>1. srv[c] # mserver /\ srv[c] \in Servers
      BY <1>1, <2>5, <2>6
    <3> QED
      BY <1>0, <2>1, <2>2, <3>1 DEF CredentialCurrent
  <2>8. UntoldReached'
    BY <1>0, <2>1, <2>7 DEF UntoldReached
  <2>9. CutIsStale'
    BY <1>0, <2>1, <2>2, <2>5, <2>6 DEF CutIsStale, ListedBegun
  <2>10. ListedBegun'
    BY <1>0, <2>1 DEF ListedBegun
  <2> QED
    BY <2>8, <2>9, <2>10 DEF TellInv
<1>8. CASE RotateCutDone
  <2>1. /\ op.step = "cut" /\ op'.step = "detach" /\ op'.kind = op.kind /\ op'.tell = op.tell
        /\ UNCHANGED <<pc, srv, cred, secretOf, qclosed, told, broken>>
        /\ UNCHANGED <<clients, connections, mserver>>
    BY <1>8, OpAfter DEF NextOp, RotateCutDone
  <2> QED
    BY <2>1, TellFrame
<1>9. CASE RotateDetach
  <2>1. /\ op.step = "detach" /\ op.kind = "rotate" /\ op'.kind = "rotate"
        /\ op'.step = "viewers" /\ op'.tell = op.tell /\ clients' = {}
        /\ UNCHANGED <<pc, srv, cred, secretOf, qclosed, told, broken, connections, mserver>>
    BY <1>9, OpAfter DEF NextOp, RotateDetach, Detach, TypeOK, OpType
  <2>2. UntoldReached'
    BY <1>0, <2>1 DEF UntoldReached, CutIsStale, CredentialCurrent
  <2>3. CutIsStale' /\ ListedBegun'
    BY <1>0, <2>1 DEF CutIsStale, ListedBegun
  <2> QED
    BY <2>2, <2>3 DEF TellInv
<1>10. CASE ShutdownAsk \/ \E s \in Servers : TunnelExit(s)
  <2>1. /\ UNCHANGED <<pc, srv, cred, secretOf, qclosed, told, broken>>
        /\ UNCHANGED <<clients, connections, mserver, op>>
    BY <1>10 DEF ShutdownAsk, TunnelExit
  <2> QED
    BY <2>1, TellFrame
<1>11. ASSUME NEW kind \in {"shutdown", "tunnel"}, NEW state, ClearLocked(kind, state), OpFree,
              UNCHANGED <<secretOf, broken>>
       PROVE  TellInv'
  <2>1. /\ op'.kind = kind /\ op'.step = "viewers" /\ op'.srv = mserver /\ op'.tell = clients
        /\ clients' = {} /\ op.step = "idle"
        /\ UNCHANGED <<pc, srv, cred, secretOf, qclosed, told, broken, connections>>
    BY <1>11 DEF ClearLocked, ClientsToTell, Detach, OpFree
  <2>2. UntoldReached'
    BY <1>0, <2>1 DEF UntoldReached, CredentialCurrent
  <2>3. CutIsStale' /\ ListedBegun'
    BY <1>0, <2>1 DEF CutIsStale, ListedBegun
  <2> QED
    BY <2>2, <2>3 DEF TellInv
<1>12. CASE ShutdownClear
  BY <1>11, <1>12 DEF ShutdownClear
<1>13. ASSUME NEW s \in Servers, WatchTunnel(s)
       PROVE  TellInv'
  <2>1. OpFree /\ UNCHANGED <<secretOf, broken>>
    BY <1>13 DEF WatchTunnel
  <2>2. CASE op' = op /\ UNCHANGED <<mgrVars, setVars, connVars>>
    BY <1>13, <2>1, <2>2, TellFrame DEF WatchTunnel
  <2> QED
    BY <1>11, <1>13, <2>1, <2>2, OpAfter
<1>14. CASE OpViewersDone \/ OpTellDone \/ \E failed \in BOOLEAN : OpFactory(failed)
  <2>1. /\ op'.kind = op.kind /\ op'.srv = op.srv /\ op'.tell = op.tell
        /\ OpViewersDone => op'.step = "factory"
        /\ OpTellDone => op'.step = "close" /\ op.tell = {}
        /\ (\E failed \in BOOLEAN : OpFactory(failed)) =>
                op'.step = IF op.kind = "rotate" THEN "warn" ELSE "clients"
    BY <1>14, OpAfter DEF NextOp, OpTellDone
  <2>2. /\ UNCHANGED <<pc, srv, cred, secretOf, qclosed, told, broken>>
        /\ UNCHANGED <<clients, connections, mserver>>
    BY <1>14 DEF OpViewersDone, OpTellDone, OpFactory
  <2> QED
    BY <1>14, <2>1, <2>2, TellFrame
<1> QED
  BY <1>2, <1>3, <1>4, <1>5, <1>6, <1>7, <1>8, <1>9, <1>10, <1>12, <1>13, <1>14
      DEF ManagerStep

\* No open terminal is out of reach in any reachable state.
LEMMA TellAlways == Spec => []TellInv
<1>1. TypeOK /\ CredentialInv /\ GateInv /\ TellInv /\ [Next]_vars => TellInv'
  <2> SUFFICES ASSUME TypeOK, CredentialInv, GateInv, TellInv, [Next]_vars PROVE TellInv'
    OBVIOUS
  <2>1. CASE UNCHANGED vars
    BY <2>1, TellFrame DEF vars, mgrVars, setVars, srvVars, connVars, opVars, hist
  <2> QED
    BY <2>1, TellManager, TellClient DEF Next, Terminated
<1> QED
  BY <1>1, TellInit, TypeCorrect, CredentialAlways, GateAlways, PTL DEF Spec

(***************************************************************************)
(* A browser whose terminal is open, whose credential was not rotated away *)
(* and whose queue and socket held has the last frame queued before its    *)
(* server's context ends, whoever ends it and whatever is opened or        *)
(* rotated meanwhile, and however many other connections fail.             *)
(***************************************************************************)
THEOREM LastWordAlways == Spec => []LastWord
<1>1. TypeOK /\ CancelInv /\ TellInv => LastWord
  BY DEF CancelInv, TellInv, UntoldReached, OpenPhases, LastWord
<1> QED
  BY <1>1, TypeCorrect, CancelAlways, TellAlways, PTL

-----------------------------------------------------------------------------
\* At the beginning nothing is held and nothing was shut down.
LEMMA DrainInit == Init => DrainInv
  BY MirrorAssumption, IdleType
  DEF Init, DrainInv, HeldInv, ShutInv, GoneInv, Servers, HandlersGone

\* A handler takes and gives back what it holds in the order HeldInv says, never comes
\* back once it is through, and adds to the Manager's maps only while the mirror serves.
LEMMA HandlerSteps ==
    ASSUME TypeOK, HeldInv, NEW c \in Clients, ClientStep(c)
    PROVE  /\ HeldInv'
           /\ \A d \in Clients : pc[d] = "done" => pc'[d] = "done"
           /\ clients' \subseteq clients \/ Serving
           /\ active' \subseteq active \/ Serving
           /\ opening' \subseteq opening \/ Serving
<1> DEFINE Kept == /\ HeldInv'
                   /\ \A d \in Clients : pc[d] = "done" => pc'[d] = "done"
                   /\ clients' \subseteq clients \/ Serving
                   /\ active' \subseteq active \/ Serving
                   /\ opening' \subseteq opening \/ Serving
<1> USE DEF mgrVars, setVars, srvVars, connVars, viewVars, opVars, hist, HeldInv
<1>0. /\ pc \in [Clients -> Phases] /\ hsHeld \subseteq Clients /\ slotHeld \subseteq Clients
      /\ connections \subseteq Clients
  BY DEF TypeOK, ConnType
<1>1. CASE RotateCut(c) \/ OpTell(c) \/ OpViewerClosed(c) \/ OpTerminate(c)
  BY <1>1 DEF RotateCut, OpTell, OpViewerClosed, OpTerminate
<1>2. ASSUME NEW s \in Servers, Accept(c, s)
      PROVE  Kept
  BY <1>0, <1>2 DEF Accept, Goto
<1>3. CASE Authenticate(c)
  BY <1>0, <1>3 DEF Authenticate, Goto
<1>4. CASE AuthenticateFails(c)
  BY <1>0, <1>4 DEF AuthenticateFails, Goto
<1>5. CASE Register(c)
  BY <1>0, <1>5 DEF Register, Goto
<1>6. CASE Connected(c) \/ Prepare(c) \/ PrepareFails(c) \/ Reserve(c)
  BY <1>0, <1>6 DEF Connected, Prepare, PrepareFails, Reserve, Goto
<1>7. ASSUME NEW failed \in BOOLEAN, Abandon(c, failed) \/ StartViewerFails(c, failed)
      PROVE  Kept
  BY <1>0, <1>7 DEF Abandon, StartViewerFails, Goto
<1>8. CASE StartViewer(c) \/ RemoveOpening(c) \/ BindViewer(c) \/ Activate(c)
  BY <1>0, <1>8 DEF StartViewer, RemoveOpening, BindViewer, Activate, Goto
<1>9. CASE Terminate(c) \/ ViewerEnds(c) \/ WatchViewer(c) \/ QueueFails(c)
  BY <1>9 DEF Terminate, ViewerEnds, WatchViewer, QueueFails
<1>10. CASE Discarded(c) \/ Closed(c) \/ Left(c)
  BY <1>0, <1>10 DEF Discarded, Closed, Left, Goto
<1>11. CASE Refuse(c) \/ RecvInput(c) \/ InputLookup(c) \/ InputWritten(c) \/ InputRejected(c)
  BY <1>0, <1>11 DEF Refuse, RecvInput, InputLookup, InputWritten, InputRejected,
                     DispatchError, Goto
<1>12. CASE RecvClose(c) \/ Acknowledge(c) \/ PeerLeaves(c)
  BY <1>0, <1>12 DEF RecvClose, Acknowledge, PeerLeaves, Goto
<1>13. CASE ManagerClose(c) \/ Disconnected(c)
  BY <1>0, <1>13 DEF ManagerClose, Disconnected, Goto
<1>14. CASE Exit(c)
  BY <1>0, <1>14 DEF Exit, Goto
<1>15. ASSUME NEW failed \in BOOLEAN, NEW error \in BOOLEAN, ViewerFinish(c, failed, error)
       PROVE  Kept
  BY <1>15 DEF ViewerFinish
<1> HIDE DEF HeldInv
<1> QED
  BY <1>1, <1>2, <1>3, <1>4, <1>5, <1>6, <1>7, <1>8, <1>9, <1>10, <1>11, <1>12, <1>13,
       <1>14, <1>15
      DEF ClientStep

\* The steps of connections keep the invariant: a request reaches only a server that is
\* current or in the hands of an operation.
LEMMA DrainClient ==
    ASSUME TypeOK, CredentialInv, DrainInv, NEW c \in Clients, ClientStep(c)
    PROVE  DrainInv'
<1>0. /\ pc \in [Clients -> Phases] /\ srv \in [Clients -> 0..MaxStarts]
  BY DEF TypeOK, ConnType
<1>1. QuietStep(c)
  BY ClientQuiet
<1>2. /\ HeldInv'
      /\ \A d \in Clients : pc[d] = "done" => pc'[d] = "done"
      /\ clients' \subseteq clients \/ Serving
      /\ active' \subseteq active \/ Serving
      /\ opening' \subseteq opening \/ Serving
  BY HandlerSteps DEF DrainInv
<1>3. /\ UNCHANGED <<mstate, mserver, shutdown, starts, result, overdue>>
      /\ op'.kind = op.kind /\ op'.step = op.step /\ op'.srv = op.srv
  BY <1>1 DEF QuietStep, srvVars, hist
<1>4. ShutInv'
  <2>1. shutdown => ~Serving
    BY DEF Serving
  <2> QED
    BY <1>2, <1>3, <2>1 DEF DrainInv, ShutInv
<1>5. GoneInv'
  <2> SUFFICES ASSUME NEW s \in Servers, s <= starts, s \notin overdue, s # mserver, s # op.srv,
                      NEW d \in Clients, srv'[d] = s, pc'[d] # "idle"
               PROVE  pc'[d] = "done"
    BY <1>3 DEF GoneInv, HandlersGone
  <2>1. HandlersGone(s)
    BY DEF DrainInv, GoneInv
  <2>2. s \in cancelled
    BY DEF CredentialInv, ServerInv
  <2>3. ASSUME NEW t \in Servers, Accept(c, t), d = c
        PROVE  FALSE
    BY <1>0, <2>2, <2>3 DEF Accept
  <2>4. pc[d] # "idle" /\ srv[d] = s
    <3>1. ASSUME NEW t \in Servers, Accept(c, t), d # c
          PROVE  pc[d] # "idle" /\ srv[d] = s
      BY <1>0, <3>1 DEF Accept, Goto
    <3> QED
      BY <1>1, <2>3, <3>1 DEF QuietStep
  <2> QED
    BY <1>2, <2>1, <2>4 DEF HandlersGone
<1> QED
  BY <1>2, <1>4, <1>5 DEF DrainInv

\* Steps of an operation that keeps its server and neither begins nor ends.
LEMMA DrainFrame ==
    ASSUME DrainInv, UNCHANGED <<pc, srv, hsHeld, slotHeld, connections>>,
           UNCHANGED <<shutdown, starts, overdue, result, mserver>>,
           clients' \subseteq clients, active' \subseteq active, opening' \subseteq opening,
           mstate' = mstate, op'.kind = op.kind, op'.srv = op.srv,
           op.step = "idle" => op'.step = "idle"
    PROVE  DrainInv'
<1>1. HeldInv'
  BY DEF DrainInv, HeldInv
<1>2. ShutInv'
  BY DEF DrainInv, ShutInv
<1>3. GoneInv'
  BY DEF DrainInv, GoneInv, HandlersGone
<1> QED
  BY <1>1, <1>2, <1>3 DEF DrainInv

\* No operation on the Manager forgets a server whose handlers it neither waited for nor
\* gave up on.
LEMMA DrainManager ==
    ASSUME TypeOK, CredentialInv, DrainInv, ManagerStep
    PROVE  DrainInv'
<1> USE DEF mgrVars, setVars, srvVars, connVars, viewVars, opVars, hist
<1>0. /\ OpInv /\ HeldInv /\ ShutInv /\ GoneInv
      /\ starts \in Nat /\ op.srv \in Nat /\ mserver \in Nat /\ op.kind \in OpKinds
  BY MirrorAssumption
  DEF CredentialInv, DrainInv, TypeOK, SrvType, MgrType, OpType, Operations
<1>1. CASE StartBegin
  <2>1. /\ ~shutdown /\ op.step = "idle" /\ op'.kind = "start" /\ op'.srv = 0
        /\ UNCHANGED <<pc, srv, hsHeld, slotHeld, connections>>
        /\ UNCHANGED <<shutdown, starts, overdue, result, mserver>>
    BY <1>1, OpAfter DEF NextOp, StartBegin, OpFree
  <2>2. HeldInv' /\ ShutInv'
    BY <1>0, <2>1 DEF HeldInv, ShutInv
  <2>3. GoneInv'
    BY <1>0, <2>1 DEF GoneInv, OpInv, HandlersGone
  <2> QED
    BY <2>2, <2>3 DEF DrainInv
<1>2. CASE StartServer
  <2>1. /\ op.step = "server" /\ op.kind = "start" /\ op'.kind = "start"
        /\ op'.srv = starts + 1 /\ starts' = starts + 1
        /\ UNCHANGED <<pc, srv, hsHeld, slotHeld, connections>>
        /\ UNCHANGED <<clients, active, opening>>
        /\ UNCHANGED <<shutdown, overdue, result, mserver, mstate>>
    BY <1>2, OpAfter DEF NextOp, StartServer, TypeOK, OpType
  <2>2. HeldInv' /\ ShutInv'
    BY <1>0, <2>1 DEF HeldInv, ShutInv
  <2>3. op.srv = 0
    BY <1>0, <2>1 DEF OpInv
  <2>4. GoneInv'
    BY <1>0, <2>1, <2>3 DEF GoneInv, HandlersGone, Servers
  <2> QED
    BY <2>2, <2>4 DEF DrainInv
<1>3. CASE StartServerFails \/ StartCommit
  <2>1. /\ op.kind = "start" /\ op'.kind = "none" /\ op'.srv = 0 /\ op'.step = "idle"
        /\ mserver' = op.srv \/ (op.srv = 0 /\ mserver' = mserver)
        /\ UNCHANGED <<pc, srv, hsHeld, slotHeld, connections>>
        /\ UNCHANGED <<shutdown, starts, overdue, result>>
    BY <1>0, <1>3, OpAfter
    DEF NextOp, StartServerFails, FailStart, StartCommit, TypeOK, OpType, OpInv
  <2>2. HeldInv' /\ ShutInv'
    BY <1>0, <2>1 DEF HeldInv, ShutInv
  <2>3. mserver = 0
    BY <1>0, <2>1 DEF OpInv
  <2>4. GoneInv'
    BY <1>0, <2>1, <2>3 DEF GoneInv, HandlersGone, Servers
  <2> QED
    BY <2>2, <2>4 DEF DrainInv
<1>4. CASE StartTunnel \/ StartTunnelFails \/ StartCanceled \/ StartClosePartial
           \/ RotateSetSecret \/ RotateCutDone \/ OpViewersDone \/ OpTellDone \/ OpClose
           \/ \E failed \in BOOLEAN : OpFactory(failed)
  <2>1. op'.kind = op.kind /\ op'.srv = op.srv
    BY <1>4, OpAfter DEF NextOp
  <2>2. /\ op.step # "idle"
        /\ UNCHANGED <<pc, srv, hsHeld, slotHeld, connections>>
        /\ UNCHANGED <<shutdown, starts, overdue, result, mserver>>
        /\ UNCHANGED <<clients, active, opening, mstate>>
    BY <1>4
        DEF StartTunnel, StartTunnelFails, StartCanceled, StartClosePartial,
            RotateSetSecret, RotateCutDone, OpViewersDone, OpTellDone, OpClose,
            OpFactory
  <2> QED
    BY <2>1, <2>2, DrainFrame
<1>5. CASE RotateBegin
  <2>1. /\ mstate = "Ready" /\ op.step = "idle" /\ op'.kind = "rotate" /\ op'.srv = mserver
        /\ UNCHANGED <<pc, srv, hsHeld, slotHeld, connections>>
        /\ UNCHANGED <<shutdown, starts, overdue, result, mserver, mstate>>
    BY <1>5, OpAfter DEF NextOp, RotateBegin, OpFree
  <2>2. HeldInv' /\ ShutInv'
    BY <1>0, <2>1 DEF HeldInv, ShutInv
  <2>3. op.srv = 0
    BY <1>0, <2>1 DEF OpInv
  <2>4. GoneInv'
    BY <1>0, <2>1, <2>3 DEF GoneInv, HandlersGone, Servers
  <2> QED
    BY <2>2, <2>4 DEF DrainInv
<1>6. CASE RotateDetach
  <2>1. /\ op'.kind = op.kind /\ op'.srv = op.srv /\ op.step # "idle"
        /\ clients' = {} /\ active' = {} /\ opening' = {}
        /\ UNCHANGED <<pc, srv, hsHeld, slotHeld, connections>>
        /\ UNCHANGED <<shutdown, starts, overdue, result, mserver, mstate>>
    BY <1>6, OpAfter DEF NextOp, RotateDetach, Detach
  <2> QED
    BY <2>1, DrainFrame
<1>7. CASE RotateEnd
  <2>1. /\ op.kind = "rotate" /\ op'.kind = "none" /\ op'.srv = 0 /\ op'.step = "idle"
        /\ UNCHANGED <<pc, srv, hsHeld, slotHeld, connections>>
        /\ UNCHANGED <<clients, active, opening>>
        /\ UNCHANGED <<shutdown, starts, overdue, result, mserver, mstate>>
    BY <1>7, OpAfter DEF NextOp, RotateEnd, TypeOK, OpType
  <2>2. HeldInv' /\ ShutInv'
    BY <1>0, <2>1 DEF HeldInv, ShutInv
  <2>3. op.srv = mserver
    BY <1>0, <2>1 DEF OpInv
  <2>4. GoneInv'
    BY <1>0, <2>1, <2>3 DEF GoneInv, HandlersGone, Servers
  <2> QED
    BY <2>2, <2>4 DEF DrainInv
<1>8. CASE ShutdownAsk \/ \E s \in Servers : TunnelExit(s)
  <2>1. /\ UNCHANGED <<pc, srv, hsHeld, slotHeld, connections, op>>
        /\ UNCHANGED <<clients, active, opening>>
        /\ UNCHANGED <<shutdown, starts, overdue, result, mserver, mstate>>
    BY <1>8 DEF ShutdownAsk, TunnelExit
  <2> QED
    BY <2>1, DrainFrame
<1>9. ASSUME NEW kind \in {"shutdown", "tunnel"}, NEW state \in {"Stopped", "Failed"},
             ClearLocked(kind, state), OpFree, ~shutdown, shutdown' = (kind = "shutdown"),
             UNCHANGED <<starts, overdue, result>>
      PROVE  DrainInv'
  <2>1. /\ op'.kind = kind /\ op'.srv = mserver /\ mserver' = 0 /\ mstate' = state
        /\ clients' = {} /\ active' = {} /\ opening' = {} /\ op.step = "idle"
        /\ UNCHANGED <<pc, srv, hsHeld, slotHeld, connections>>
    BY <1>9 DEF ClearLocked, Detach, OpFree
  <2>2. HeldInv'
    BY <1>0, <2>1 DEF HeldInv
  <2>3. ShutInv'
    BY <1>0, <1>9, <2>1 DEF ShutInv
  <2>4. op.srv = 0
    BY <1>0, <2>1 DEF OpInv
  <2>5. GoneInv'
    BY <1>0, <1>9, <2>1, <2>4 DEF GoneInv, HandlersGone, Servers
  <2> QED
    BY <2>2, <2>3, <2>5 DEF DrainInv
<1>10. CASE ShutdownClear
  BY <1>9, <1>10 DEF ShutdownClear
<1>11. ASSUME NEW s \in Servers, WatchTunnel(s)
       PROVE  DrainInv'
  <2>1. OpFree /\ UNCHANGED <<starts, overdue, result>>
    BY <1>11 DEF WatchTunnel
  <2>2. CASE op' = op /\ UNCHANGED <<mgrVars, setVars, connVars>>
    BY <2>1, <2>2, DrainFrame
  <2>3. CASE ClearLocked("tunnel", "Failed") /\ ~shutdown /\ UNCHANGED shutdown
    <3>1. shutdown' = ("tunnel" = "shutdown")
      BY <2>3 DEF TypeOK, FlagType
    <3> QED
      BY <1>9, <2>1, <2>3, <3>1
  <2> QED
    BY <1>11, <2>2, <2>3, OpAfter
<1>12. ASSUME NEW timedOut \in BOOLEAN, OpDrained(timedOut)
       PROVE  DrainInv'
  <2>1. /\ op.step = "drain" /\ op'.kind = "none" /\ op'.srv = 0 /\ op'.step = "idle"
        /\ overdue' = IF timedOut THEN overdue \cup {op.srv} ELSE overdue
        /\ timedOut \/ HandlersGone(op.srv) \/ op.srv = 0
        /\ result' # result => op.kind = "shutdown"
        /\ op.kind # "start" => mstate' = mstate
        /\ UNCHANGED <<pc, srv, hsHeld, slotHeld, connections>>
        /\ UNCHANGED <<clients, active, opening, shutdown, starts, mserver>>
    BY <1>12, OpAfter DEF NextOp, OpDrained, FailStart
  <2>2. HeldInv'
    BY <1>0, <2>1 DEF HeldInv
  <2>3. ShutInv'
    BY <1>0, <2>1 DEF ShutInv
  <2>4. GoneInv'
    <3> SUFFICES ASSUME NEW s \in Servers, s <= starts, s \notin overdue', s # mserver, s # 0
                 PROVE  HandlersGone(s)'
      BY <2>1 DEF GoneInv, Servers
    <3>1. HandlersGone(s)
      <4>1. s \notin overdue /\ (timedOut => s # op.srv)
        BY <2>1
      <4> QED
        BY <1>0, <2>1, <4>1 DEF GoneInv
    <3> QED
      BY <2>1, <3>1 DEF HandlersGone
  <2> QED
    BY <2>2, <2>3, <2>4 DEF DrainInv
<1> QED
  BY <1>1, <1>2, <1>3, <1>4, <1>5, <1>6, <1>7, <1>8, <1>10, <1>11, <1>12 DEF ManagerStep

\* The invariant of the end holds in every reachable state.
LEMMA DrainAlways == Spec => []DrainInv
<1>1. TypeOK /\ CredentialInv /\ DrainInv /\ [Next]_vars => DrainInv'
  <2> SUFFICES ASSUME TypeOK, CredentialInv, DrainInv, [Next]_vars PROVE DrainInv'
    OBVIOUS
  <2>1. CASE UNCHANGED vars
    BY <2>1, DrainFrame DEF vars, mgrVars, setVars, srvVars, connVars, opVars, hist
  <2> QED
    BY <2>1, DrainManager, DrainClient DEF Next, Terminated
<1> QED
  BY <1>1, DrainInit, TypeCorrect, CredentialAlways, PTL DEF Spec

(***************************************************************************)
(* When Shutdown returns nil no handler runs, nothing is held, nothing is  *)
(* registered and no viewer holds a pin, whatever was starting, rotating   *)
(* or connecting when it was called, except for handlers that an earlier   *)
(* cleanup had given up waiting for.                                       *)
(***************************************************************************)
THEOREM ShutdownIsClean == Spec => []CleanShutdown
<1>1. TypeOK /\ CredentialInv /\ OwnedInv /\ DrainInv => CleanShutdown
  <2> SUFFICES ASSUME TypeOK, CredentialInv, OwnedInv, DrainInv, result = "ok"
               PROVE  /\ \A c \in Clients : srv[c] \notin overdue =>
                          /\ pc[c] \in {"idle", "done"} /\ ~HoldsPin(c)
                          /\ c \notin connections \cup hsHeld \cup slotHeld
                      /\ clients = {} /\ active = {} /\ opening = {}
    BY DEF CleanShutdown
  <2>1. /\ clients = {} /\ active = {} /\ opening = {}
        /\ mstate # "Ready" /\ op.step = "idle"
    BY DEF DrainInv, ShutInv
  <2>2. mserver = 0 /\ op.srv = 0
    BY <2>1 DEF CredentialInv, OpInv
  <2>3. ASSUME NEW c \in Clients, srv[c] \notin overdue
        PROVE  pc[c] \in {"idle", "done"}
    <3>1. CASE pc[c] # "idle"
      <4>1. srv[c] \in Servers /\ srv[c] <= starts /\ srv[c] # 0
        BY <3>1 DEF CredentialInv, ConnInv, Servers
      <4> QED
        BY <2>2, <2>3, <4>1 DEF DrainInv, GoneInv, HandlersGone
    <3> QED
      BY <3>1
  <2>4. ASSUME NEW c \in Clients, pc[c] \in {"idle", "done"}
        PROVE  ~HoldsPin(c) /\ c \notin connections \cup hsHeld \cup slotHeld
    BY <2>1, <2>4 DEF OwnedInv, OwnPhases, DrainInv, HeldInv
  <2> QED
    BY <2>1, <2>3, <2>4
<1> QED
  BY <1>1, TypeCorrect, CredentialAlways, OwnedAlways, DrainAlways, PTL
=============================================================================
