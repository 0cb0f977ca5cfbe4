---------------------------- MODULE MirrorProofs ----------------------------
(***************************************************************************)
(* Proofs about Mirror for any set of connections and any bounds.          *)
(***************************************************************************)
EXTENDS Mirror, TLAPS

(***************************************************************************)
(* The strengthening of NoRevokedSession.                                  *)
(***************************************************************************)
\* Which operation is under way says what the Manager's own fields hold.
OpInv ==
    /\ mserver # 0 <=> mstate = "Ready"
    /\ mserver <= starts /\ op.srv <= starts
    /\ op.kind \in {"start", "shutdown", "tunnel"} => mstate # "Ready"
    /\ op.kind = "rotate" => mserver = op.srv /\ mserver # 0
    /\ op.kind = "none" <=> op.step = "idle"
    /\ op.step \in {"clients", "close", "drain"} => op.kind # "rotate"
    /\ op.step \in {"viewers", "factory"} => op.kind \in {"rotate", "shutdown", "tunnel"}
    /\ op.step \in {"idle", "server"} => op.srv = 0

\* A server other than the Manager's current one is closed, or the operation
\* under way is the one that opens or closes it.  The link that is shown carries
\* the secret of the server, except while Rotate holds m.mu.
ServerInv ==
    /\ \A s \in Servers : s <= starts /\ s \notin cancelled /\ s # mserver => s = op.srv
    /\ op.step = "drain" /\ op.srv # 0 => op.srv \in cancelled
    /\ mstate = "Ready" => msecret # 0
    /\ mstate = "Ready" /\ MuFree => msecret = secretOf[mserver]
    /\ op.step \in {"cut", "detach"} => op.secret = secretOf[mserver]
    /\ op.step \in {"tunnel", "commit", "partial"} => op.secret = secretOf[op.srv]

\* A connection past the version check holds the server's credential, or is
\* closed, or is about to be closed by SetSecret.
ConnInv ==
    \A c \in Clients :
        /\ pc[c] # "idle" => srv[c] \in Servers /\ srv[c] <= starts
        /\ pc[c] \in {"registered", "prepare", "reserve"} =>
            /\ c \in connections
            /\ \/ c \in qclosed
               \/ cred[c] = secretOf[srv[c]]
               \/ op.step = "cut" /\ c \in op.tell

\* The maps are empty unless the mirror is ready, and hold the current
\* credential's connections only while m.mu is free.
SessionInv ==
    /\ active \cup opening # {} => mstate = "Ready"
    /\ \A c \in active \cup opening : pc[c] # "idle"
    /\ MuFree => \A c \in active \cup opening : cred[c] = msecret /\ srv[c] = mserver

\* The inductive invariant behind NoRevokedSession.
CredentialInv == OpInv /\ ServerInv /\ ConnInv /\ SessionInv

-----------------------------------------------------------------------------
\* No operation is an operation.
LEMMA IdleType ==
    /\ Idle \in Operations
    /\ Idle.kind = "none" /\ Idle.step = "idle" /\ Idle.srv = 0
<1>1. Idle.kind = "none" /\ Idle.step = "idle" /\ Idle.srv = 0
  BY DEF Idle
<1>2. 0 \in 0..MaxSecrets /\ 0 \in 0..MaxStarts
  BY MirrorAssumption
<1>3. Idle \in Operations
  BY <1>2, Zenon DEF Idle, Operations, OpKinds, OpSteps
<1> QED
  BY <1>1, <1>3

\* Each part of the type invariant survives a step that leaves its variables alone.
LEMMA Frame ==
    /\ MgrType /\ UNCHANGED <<mstate, msecret, mserver, startup>> => MgrType'
    /\ FlagType /\ UNCHANGED <<shutdown, asked, warning, unrestored>> => FlagType'
    /\ SetType /\ UNCHANGED setVars => SetType'
    /\ SrvType /\ UNCHANGED srvVars => SrvType'
    /\ ConnType /\ UNCHANGED connVars => ConnType'
    /\ ViewType /\ UNCHANGED <<viewer, verr, watch>> => ViewType'
    /\ OpType /\ UNCHANGED <<op, starts>> => OpType'
    /\ HistType /\ UNCHANGED hist => HistType'
<1>1. MgrType /\ UNCHANGED <<mstate, msecret, mserver, startup>> => MgrType'
  BY DEF MgrType
<1>2. FlagType /\ UNCHANGED <<shutdown, asked, warning, unrestored>> => FlagType'
  BY DEF FlagType
<1>3. SetType /\ UNCHANGED setVars => SetType'
  BY DEF SetType, setVars
<1>4. SrvType /\ UNCHANGED srvVars => SrvType'
  BY DEF SrvType, srvVars
<1>5. ConnType /\ UNCHANGED connVars => ConnType'
  BY DEF ConnType, connVars
<1>6. ViewType /\ UNCHANGED <<viewer, verr, watch>> => ViewType'
  BY DEF ViewType
<1>7. OpType /\ UNCHANGED <<op, starts>> => OpType'
  BY DEF OpType
<1>8. HistType /\ UNCHANGED hist => HistType'
  BY DEF HistType, hist
<1> QED
  BY <1>1, <1>2, <1>3, <1>4, <1>5, <1>6, <1>7, <1>8

\* clearLocked leaves a well-typed operation behind.
LEMMA ClearedOp ==
    ASSUME TypeOK, NEW kind \in {"shutdown", "tunnel"}, NEW state, ClearLocked(kind, state),
           starts' = starts
    PROVE  OpType'
<1>1. op' = [kind |-> kind, step |-> "viewers", secret |-> msecret,
             srv |-> mserver, pend |-> Attached, at |-> {},
             tell |-> ClientsToTell, err |-> FALSE]
  BY DEF ClearLocked
<1>2. Attached \in SUBSET Clients /\ ClientsToTell \in SUBSET Clients
  BY DEF TypeOK, SetType, Attached, ClientsToTell
<1>3. msecret \in 0..MaxSecrets /\ mserver \in 0..MaxStarts
  BY DEF TypeOK, MgrType
<1>4. op' \in Operations
  BY <1>1, <1>2, <1>3, Zenon DEF Operations, OpKinds, OpSteps
<1>5. op'.step = "viewers" /\ op'.kind = kind
  BY <1>1
<1> QED
  BY <1>4, <1>5 DEF OpType

\* The mirror begins well typed.
LEMMA TypeInit == Init => TypeOK
<1> SUFFICES ASSUME Init PROVE TypeOK
  OBVIOUS
<1> USE MirrorAssumption DEF Init, Servers
<1>1. mstate = "Stopped" /\ msecret = 0 /\ mserver = 0 /\ startup = "none"
  OBVIOUS
<1>2. issued = 0 /\ starts = 0 /\ retired = 0
  OBVIOUS
<1> HIDE DEF Init
<1>3. MgrType
  BY <1>1 DEF MgrType
<1>4. FlagType
  BY DEF Init, FlagType
<1>5. SetType
  BY DEF Init, SetType
<1>6. SrvType
  BY <1>2 DEF Init, SrvType
<1>7. ConnType
  BY DEF Init, ConnType, Phases
<1>8. ViewType
  BY DEF Init, ViewType
<1>9. OpType
  BY IdleType DEF Init, OpType
<1>10. HistType
  BY DEF Init, HistType
<1> QED
  BY <1>3, <1>4, <1>5, <1>6, <1>7, <1>8, <1>9, <1>10 DEF TypeOK

\* Every action keeps the state well typed.
LEMMA TypeStep == TypeOK /\ [Next]_vars => TypeOK'
<1> SUFFICES ASSUME TypeOK, [Next]_vars PROVE TypeOK'
  OBVIOUS
<1> USE MirrorAssumption
      DEF TypeOK, vars, mgrVars, setVars, srvVars, connVars, viewVars, opVars, hist
<1>1. ASSUME StartBegin
     PROVE  TypeOK'
  <2>1. MgrType'
    BY <1>1 DEF StartBegin, MgrType, SrvType, Servers
  <2>2. SrvType'
    <3>1. /\ issued' \in 0..MaxSecrets
          /\ UNCHANGED <<starts, secretOf, public, tunnels, tunnelDone, cancelled>>
      BY <1>1 DEF StartBegin, SrvType
    <3> QED
      BY <3>1 DEF SrvType, Servers
  <2>3. OpType'
    <3>1. /\ op' = [Idle EXCEPT !.kind = "start", !.step = "server", !.secret = issued + 1]
          /\ starts < MaxStarts /\ starts' = starts
      BY <1>1 DEF StartBegin
    <3>2. issued + 1 \in 0..MaxSecrets /\ issued + 1 # 0
      BY <1>1 DEF StartBegin, SrvType
    <3> QED
      BY <3>1, <3>2, IdleType DEF OpType, Operations, OpKinds, OpSteps
  <2> QED
    BY <1>1, <2>1, <2>2, <2>3, Frame DEF StartBegin
<1>2. ASSUME StartServer
     PROVE  TypeOK'
  <2>1. SrvType'
    <3>1. /\ starts' = starts + 1 /\ starts < MaxStarts /\ op.secret \in 0..MaxSecrets
      BY <1>2 DEF StartServer, OpType, Operations
    <3>2. starts' \in 0..MaxStarts /\ starts + 1 \in Servers
      BY <3>1 DEF SrvType, Servers
    <3>3. secretOf' \in [Servers -> 0..MaxSecrets]
      BY <1>2, <3>1, <3>2 DEF StartServer, SrvType
    <3>4. /\ cancelled' \subseteq Servers
          /\ UNCHANGED <<issued, public, tunnels, tunnelDone>>
      BY <1>2, <3>2 DEF StartServer, SrvType
    <3> QED
      BY <3>2, <3>3, <3>4 DEF SrvType
  <2>2. OpType'
    <3>1. /\ op' = [op EXCEPT !.step = "tunnel", !.srv = starts + 1]
          /\ op.step = "server" /\ starts' = starts + 1
      BY <1>2 DEF StartServer
    <3>2. starts < MaxStarts /\ starts \in Nat /\ op.kind = "start" /\ op.secret # 0
      BY <3>1 DEF OpType, SrvType
    <3>3. starts + 1 \in 0..MaxStarts /\ starts + 1 # 0
      BY <3>2
    <3> QED
      BY <3>1, <3>2, <3>3 DEF OpType, Operations, OpSteps
  <2> QED
    BY <1>2, <2>1, <2>2, Frame DEF StartServer
<1>3. ASSUME StartServerFails
     PROVE  TypeOK'
  <2>1. MgrType'
    BY <1>3 DEF StartServerFails, FailStart, MgrType, SrvType, Servers
  <2>2. OpType'
    BY <1>3, IdleType
        DEF StartServerFails, FailStart, OpType, MgrType, SrvType, SetType, Operations,
            OpKinds, OpSteps, Servers
  <2> QED
    BY <1>3, <2>1, <2>2, Frame DEF StartServerFails, FailStart
<1>4. ASSUME StartTunnel
     PROVE  TypeOK'
  <2>1. SrvType'
    BY <1>4 DEF StartTunnel, SrvType, MgrType, OpType, Servers, Operations
  <2>2. OpType'
    BY <1>4
        DEF StartTunnel, OpType, MgrType, SrvType, SetType, Operations, OpKinds,
            OpSteps, Servers
  <2> QED
    BY <1>4, <2>1, <2>2, Frame DEF StartTunnel
<1>5. ASSUME StartTunnelFails
     PROVE  TypeOK'
  <2>1. OpType'
    BY <1>5
        DEF StartTunnelFails, OpType, MgrType, SrvType, SetType, Operations, OpKinds,
            OpSteps, Servers
  <2> QED
    BY <1>5, <2>1, Frame DEF StartTunnelFails
<1>6. ASSUME StartCanceled
     PROVE  TypeOK'
  <2>1. MgrType'
    BY <1>6 DEF StartCanceled, MgrType, SrvType, Servers
  <2>2. SrvType'
    BY <1>6 DEF StartCanceled, SrvType, MgrType, Servers
  <2>3. OpType'
    BY <1>6
        DEF StartCanceled, OpType, MgrType, SrvType, SetType, Operations, OpKinds,
            OpSteps, Servers
  <2> QED
    BY <1>6, <2>1, <2>2, <2>3, Frame DEF StartCanceled
<1>7. ASSUME StartCommit
     PROVE  TypeOK'
  <2>1. MgrType'
    BY <1>7
        DEF StartCommit, StartupCanceled, MgrType, SrvType, OpType, Servers, Operations
  <2>2. OpType'
    BY <1>7, IdleType
        DEF StartCommit, StartupCanceled, OpType, MgrType, SrvType, SetType, Operations,
            OpKinds, OpSteps, Servers
  <2> QED
    BY <1>7, <2>1, <2>2, Frame DEF StartCommit, StartupCanceled
<1>8. ASSUME StartClosePartial
     PROVE  TypeOK'
  <2>1. SrvType'
    BY <1>8 DEF StartClosePartial, SrvType, MgrType, OpType, Servers, Operations
  <2>2. OpType'
    BY <1>8
        DEF StartClosePartial, OpType, MgrType, SrvType, SetType, Operations, OpKinds,
            OpSteps, Servers
  <2> QED
    BY <1>8, <2>1, <2>2, Frame DEF StartClosePartial
<1>9. ASSUME RotateBegin
     PROVE  TypeOK'
  <2>1. SrvType'
    <3>1. /\ issued' \in 0..MaxSecrets
          /\ UNCHANGED <<starts, secretOf, public, tunnels, tunnelDone, cancelled>>
      BY <1>9 DEF RotateBegin, SrvType
    <3> QED
      BY <3>1 DEF SrvType, Servers
  <2>2. OpType'
    <3>1. /\ op' = [Idle EXCEPT !.kind = "rotate", !.step = "rotate",
                               !.secret = issued + 1, !.srv = mserver]
          /\ mserver # 0 /\ starts' = starts
      BY <1>9 DEF RotateBegin
    <3>2. issued + 1 \in 0..MaxSecrets /\ issued + 1 # 0 /\ mserver \in 0..MaxStarts
      BY <1>9 DEF RotateBegin, SrvType, MgrType
    <3> QED
      BY <3>1, <3>2, IdleType DEF OpType, Operations, OpKinds, OpSteps
  <2> QED
    BY <1>9, <2>1, <2>2, Frame DEF RotateBegin
<1>10. ASSUME RotateSetSecret
     PROVE  TypeOK'
  <2>1. SrvType'
    BY <1>10 DEF RotateSetSecret, SrvType, MgrType, OpType, Servers, Operations
  <2>2. OpType'
    BY <1>10
        DEF RotateSetSecret, OpType, MgrType, SrvType, SetType, Operations, OpKinds,
            OpSteps, Servers, ConnType
  <2> QED
    BY <1>10, <2>1, <2>2, Frame DEF RotateSetSecret
<1>11. ASSUME RotateCutDone
     PROVE  TypeOK'
  <2>1. OpType'
    BY <1>11
        DEF RotateCutDone, OpType, MgrType, SrvType, SetType, Operations, OpKinds,
            OpSteps, Servers
  <2> QED
    BY <1>11, <2>1, Frame DEF RotateCutDone
<1>12. ASSUME RotateDetach
     PROVE  TypeOK'
  <2>1. MgrType'
    BY <1>12
        DEF RotateDetach, Detach, Attached, MgrType, SrvType, OpType, Servers,
            Operations
  <2>2. SetType'
    BY <1>12 DEF RotateDetach, Detach, Attached, SetType
  <2>3. ConnType'
    BY <1>12 DEF RotateDetach, Detach, Attached, ConnType, Phases
  <2>4. OpType'
    BY <1>12
        DEF RotateDetach, Detach, Attached, OpType, MgrType, SrvType, SetType,
            Operations, OpKinds, OpSteps, Servers
  <2> QED
    BY <1>12, <2>1, <2>2, <2>3, <2>4, Frame DEF RotateDetach, Detach, Attached
<1>13. ASSUME RotateEnd
     PROVE  TypeOK'
  <2>1. FlagType'
    BY <1>13 DEF RotateEnd, FlagType, OpType, Operations
  <2>2. OpType'
    BY <1>13, IdleType
        DEF RotateEnd, OpType, MgrType, SrvType, SetType, Operations, OpKinds, OpSteps,
            Servers
  <2>3. HistType'
    BY <1>13
        DEF RotateEnd, HistType, MgrType, SrvType, OpType, Servers, Operations, OpKinds,
            OpSteps
  <2> QED
    BY <1>13, <2>1, <2>2, <2>3, Frame DEF RotateEnd
<1>14. ASSUME ShutdownAsk
     PROVE  TypeOK'
  <2>1. MgrType'
    BY <1>14 DEF ShutdownAsk, MgrType, SrvType, Servers
  <2>2. FlagType'
    BY <1>14 DEF ShutdownAsk, FlagType
  <2>3. SrvType'
    <3>1. /\ cancelled' \in {cancelled, cancelled \cup {op.srv}}
          /\ cancelled' # cancelled => op.srv # 0
          /\ UNCHANGED <<issued, starts, secretOf, public, tunnels, tunnelDone>>
      BY <1>14 DEF ShutdownAsk
    <3> QED
      BY <3>1 DEF SrvType, OpType, Operations, Servers
  <2> QED
    BY <1>14, <2>1, <2>2, <2>3, Frame DEF ShutdownAsk
<1>15. ASSUME ShutdownClear
     PROVE  TypeOK'
  <2>1. MgrType'
    BY <1>15
        DEF ShutdownClear, ClearLocked, Detach, Attached, ClientsToTell, MgrType,
            SrvType, Servers
  <2>2. FlagType'
    BY <1>15 DEF ShutdownClear, ClearLocked, Detach, Attached, ClientsToTell, FlagType
  <2>3. SetType'
    BY <1>15 DEF ShutdownClear, ClearLocked, Detach, Attached, ClientsToTell, SetType
  <2>4. ConnType'
    BY <1>15
        DEF ShutdownClear, ClearLocked, Detach, Attached, ClientsToTell, ConnType,
            Phases
  <2>5. OpType'
    BY <1>15, ClearedOp DEF ShutdownClear
  <2> QED
    BY <1>15, <2>1, <2>2, <2>3, <2>4, <2>5, Frame
        DEF ShutdownClear, ClearLocked, Detach, Attached, ClientsToTell
<1>16. ASSUME OpViewersDone
     PROVE  TypeOK'
  <2>1. OpType'
    BY <1>16
        DEF OpViewersDone, OpType, MgrType, SrvType, SetType, Operations, OpKinds,
            OpSteps, Servers
  <2> QED
    BY <1>16, <2>1, Frame DEF OpViewersDone
<1>17. ASSUME OpTellDone
     PROVE  TypeOK'
  <2>1. OpType'
    BY <1>17
        DEF OpTellDone, OpType, MgrType, SrvType, SetType, Operations, OpKinds, OpSteps,
            Servers
  <2> QED
    BY <1>17, <2>1, Frame DEF OpTellDone
<1>18. ASSUME OpClose
     PROVE  TypeOK'
  <2>1. SrvType'
    BY <1>18 DEF OpClose, SrvType, MgrType, OpType, Servers, Operations
  <2>2. OpType'
    BY <1>18
        DEF OpClose, OpType, MgrType, SrvType, SetType, Operations, OpKinds, OpSteps,
            Servers
  <2> QED
    BY <1>18, <2>1, <2>2, Frame DEF OpClose
<1>19. ASSUME NEW s \in Servers, TunnelExit(s)
     PROVE  TypeOK'
  <2>1. SrvType'
    BY <1>19 DEF TunnelExit, SrvType, MgrType, Servers
  <2> QED
    BY <1>19, <2>1, Frame DEF TunnelExit
<1>20. ASSUME NEW s \in Servers, WatchTunnel(s)
     PROVE  TypeOK'
  <2>1. MgrType'
    BY <1>20
        DEF WatchTunnel, ClearLocked, Detach, Attached, ClientsToTell, MgrType, SrvType,
            Servers
  <2>2. FlagType'
    BY <1>20 DEF WatchTunnel, ClearLocked, Detach, Attached, ClientsToTell, FlagType
  <2>3. SetType'
    BY <1>20 DEF WatchTunnel, ClearLocked, Detach, Attached, ClientsToTell, SetType
  <2>4. SrvType'
    BY <1>20
        DEF WatchTunnel, ClearLocked, Detach, Attached, ClientsToTell, SrvType, MgrType,
            Servers
  <2>5. ConnType'
    BY <1>20
        DEF WatchTunnel, ClearLocked, Detach, Attached, ClientsToTell, ConnType, Phases
  <2>6. OpType'
    <3>1. CASE UNCHANGED op
      BY <1>20, <3>1 DEF WatchTunnel, OpType
    <3>2. CASE ClearLocked("tunnel", "Failed")
      BY <1>20, <3>2, ClearedOp DEF WatchTunnel
    <3> QED
      BY <1>20, <3>1, <3>2 DEF WatchTunnel
  <2> QED
    BY <1>20, <2>1, <2>2, <2>3, <2>4, <2>5, <2>6, Frame
        DEF WatchTunnel, ClearLocked, Detach, Attached, ClientsToTell
<1>21. ASSUME NEW failed \in BOOLEAN, OpFactory(failed)
     PROVE  TypeOK'
  <2>1. FlagType'
    BY <1>21 DEF OpFactory, PinOutstanding, FlagType
  <2>2. OpType'
    BY <1>21
        DEF OpFactory, PinOutstanding, OpType, MgrType, SrvType, SetType, Operations,
            OpKinds, OpSteps, Servers
  <2> QED
    BY <1>21, <2>1, <2>2, Frame DEF OpFactory, PinOutstanding
<1>22. ASSUME NEW timedOut \in BOOLEAN, OpDrained(timedOut)
     PROVE  TypeOK'
  <2>1. MgrType'
    BY <1>22 DEF OpDrained, FailStart, MgrType, SrvType, Servers
  <2>2. OpType'
    <3>1. op' = Idle /\ starts' = starts
      BY <1>22 DEF OpDrained, FailStart
    <3> QED
      BY <3>1, IdleType DEF OpType
  <2>3. HistType'
    <3>1. overdue' \in {overdue, overdue \cup {op.srv}} /\ (overdue' # overdue => op.srv # 0)
      BY <1>22 DEF OpDrained
    <3>2. overdue' \subseteq Servers
      BY <3>1 DEF HistType, OpType, Operations, Servers
    <3>3. /\ retired' \in {retired, op.secret} /\ result' \in {result, "error", "ok"}
          /\ broken' = broken
      BY <1>22 DEF OpDrained, FailStart
    <3> QED
      BY <3>2, <3>3 DEF HistType, OpType, Operations
  <2> QED
    BY <1>22, <2>1, <2>2, <2>3, Frame DEF OpDrained, FailStart
<1>23. ASSUME NEW c \in Clients, RotateCut(c)
     PROVE  TypeOK'
  <2>1. ConnType'
    BY <1>23 DEF RotateCut, ConnType, Phases
  <2>2. OpType'
    BY <1>23
        DEF RotateCut, OpType, MgrType, SrvType, SetType, Operations, OpKinds, OpSteps,
            Servers
  <2> QED
    BY <1>23, <2>1, <2>2, Frame DEF RotateCut
<1>24. ASSUME NEW c \in Clients, OpTerminate(c)
     PROVE  TypeOK'
  <2>1. ViewType'
    BY <1>24 DEF OpTerminate, ViewType
  <2>2. OpType'
    BY <1>24
        DEF OpTerminate, OpType, MgrType, SrvType, SetType, Operations, OpKinds,
            OpSteps, Servers
  <2> QED
    BY <1>24, <2>1, <2>2, Frame DEF OpTerminate
<1>25. ASSUME NEW c \in Clients, OpViewerClosed(c)
     PROVE  TypeOK'
  <2>1. OpType'
    BY <1>25
        DEF OpViewerClosed, OpType, MgrType, SrvType, SetType, Operations, OpKinds,
            OpSteps, Servers
  <2> QED
    BY <1>25, <2>1, Frame DEF OpViewerClosed
<1>26. ASSUME NEW c \in Clients, OpTell(c)
     PROVE  TypeOK'
  <2>1. ConnType'
    BY <1>26 DEF OpTell, ConnType, Phases
  <2>2. OpType'
    BY <1>26
        DEF OpTell, OpType, MgrType, SrvType, SetType, Operations, OpKinds, OpSteps,
            Servers, ConnType
  <2> QED
    BY <1>26, <2>1, <2>2, Frame DEF OpTell
<1>27. ASSUME NEW c \in Clients, Authenticate(c)
     PROVE  TypeOK'
  <2>1. ConnType'
    BY <1>27 DEF Authenticate, Goto, ConnType, Phases
  <2> QED
    BY <1>27, <2>1, Frame DEF Authenticate, Goto
<1>28. ASSUME NEW c \in Clients, AuthenticateFails(c)
     PROVE  TypeOK'
  <2>1. ConnType'
    BY <1>28 DEF AuthenticateFails, Goto, ConnType, Phases
  <2> QED
    BY <1>28, <2>1, Frame DEF AuthenticateFails, Goto
<1>29. ASSUME NEW c \in Clients, Register(c)
     PROVE  TypeOK'
  <2>1. ConnType'
    BY <1>29 DEF Register, Goto, ConnType, Phases
  <2> QED
    BY <1>29, <2>1, Frame DEF Register, Goto
<1>30. ASSUME NEW c \in Clients, Connected(c)
     PROVE  TypeOK'
  <2>1. SetType'
    BY <1>30 DEF Connected, Goto, SetType
  <2>2. ConnType'
    BY <1>30 DEF Connected, Goto, ConnType, Phases
  <2> QED
    BY <1>30, <2>1, <2>2, Frame DEF Connected, Goto
<1>31. ASSUME NEW c \in Clients, Prepare(c)
     PROVE  TypeOK'
  <2>1. FlagType'
    BY <1>31 DEF Prepare, Goto, FlagType
  <2>2. ConnType'
    BY <1>31 DEF Prepare, Goto, ConnType, Phases
  <2>3. ViewType'
    BY <1>31 DEF Prepare, Goto, ViewType
  <2> QED
    BY <1>31, <2>1, <2>2, <2>3, Frame DEF Prepare, Goto
<1>32. ASSUME NEW c \in Clients, PrepareFails(c)
     PROVE  TypeOK'
  <2>1. ConnType'
    BY <1>32 DEF PrepareFails, Goto, ConnType, Phases
  <2> QED
    BY <1>32, <2>1, Frame DEF PrepareFails, Goto
<1>33. ASSUME NEW c \in Clients, Reserve(c)
     PROVE  TypeOK'
  <2>1. SetType'
    BY <1>33 DEF Reserve, Goto, SetType
  <2>2. ConnType'
    BY <1>33 DEF Reserve, Goto, ConnType, Phases
  <2> QED
    BY <1>33, <2>1, <2>2, Frame DEF Reserve, Goto
<1>34. ASSUME NEW c \in Clients, StartViewer(c)
     PROVE  TypeOK'
  <2>1. ConnType'
    BY <1>34 DEF StartViewer, Goto, ConnType, Phases
  <2>2. ViewType'
    BY <1>34 DEF StartViewer, Goto, ViewType
  <2> QED
    BY <1>34, <2>1, <2>2, Frame DEF StartViewer, Goto
<1>35. ASSUME NEW c \in Clients, RemoveOpening(c)
     PROVE  TypeOK'
  <2>1. SetType'
    BY <1>35 DEF RemoveOpening, Goto, SetType
  <2>2. ConnType'
    BY <1>35 DEF RemoveOpening, Goto, ConnType, Phases
  <2> QED
    BY <1>35, <2>1, <2>2, Frame DEF RemoveOpening, Goto
<1>36. ASSUME NEW c \in Clients, BindViewer(c)
     PROVE  TypeOK'
  <2>1. SetType'
    BY <1>36 DEF BindViewer, Goto, SetType
  <2>2. ConnType'
    BY <1>36 DEF BindViewer, Goto, ConnType, Phases
  <2> QED
    BY <1>36, <2>1, <2>2, Frame DEF BindViewer, Goto
<1>37. ASSUME NEW c \in Clients, Activate(c)
     PROVE  TypeOK'
  <2>1. SetType'
    BY <1>37 DEF Activate, Goto, SetType
  <2>2. ConnType'
    BY <1>37 DEF Activate, Goto, ConnType, Phases
  <2>3. ViewType'
    BY <1>37 DEF Activate, Goto, ViewType
  <2> QED
    BY <1>37, <2>1, <2>2, <2>3, Frame DEF Activate, Goto
<1>38. ASSUME NEW c \in Clients, Terminate(c)
     PROVE  TypeOK'
  <2>1. ViewType'
    BY <1>38 DEF Terminate, ViewType
  <2> QED
    BY <1>38, <2>1, Frame DEF Terminate
<1>39. ASSUME NEW c \in Clients, Discarded(c)
     PROVE  TypeOK'
  <2>1. ConnType'
    BY <1>39 DEF Discarded, Goto, ConnType, Phases
  <2> QED
    BY <1>39, <2>1, Frame DEF Discarded, Goto
<1>40. ASSUME NEW c \in Clients, Closed(c)
     PROVE  TypeOK'
  <2>1. FlagType'
    BY <1>40 DEF Closed, Goto, RecordFailure, FlagType
  <2>2. ConnType'
    BY <1>40 DEF Closed, Goto, RecordFailure, ConnType, Phases
  <2> QED
    BY <1>40, <2>1, <2>2, Frame DEF Closed, Goto, RecordFailure
<1>41. ASSUME NEW c \in Clients, Left(c)
     PROVE  TypeOK'
  <2>1. FlagType'
    BY <1>41 DEF Left, Goto, RecordFailure, FlagType
  <2>2. ConnType'
    BY <1>41 DEF Left, Goto, RecordFailure, ConnType, Phases
  <2> QED
    BY <1>41, <2>1, <2>2, Frame DEF Left, Goto, RecordFailure
<1>42. ASSUME NEW c \in Clients, Refuse(c)
     PROVE  TypeOK'
  <2>1. ConnType'
    BY <1>42 DEF Refuse, Goto, ConnType, Phases
  <2> QED
    BY <1>42, <2>1, Frame DEF Refuse, Goto
<1>43. ASSUME NEW c \in Clients, RecvInput(c)
     PROVE  TypeOK'
  <2>1. ConnType'
    BY <1>43 DEF RecvInput, Goto, ConnType, Phases
  <2> QED
    BY <1>43, <2>1, Frame DEF RecvInput, Goto
<1>44. ASSUME NEW c \in Clients, InputLookup(c)
     PROVE  TypeOK'
  <2>1. ConnType'
    BY <1>44 DEF InputLookup, Goto, DispatchError, ConnType, Phases
  <2> QED
    BY <1>44, <2>1, Frame DEF InputLookup, Goto, DispatchError
<1>45. ASSUME NEW c \in Clients, InputWritten(c)
     PROVE  TypeOK'
  <2>1. ConnType'
    BY <1>45 DEF InputWritten, Goto, ConnType, Phases
  <2> QED
    BY <1>45, <2>1, Frame DEF InputWritten, Goto
<1>46. ASSUME NEW c \in Clients, InputRejected(c)
     PROVE  TypeOK'
  <2>1. ConnType'
    BY <1>46 DEF InputRejected, Goto, DispatchError, ConnType, Phases
  <2> QED
    BY <1>46, <2>1, Frame DEF InputRejected, Goto, DispatchError
<1>47. ASSUME NEW c \in Clients, RecvClose(c)
     PROVE  TypeOK'
  <2>1. ConnType'
    BY <1>47 DEF RecvClose, Goto, ConnType, Phases
  <2> QED
    BY <1>47, <2>1, Frame DEF RecvClose, Goto
<1>48. ASSUME NEW c \in Clients, ManagerClose(c)
     PROVE  TypeOK'
  <2>1. SetType'
    BY <1>48 DEF ManagerClose, Goto, Attached, SetType
  <2>2. ConnType'
    BY <1>48 DEF ManagerClose, Goto, Attached, ConnType, Phases
  <2> QED
    BY <1>48, <2>1, <2>2, Frame DEF ManagerClose, Goto, Attached
<1>49. ASSUME NEW c \in Clients, Acknowledge(c)
     PROVE  TypeOK'
  <2>1. ConnType'
    BY <1>49 DEF Acknowledge, Goto, ConnType, Phases
  <2> QED
    BY <1>49, <2>1, Frame DEF Acknowledge, Goto
<1>50. ASSUME NEW c \in Clients, PeerLeaves(c)
     PROVE  TypeOK'
  <2>1. ConnType'
    BY <1>50 DEF PeerLeaves, Goto, ConnType, Phases
  <2> QED
    BY <1>50, <2>1, Frame DEF PeerLeaves, Goto
<1>51. ASSUME NEW c \in Clients, Disconnected(c)
     PROVE  TypeOK'
  <2>1. SetType'
    BY <1>51 DEF Disconnected, Goto, Attached, SetType
  <2>2. ConnType'
    BY <1>51 DEF Disconnected, Goto, Attached, ConnType, Phases
  <2> QED
    BY <1>51, <2>1, <2>2, Frame DEF Disconnected, Goto, Attached
<1>52. ASSUME NEW c \in Clients, Exit(c)
     PROVE  TypeOK'
  <2>1. ConnType'
    BY <1>52 DEF Exit, Goto, ConnType, Phases
  <2> QED
    BY <1>52, <2>1, Frame DEF Exit, Goto
<1>53. ASSUME NEW c \in Clients, ViewerEnds(c)
     PROVE  TypeOK'
  <2>1. ViewType'
    BY <1>53 DEF ViewerEnds, ViewType
  <2> QED
    BY <1>53, <2>1, Frame DEF ViewerEnds
<1>54. ASSUME NEW c \in Clients, WatchViewer(c)
     PROVE  TypeOK'
  <2>1. FlagType'
    BY <1>54 DEF WatchViewer, RecordFailure, FlagType
  <2>2. SetType'
    BY <1>54 DEF WatchViewer, RecordFailure, SetType
  <2>3. ConnType'
    BY <1>54 DEF WatchViewer, RecordFailure, ConnType, Phases
  <2>4. ViewType'
    BY <1>54 DEF WatchViewer, RecordFailure, ViewType
  <2> QED
    BY <1>54, <2>1, <2>2, <2>3, <2>4, Frame DEF WatchViewer, RecordFailure
<1>55. ASSUME NEW c \in Clients, NEW s \in Servers, Accept(c, s)
     PROVE  TypeOK'
  <2>1. ConnType'
    BY <1>55 DEF Accept, Goto, ConnType, SrvType, Phases, Servers
  <2> QED
    BY <1>55, <2>1, Frame DEF Accept, Goto
<1>56. ASSUME NEW c \in Clients, NEW failed \in BOOLEAN, Abandon(c, failed)
     PROVE  TypeOK'
  <2>1. FlagType'
    BY <1>56 DEF Abandon, Goto, ReleasePin, FlagType
  <2>2. ConnType'
    BY <1>56 DEF Abandon, Goto, ReleasePin, ConnType, Phases
  <2>3. ViewType'
    BY <1>56 DEF Abandon, Goto, ReleasePin, ViewType
  <2> QED
    BY <1>56, <2>1, <2>2, <2>3, Frame DEF Abandon, Goto, ReleasePin
<1>57. ASSUME NEW c \in Clients, NEW failed \in BOOLEAN, StartViewerFails(c, failed)
     PROVE  TypeOK'
  <2>1. FlagType'
    BY <1>57 DEF StartViewerFails, Goto, ReleasePin, FlagType
  <2>2. ConnType'
    BY <1>57 DEF StartViewerFails, Goto, ReleasePin, ConnType, Phases
  <2>3. ViewType'
    BY <1>57 DEF StartViewerFails, Goto, ReleasePin, ViewType
  <2> QED
    BY <1>57, <2>1, <2>2, <2>3, Frame DEF StartViewerFails, Goto, ReleasePin
<1>58. ASSUME NEW c \in Clients, NEW failed \in BOOLEAN, NEW error \in BOOLEAN,
            ViewerFinish(c, failed, error)
     PROVE  TypeOK'
  <2>1. FlagType'
    BY <1>58 DEF ViewerFinish, ReleasePin, FlagType
  <2>2. ViewType'
    BY <1>58 DEF ViewerFinish, ReleasePin, ViewType
  <2> QED
    BY <1>58, <2>1, <2>2, Frame DEF ViewerFinish, ReleasePin
<1>60. ASSUME NEW c \in Clients, QueueFails(c)
     PROVE  TypeOK'
  <2>1. ConnType'
    BY <1>60 DEF QueueFails, ConnType
  <2>2. HistType'
    BY <1>60 DEF QueueFails, HistType
  <2> QED
    BY <1>60, <2>1, <2>2, Frame DEF QueueFails
<1>59. CASE UNCHANGED vars
  BY <1>59, Frame
<1> QED
  BY <1>1, <1>2, <1>3, <1>4, <1>5, <1>6, <1>7, <1>8, <1>9, <1>10, <1>11, <1>12, <1>13,
       <1>14, <1>15, <1>16, <1>17, <1>18, <1>19, <1>20, <1>21, <1>22, <1>23, <1>24,
       <1>25, <1>26, <1>27, <1>28, <1>29, <1>30, <1>31, <1>32, <1>33, <1>34, <1>35,
       <1>36, <1>37, <1>38, <1>39, <1>40, <1>41, <1>42, <1>43, <1>44, <1>45, <1>46,
       <1>47, <1>48, <1>49, <1>50, <1>51, <1>52, <1>53, <1>54, <1>55, <1>56, <1>57,
       <1>58, <1>59, <1>60
      DEF Next, ManagerStep, ClientStep, Terminated

(***************************************************************************)
(* Every field of the Manager, the server, the connections and the viewers *)
(* keeps its type, and no reservation outlives its entry in m.opening.     *)
(***************************************************************************)
THEOREM TypeCorrect == Spec => []TypeOK
  BY TypeInit, TypeStep, PTL DEF Spec

-----------------------------------------------------------------------------
\* Each part of the credential invariant survives a step that leaves its variables alone.
LEMMA CredentialFrame ==
    /\ OpInv /\ UNCHANGED <<mserver, mstate, starts, op>> => OpInv'
    /\ ServerInv /\ UNCHANGED <<starts, cancelled, mserver, op, mstate, msecret, secretOf>>
        => ServerInv'
    /\ ConnInv /\ UNCHANGED <<pc, srv, starts, connections, qclosed, cred, secretOf, op>>
        => ConnInv'
    /\ SessionInv /\ UNCHANGED <<op, active, opening, cred, msecret, srv, mserver, mstate, pc>>
        => SessionInv'
<1>1. OpInv /\ UNCHANGED <<mserver, mstate, starts, op>> => OpInv'
  BY DEF OpInv
<1>2. ServerInv /\ UNCHANGED <<starts, cancelled, mserver, op, mstate, msecret, secretOf>>
      => ServerInv'
  BY DEF ServerInv, MuFree
<1>3. ConnInv /\ UNCHANGED <<pc, srv, starts, connections, qclosed, cred, secretOf, op>>
      => ConnInv'
  BY DEF ConnInv
<1>4. SessionInv /\ UNCHANGED <<op, active, opening, cred, msecret, srv, mserver, mstate, pc>>
      => SessionInv'
  BY DEF SessionInv, MuFree
<1> QED
  BY <1>1, <1>2, <1>3, <1>4

\* At the beginning there is no server, no connection and no credential.
LEMMA CredentialInit == Init => CredentialInv
<1> SUFFICES ASSUME Init PROVE CredentialInv
  OBVIOUS
<1>1. OpInv
  BY IdleType DEF Init, OpInv
<1>2. ServerInv
  BY IdleType DEF Init, ServerInv, Servers
<1>3. ConnInv
  BY DEF Init, ConnInv
<1>4. SessionInv
  BY DEF Init, SessionInv
<1> QED
  BY <1>1, <1>2, <1>3, <1>4 DEF CredentialInv

\* Every action preserves the credential invariant.
LEMMA CredentialStep == TypeOK /\ CredentialInv /\ [Next]_vars => CredentialInv'
<1> SUFFICES ASSUME TypeOK, CredentialInv, [Next]_vars PROVE CredentialInv'
  OBVIOUS
<1> USE MirrorAssumption
      DEF TypeOK, CredentialInv,
          vars, mgrVars, setVars, srvVars, connVars, viewVars, opVars, hist
<1>1. ASSUME StartBegin
     PROVE  CredentialInv'
  <2>1. OpInv'
    BY <1>1, IdleType
        DEF StartBegin, OpFree, OpInv, OpType, Operations, MgrType, SrvType
  <2>2. ServerInv'
    BY <1>1, IdleType
        DEF StartBegin, OpFree, ServerInv, OpInv, MuFree, OpType, Operations
  <2>3. ConnInv'
    BY <1>1, IdleType DEF StartBegin, OpFree, ConnInv, ConnType
  <2>4. SessionInv'
    BY <1>1, IdleType DEF StartBegin, OpFree, SessionInv, MuFree
  <2> QED
    BY <1>1, <2>1, <2>2, <2>3, <2>4, CredentialFrame DEF StartBegin, OpFree
<1>2. ASSUME StartServer
     PROVE  CredentialInv'
  <2>1. OpInv'
    BY <1>2 DEF StartServer, OpInv, OpType, Operations, MgrType, SrvType
  <2>2. ServerInv'
    BY <1>2
        DEF StartServer, ServerInv, OpInv, MuFree, OpType, Operations, SrvType, Servers
  <2>3. ConnInv'
    <3>1. \A d \in Clients : pc[d] # "idle" => srv[d] \in Servers /\ srv[d] <= starts
      BY DEF ConnInv
    <3>2. /\ starts \in Nat /\ starts' = starts + 1
          /\ secretOf' = [secretOf EXCEPT ![starts + 1] = op.secret]
          /\ op.step = "server" /\ op'.step = "tunnel"
          /\ UNCHANGED <<pc, srv, cred, connections, qclosed>>
      BY <1>2 DEF StartServer, SrvType, OpType, Operations
    <3>3. \A d \in Clients : pc[d] # "idle" =>
             secretOf'[srv[d]] = secretOf[srv[d]] /\ srv[d] <= starts'
      BY <3>1, <3>2 DEF SrvType, Servers
    <3> QED
      BY <3>1, <3>2, <3>3 DEF ConnInv
  <2>4. SessionInv'
    BY <1>2 DEF StartServer, SessionInv, MuFree
  <2> QED
    BY <1>2, <2>1, <2>2, <2>3, <2>4, CredentialFrame DEF StartServer
<1>3. ASSUME StartServerFails
     PROVE  CredentialInv'
  <2>1. OpInv'
    BY <1>3, IdleType
        DEF StartServerFails, FailStart, OpInv, OpType, Operations, MgrType, SrvType
  <2>2. ServerInv'
    BY <1>3, IdleType
        DEF StartServerFails, FailStart, ServerInv, OpInv, MuFree, OpType, Operations
  <2>3. ConnInv'
    BY <1>3, IdleType DEF StartServerFails, FailStart, ConnInv, ConnType
  <2>4. SessionInv'
    BY <1>3, IdleType DEF StartServerFails, FailStart, SessionInv, OpInv, OpType, MuFree
  <2> QED
    BY <1>3, <2>1, <2>2, <2>3, <2>4, CredentialFrame DEF StartServerFails, FailStart
<1>4. ASSUME StartTunnel
     PROVE  CredentialInv'
  <2>1. OpInv'
    BY <1>4 DEF StartTunnel, OpInv, OpType, Operations, MgrType, SrvType
  <2>2. ServerInv'
    BY <1>4 DEF StartTunnel, ServerInv, OpInv, MuFree, OpType, Operations
  <2>3. ConnInv'
    BY <1>4 DEF StartTunnel, ConnInv, ConnType
  <2>4. SessionInv'
    BY <1>4 DEF StartTunnel, SessionInv, MuFree
  <2> QED
    BY <1>4, <2>1, <2>2, <2>3, <2>4, CredentialFrame DEF StartTunnel
<1>5. ASSUME StartTunnelFails
     PROVE  CredentialInv'
  <2>1. OpInv'
    BY <1>5 DEF StartTunnelFails, OpInv, OpType, Operations, MgrType, SrvType
  <2>2. ServerInv'
    BY <1>5 DEF StartTunnelFails, ServerInv, OpInv, MuFree, OpType, Operations
  <2>3. ConnInv'
    BY <1>5 DEF StartTunnelFails, ConnInv, ConnType
  <2>4. SessionInv'
    BY <1>5 DEF StartTunnelFails, SessionInv, MuFree
  <2> QED
    BY <1>5, <2>1, <2>2, <2>3, <2>4, CredentialFrame DEF StartTunnelFails
<1>6. ASSUME StartCanceled
     PROVE  CredentialInv'
  <2>1. OpInv'
    BY <1>6 DEF StartCanceled, OpInv, OpType, Operations, MgrType, SrvType
  <2>2. ServerInv'
    BY <1>6 DEF StartCanceled, ServerInv, OpInv, MuFree, OpType, Operations
  <2>3. ConnInv'
    BY <1>6 DEF StartCanceled, ConnInv, ConnType
  <2>4. SessionInv'
    BY <1>6 DEF StartCanceled, SessionInv, MuFree
  <2> QED
    BY <1>6, <2>1, <2>2, <2>3, <2>4, CredentialFrame DEF StartCanceled
<1>7. ASSUME StartCommit
     PROVE  CredentialInv'
  <2>1. OpInv'
    BY <1>7, IdleType
        DEF StartCommit, StartupCanceled, OpInv, OpType, Operations, MgrType, SrvType
  <2>2. ServerInv'
    BY <1>7, IdleType
        DEF StartCommit, StartupCanceled, ServerInv, OpInv, MuFree, OpType, Operations
  <2>3. ConnInv'
    BY <1>7, IdleType DEF StartCommit, StartupCanceled, ConnInv, ConnType
  <2>4. SessionInv'
    BY <1>7, IdleType DEF StartCommit, SessionInv, OpInv, OpType, MuFree
  <2> QED
    BY <1>7, <2>1, <2>2, <2>3, <2>4, CredentialFrame DEF StartCommit, StartupCanceled
<1>8. ASSUME StartClosePartial
     PROVE  CredentialInv'
  <2>1. OpInv'
    BY <1>8 DEF StartClosePartial, OpInv, OpType, Operations, MgrType, SrvType
  <2>2. ServerInv'
    BY <1>8 DEF StartClosePartial, ServerInv, OpInv, MuFree, OpType, Operations
  <2>3. ConnInv'
    BY <1>8 DEF StartClosePartial, ConnInv, ConnType
  <2>4. SessionInv'
    BY <1>8 DEF StartClosePartial, SessionInv, MuFree
  <2> QED
    BY <1>8, <2>1, <2>2, <2>3, <2>4, CredentialFrame DEF StartClosePartial
<1>9. ASSUME RotateBegin
     PROVE  CredentialInv'
  <2>1. OpInv'
    BY <1>9, IdleType
        DEF RotateBegin, OpFree, OpInv, OpType, Operations, MgrType, SrvType
  <2>2. ServerInv'
    <3>1. op'.step = "rotate" /\ op'.srv = mserver /\ op.step = "idle" /\ op.srv = 0
      BY <1>9, IdleType DEF RotateBegin, OpFree, OpInv, OpType, Operations
    <3> QED
      BY <1>9, <3>1 DEF RotateBegin, ServerInv, OpInv, MuFree, Servers
  <2>3. ConnInv'
    BY <1>9, IdleType DEF RotateBegin, OpFree, ConnInv, ConnType
  <2>4. SessionInv'
    BY <1>9, IdleType DEF RotateBegin, OpFree, SessionInv, MuFree
  <2> QED
    BY <1>9, <2>1, <2>2, <2>3, <2>4, CredentialFrame DEF RotateBegin, OpFree
<1>10. ASSUME RotateSetSecret
     PROVE  CredentialInv'
  <2>1. OpInv'
    BY <1>10 DEF RotateSetSecret, OpInv, OpType, Operations, MgrType, SrvType
  <2>2. ServerInv'
    BY <1>10
        DEF RotateSetSecret, ServerInv, OpInv, MuFree, OpType, Operations, SrvType,
            Servers
  <2>3. ConnInv'
    BY <1>10 DEF RotateSetSecret, ConnInv, ConnType
  <2>4. SessionInv'
    BY <1>10 DEF RotateSetSecret, SessionInv, MuFree
  <2> QED
    BY <1>10, <2>1, <2>2, <2>3, <2>4, CredentialFrame DEF RotateSetSecret
<1>11. ASSUME RotateCutDone
     PROVE  CredentialInv'
  <2>1. OpInv'
    BY <1>11 DEF RotateCutDone, OpInv, OpType, Operations, MgrType, SrvType
  <2>2. ServerInv'
    BY <1>11 DEF RotateCutDone, ServerInv, OpInv, MuFree, OpType, Operations
  <2>3. ConnInv'
    BY <1>11 DEF RotateCutDone, ConnInv, ConnType
  <2>4. SessionInv'
    BY <1>11 DEF RotateCutDone, SessionInv, MuFree
  <2> QED
    BY <1>11, <2>1, <2>2, <2>3, <2>4, CredentialFrame DEF RotateCutDone
<1>12. ASSUME RotateDetach
     PROVE  CredentialInv'
  <2>1. OpInv'
    BY <1>12
        DEF RotateDetach, Detach, Attached, OpInv, OpType, Operations, MgrType, SrvType
  <2>2. ServerInv'
    BY <1>12
        DEF RotateDetach, Detach, Attached, ServerInv, OpInv, MuFree, OpType, Operations
  <2>3. ConnInv'
    BY <1>12 DEF RotateDetach, Detach, Attached, ConnInv, ConnType
  <2>4. SessionInv'
    BY <1>12 DEF RotateDetach, Detach, Attached, SessionInv, MuFree
  <2> QED
    BY <1>12, <2>1, <2>2, <2>3, <2>4, CredentialFrame DEF RotateDetach, Detach, Attached
<1>13. ASSUME RotateEnd
     PROVE  CredentialInv'
  <2>1. OpInv'
    BY <1>13, IdleType DEF RotateEnd, OpInv, OpType, Operations, MgrType, SrvType
  <2>2. ServerInv'
    BY <1>13, IdleType DEF RotateEnd, ServerInv, OpInv, MuFree, OpType, Operations
  <2>3. ConnInv'
    BY <1>13, IdleType DEF RotateEnd, ConnInv, ConnType
  <2>4. SessionInv'
    BY <1>13, IdleType DEF RotateEnd, SessionInv, MuFree
  <2> QED
    BY <1>13, <2>1, <2>2, <2>3, <2>4, CredentialFrame DEF RotateEnd
<1>14. ASSUME ShutdownAsk
     PROVE  CredentialInv'
  <2>1. ServerInv'
    BY <1>14 DEF ShutdownAsk, ServerInv, OpInv, MuFree, OpType, Operations
  <2> QED
    BY <1>14, <2>1, CredentialFrame DEF ShutdownAsk
<1>15. ASSUME ShutdownClear
     PROVE  CredentialInv'
  <2>1. OpInv'
    BY <1>15
        DEF ShutdownClear, OpFree, ClearLocked, Detach, Attached, ClientsToTell, OpInv,
            OpType, Operations, MgrType, SrvType
  <2>2. ServerInv'
    BY <1>15
        DEF ShutdownClear, OpFree, ClearLocked, Detach, Attached, ClientsToTell,
            ServerInv, OpInv, MuFree, OpType, Operations
  <2>3. ConnInv'
    BY <1>15
        DEF ShutdownClear, OpFree, ClearLocked, Detach, Attached, ClientsToTell,
            ConnInv, ConnType
  <2>4. SessionInv'
    BY <1>15
        DEF ShutdownClear, OpFree, ClearLocked, Detach, Attached, ClientsToTell,
            SessionInv, MuFree
  <2> QED
    BY <1>15, <2>1, <2>2, <2>3, <2>4, CredentialFrame
        DEF ShutdownClear, OpFree, ClearLocked, Detach, Attached, ClientsToTell
<1>16. ASSUME OpViewersDone
     PROVE  CredentialInv'
  <2>1. OpInv'
    BY <1>16 DEF OpViewersDone, OpInv, OpType, Operations, MgrType, SrvType
  <2>2. ServerInv'
    BY <1>16 DEF OpViewersDone, ServerInv, OpInv, MuFree, OpType, Operations
  <2>3. ConnInv'
    BY <1>16 DEF OpViewersDone, ConnInv, ConnType
  <2>4. SessionInv'
    BY <1>16 DEF OpViewersDone, SessionInv, MuFree
  <2> QED
    BY <1>16, <2>1, <2>2, <2>3, <2>4, CredentialFrame DEF OpViewersDone
<1>17. ASSUME OpTellDone
     PROVE  CredentialInv'
  <2>1. OpInv'
    BY <1>17 DEF OpTellDone, OpInv, OpType, Operations, MgrType, SrvType
  <2>2. ServerInv'
    BY <1>17 DEF OpTellDone, ServerInv, OpInv, MuFree, OpType, Operations
  <2>3. ConnInv'
    BY <1>17 DEF OpTellDone, ConnInv, ConnType
  <2>4. SessionInv'
    BY <1>17 DEF OpTellDone, SessionInv, MuFree
  <2> QED
    BY <1>17, <2>1, <2>2, <2>3, <2>4, CredentialFrame DEF OpTellDone
<1>18. ASSUME OpClose
     PROVE  CredentialInv'
  <2>1. OpInv'
    BY <1>18 DEF OpClose, OpInv, OpType, Operations, MgrType, SrvType
  <2>2. ServerInv'
    BY <1>18 DEF OpClose, ServerInv, OpInv, MuFree, OpType, Operations
  <2>3. ConnInv'
    BY <1>18 DEF OpClose, ConnInv, ConnType
  <2>4. SessionInv'
    BY <1>18 DEF OpClose, SessionInv, MuFree
  <2> QED
    BY <1>18, <2>1, <2>2, <2>3, <2>4, CredentialFrame DEF OpClose
<1>19. ASSUME NEW s \in Servers, TunnelExit(s)
     PROVE  CredentialInv'
  <2> QED
    BY <1>19, CredentialFrame DEF TunnelExit
<1>20. ASSUME NEW s \in Servers, WatchTunnel(s)
     PROVE  CredentialInv'
  <2>1. OpInv'
    BY <1>20
        DEF WatchTunnel, OpFree, ClearLocked, Detach, Attached, ClientsToTell, OpInv,
            OpType, Operations, MgrType, SrvType
  <2>2. ServerInv'
    BY <1>20
        DEF WatchTunnel, OpFree, ClearLocked, Detach, Attached, ClientsToTell,
            ServerInv, OpInv, MuFree, OpType, Operations
  <2>3. ConnInv'
    BY <1>20
        DEF WatchTunnel, OpFree, ClearLocked, Detach, Attached, ClientsToTell, ConnInv,
            ConnType
  <2>4. SessionInv'
    BY <1>20
        DEF WatchTunnel, OpFree, ClearLocked, Detach, Attached, ClientsToTell,
            SessionInv, MuFree
  <2> QED
    BY <1>20, <2>1, <2>2, <2>3, <2>4, CredentialFrame
        DEF WatchTunnel, OpFree, ClearLocked, Detach, Attached, ClientsToTell
<1>21. ASSUME NEW failed \in BOOLEAN, OpFactory(failed)
     PROVE  CredentialInv'
  <2>1. OpInv'
    BY <1>21 DEF OpFactory, PinOutstanding, OpInv, OpType, Operations, MgrType, SrvType
  <2>2. ServerInv'
    BY <1>21 DEF OpFactory, PinOutstanding, ServerInv, OpInv, MuFree, OpType, Operations
  <2>3. ConnInv'
    BY <1>21 DEF OpFactory, PinOutstanding, ConnInv, ConnType
  <2>4. SessionInv'
    BY <1>21 DEF OpFactory, PinOutstanding, SessionInv, MuFree, SetType, ConnType
  <2> QED
    BY <1>21, <2>1, <2>2, <2>3, <2>4, CredentialFrame DEF OpFactory, PinOutstanding
<1>22. ASSUME NEW timedOut \in BOOLEAN, OpDrained(timedOut)
     PROVE  CredentialInv'
  <2>1. OpInv'
    BY <1>22, IdleType
        DEF OpDrained, FailStart, OpInv, OpType, Operations, MgrType, SrvType
  <2>2. ServerInv'
    BY <1>22, IdleType
        DEF OpDrained, FailStart, ServerInv, OpInv, MuFree, OpType, Operations
  <2>3. ConnInv'
    BY <1>22, IdleType DEF OpDrained, FailStart, ConnInv, ConnType
  <2>4. SessionInv'
    <3>1. CASE op.kind = "start"
      BY <1>22, <3>1, IdleType DEF OpDrained, FailStart, SessionInv, OpInv, MuFree
    <3>2. CASE op.kind # "start"
      BY <1>22, <3>2, IdleType DEF OpDrained, SessionInv, MuFree
    <3> QED
      BY <3>1, <3>2
  <2> QED
    BY <1>22, <2>1, <2>2, <2>3, <2>4, CredentialFrame DEF OpDrained, FailStart
<1>23. ASSUME NEW c \in Clients, RotateCut(c)
     PROVE  CredentialInv'
  <2>1. OpInv'
    BY <1>23 DEF RotateCut, OpInv, OpType, Operations, MgrType, SrvType
  <2>2. ServerInv'
    BY <1>23 DEF RotateCut, ServerInv, OpInv, MuFree, OpType, Operations
  <2>3. ConnInv'
    BY <1>23 DEF RotateCut, ConnInv, ConnType
  <2>4. SessionInv'
    BY <1>23 DEF RotateCut, SessionInv, MuFree, SetType, ConnType
  <2> QED
    BY <1>23, <2>1, <2>2, <2>3, <2>4, CredentialFrame DEF RotateCut
<1>24. ASSUME NEW c \in Clients, OpTerminate(c)
     PROVE  CredentialInv'
  <2>1. OpInv'
    BY <1>24 DEF OpTerminate, OpInv, OpType, Operations, MgrType, SrvType
  <2>2. ServerInv'
    BY <1>24 DEF OpTerminate, ServerInv, OpInv, MuFree, OpType, Operations
  <2>3. ConnInv'
    BY <1>24 DEF OpTerminate, ConnInv, ConnType
  <2>4. SessionInv'
    BY <1>24 DEF OpTerminate, SessionInv, MuFree, SetType, ConnType
  <2> QED
    BY <1>24, <2>1, <2>2, <2>3, <2>4, CredentialFrame DEF OpTerminate
<1>25. ASSUME NEW c \in Clients, OpViewerClosed(c)
     PROVE  CredentialInv'
  <2>1. OpInv'
    BY <1>25 DEF OpViewerClosed, OpInv, OpType, Operations, MgrType, SrvType
  <2>2. ServerInv'
    BY <1>25 DEF OpViewerClosed, ServerInv, OpInv, MuFree, OpType, Operations
  <2>3. ConnInv'
    BY <1>25 DEF OpViewerClosed, ConnInv, ConnType
  <2>4. SessionInv'
    BY <1>25 DEF OpViewerClosed, SessionInv, MuFree, SetType, ConnType
  <2> QED
    BY <1>25, <2>1, <2>2, <2>3, <2>4, CredentialFrame DEF OpViewerClosed
<1>26. ASSUME NEW c \in Clients, OpTell(c)
     PROVE  CredentialInv'
  <2>1. OpInv'
    BY <1>26 DEF OpTell, OpInv, OpType, Operations, MgrType, SrvType
  <2>2. ServerInv'
    BY <1>26 DEF OpTell, ServerInv, OpInv, MuFree, OpType, Operations
  <2>3. ConnInv'
    BY <1>26 DEF OpTell, ConnInv, ConnType
  <2>4. SessionInv'
    BY <1>26 DEF OpTell, SessionInv, MuFree, SetType, ConnType
  <2> QED
    BY <1>26, <2>1, <2>2, <2>3, <2>4, CredentialFrame DEF OpTell
<1>27. ASSUME NEW c \in Clients, Authenticate(c)
     PROVE  CredentialInv'
  <2>1. ConnInv'
    BY <1>27 DEF Authenticate, Goto, ConnInv, ConnType
  <2>2. SessionInv'
    BY <1>27 DEF Authenticate, Goto, SessionInv, MuFree, SetType, ConnType
  <2> QED
    BY <1>27, <2>1, <2>2, CredentialFrame DEF Authenticate, Goto
<1>28. ASSUME NEW c \in Clients, AuthenticateFails(c)
     PROVE  CredentialInv'
  <2>1. ConnInv'
    BY <1>28 DEF AuthenticateFails, Goto, ConnInv, ConnType
  <2>2. SessionInv'
    BY <1>28 DEF AuthenticateFails, Goto, SessionInv, MuFree, SetType, ConnType
  <2> QED
    BY <1>28, <2>1, <2>2, CredentialFrame DEF AuthenticateFails, Goto
<1>29. ASSUME NEW c \in Clients, Register(c)
     PROVE  CredentialInv'
  <2>1. ConnInv'
    BY <1>29 DEF Register, Goto, CredentialCurrent, ConnInv, ConnType
  <2>2. SessionInv'
    BY <1>29
        DEF Register, Goto, CredentialCurrent, SessionInv, MuFree, SetType, ConnType
  <2> QED
    BY <1>29, <2>1, <2>2, CredentialFrame DEF Register, Goto, CredentialCurrent
<1>30. ASSUME NEW c \in Clients, Connected(c)
     PROVE  CredentialInv'
  <2>1. ConnInv'
    BY <1>30 DEF Connected, Goto, ConnInv, ConnType
  <2>2. SessionInv'
    BY <1>30 DEF Connected, Goto, SessionInv, MuFree, SetType, ConnType
  <2> QED
    BY <1>30, <2>1, <2>2, CredentialFrame DEF Connected, Goto
<1>31. ASSUME NEW c \in Clients, Prepare(c)
     PROVE  CredentialInv'
  <2>1. ConnInv'
    BY <1>31 DEF Prepare, Goto, ConnInv, ConnType
  <2>2. SessionInv'
    BY <1>31 DEF Prepare, Goto, SessionInv, MuFree, SetType, ConnType
  <2> QED
    BY <1>31, <2>1, <2>2, CredentialFrame DEF Prepare, Goto
<1>32. ASSUME NEW c \in Clients, PrepareFails(c)
     PROVE  CredentialInv'
  <2>1. ConnInv'
    BY <1>32 DEF PrepareFails, Goto, ConnInv, ConnType
  <2>2. SessionInv'
    BY <1>32 DEF PrepareFails, Goto, SessionInv, MuFree, SetType, ConnType
  <2> QED
    BY <1>32, <2>1, <2>2, CredentialFrame DEF PrepareFails, Goto
<1>33. ASSUME NEW c \in Clients, Reserve(c)
     PROVE  CredentialInv'
  <2>1. ConnInv'
    BY <1>33 DEF Reserve, Goto, CanSend, ConnInv, ConnType
  <2>2. SessionInv'
    <3>1. CASE opening' = opening
      BY <1>33, <3>1 DEF Reserve, Goto, SessionInv, MuFree, SetType, ConnType
    <3>2. CASE opening' # opening
      <4>1. /\ opening' = opening \cup {c} /\ mstate = "Ready" /\ MuFree
            /\ c \notin qclosed /\ srv[c] \notin cancelled /\ pc[c] = "reserve"
        BY <1>33, <3>2 DEF Reserve, Serving, CanSend
      <4>2. cred[c] = secretOf[srv[c]] /\ srv[c] \in Servers /\ srv[c] <= starts
        BY <4>1 DEF ConnInv, MuFree
      <4>3. srv[c] = mserver
        BY <4>1, <4>2 DEF ServerInv, OpInv, OpType, Operations, OpKinds, Servers
      <4>4. cred[c] = msecret
        BY <4>1, <4>2, <4>3 DEF ServerInv
      <4> QED
        BY <1>33, <4>1, <4>3, <4>4
            DEF Reserve, Goto, SessionInv, MuFree, SetType, ConnType
    <3> QED
      BY <3>1, <3>2
  <2> QED
    BY <1>33, <2>1, <2>2, CredentialFrame DEF Reserve, Goto, CanSend
<1>34. ASSUME NEW c \in Clients, StartViewer(c)
     PROVE  CredentialInv'
  <2>1. ConnInv'
    BY <1>34 DEF StartViewer, Goto, ConnInv, ConnType
  <2>2. SessionInv'
    BY <1>34 DEF StartViewer, Goto, SessionInv, MuFree, SetType, ConnType
  <2> QED
    BY <1>34, <2>1, <2>2, CredentialFrame DEF StartViewer, Goto
<1>35. ASSUME NEW c \in Clients, RemoveOpening(c)
     PROVE  CredentialInv'
  <2>1. ConnInv'
    BY <1>35 DEF RemoveOpening, Goto, ConnInv, ConnType
  <2>2. SessionInv'
    BY <1>35 DEF RemoveOpening, Goto, SessionInv, MuFree, SetType, ConnType
  <2> QED
    BY <1>35, <2>1, <2>2, CredentialFrame DEF RemoveOpening, Goto
<1>36. ASSUME NEW c \in Clients, BindViewer(c)
     PROVE  CredentialInv'
  <2>1. ConnInv'
    BY <1>36 DEF BindViewer, Goto, ConnInv, ConnType
  <2>2. SessionInv'
    BY <1>36 DEF BindViewer, Goto, SessionInv, MuFree, SetType, ConnType
  <2> QED
    BY <1>36, <2>1, <2>2, CredentialFrame DEF BindViewer, Goto
<1>37. ASSUME NEW c \in Clients, Activate(c)
     PROVE  CredentialInv'
  <2>1. ConnInv'
    BY <1>37 DEF Activate, Goto, ConnInv, ConnType
  <2>2. SessionInv'
    BY <1>37
        DEF Activate, Goto, SessionInv, MuFree, StillReserved, Serving, SetType,
            ConnType
  <2> QED
    BY <1>37, <2>1, <2>2, CredentialFrame DEF Activate, Goto
<1>38. ASSUME NEW c \in Clients, Terminate(c)
     PROVE  CredentialInv'
  <2> QED
    BY <1>38, CredentialFrame DEF Terminate
<1>39. ASSUME NEW c \in Clients, Discarded(c)
     PROVE  CredentialInv'
  <2>1. ConnInv'
    BY <1>39 DEF Discarded, Goto, ConnInv, ConnType
  <2>2. SessionInv'
    BY <1>39 DEF Discarded, Goto, SessionInv, MuFree, SetType, ConnType
  <2> QED
    BY <1>39, <2>1, <2>2, CredentialFrame DEF Discarded, Goto
<1>40. ASSUME NEW c \in Clients, Closed(c)
     PROVE  CredentialInv'
  <2>1. ConnInv'
    BY <1>40 DEF Closed, Goto, RecordFailure, ConnInv, ConnType
  <2>2. SessionInv'
    BY <1>40 DEF Closed, Goto, RecordFailure, SessionInv, MuFree, SetType, ConnType
  <2> QED
    BY <1>40, <2>1, <2>2, CredentialFrame DEF Closed, Goto, RecordFailure
<1>41. ASSUME NEW c \in Clients, Left(c)
     PROVE  CredentialInv'
  <2>1. ConnInv'
    BY <1>41 DEF Left, Goto, RecordFailure, ConnInv, ConnType
  <2>2. SessionInv'
    BY <1>41 DEF Left, Goto, RecordFailure, SessionInv, MuFree, SetType, ConnType
  <2> QED
    BY <1>41, <2>1, <2>2, CredentialFrame DEF Left, Goto, RecordFailure
<1>42. ASSUME NEW c \in Clients, Refuse(c)
     PROVE  CredentialInv'
  <2>1. ConnInv'
    BY <1>42 DEF Refuse, Goto, ConnInv, ConnType
  <2>2. SessionInv'
    BY <1>42 DEF Refuse, Goto, SessionInv, MuFree, SetType, ConnType
  <2> QED
    BY <1>42, <2>1, <2>2, CredentialFrame DEF Refuse, Goto
<1>43. ASSUME NEW c \in Clients, RecvInput(c)
     PROVE  CredentialInv'
  <2>1. ConnInv'
    BY <1>43 DEF RecvInput, Goto, ConnInv, ConnType
  <2>2. SessionInv'
    BY <1>43 DEF RecvInput, Goto, SessionInv, MuFree, SetType, ConnType
  <2> QED
    BY <1>43, <2>1, <2>2, CredentialFrame DEF RecvInput, Goto
<1>44. ASSUME NEW c \in Clients, InputLookup(c)
     PROVE  CredentialInv'
  <2>1. ConnInv'
    BY <1>44 DEF InputLookup, Goto, DispatchError, ConnInv, ConnType
  <2>2. SessionInv'
    BY <1>44 DEF InputLookup, Goto, DispatchError, SessionInv, MuFree, SetType, ConnType
  <2> QED
    BY <1>44, <2>1, <2>2, CredentialFrame DEF InputLookup, Goto, DispatchError
<1>45. ASSUME NEW c \in Clients, InputWritten(c)
     PROVE  CredentialInv'
  <2>1. ConnInv'
    BY <1>45 DEF InputWritten, Goto, ConnInv, ConnType
  <2>2. SessionInv'
    BY <1>45 DEF InputWritten, Goto, SessionInv, MuFree, SetType, ConnType
  <2> QED
    BY <1>45, <2>1, <2>2, CredentialFrame DEF InputWritten, Goto
<1>46. ASSUME NEW c \in Clients, InputRejected(c)
     PROVE  CredentialInv'
  <2>1. ConnInv'
    BY <1>46 DEF InputRejected, Goto, DispatchError, ConnInv, ConnType
  <2>2. SessionInv'
    BY <1>46
        DEF InputRejected, Goto, DispatchError, SessionInv, MuFree, SetType, ConnType
  <2> QED
    BY <1>46, <2>1, <2>2, CredentialFrame DEF InputRejected, Goto, DispatchError
<1>47. ASSUME NEW c \in Clients, RecvClose(c)
     PROVE  CredentialInv'
  <2>1. ConnInv'
    BY <1>47 DEF RecvClose, Goto, ConnInv, ConnType
  <2>2. SessionInv'
    BY <1>47 DEF RecvClose, Goto, SessionInv, MuFree, SetType, ConnType
  <2> QED
    BY <1>47, <2>1, <2>2, CredentialFrame DEF RecvClose, Goto
<1>48. ASSUME NEW c \in Clients, ManagerClose(c)
     PROVE  CredentialInv'
  <2>1. ConnInv'
    BY <1>48 DEF ManagerClose, Goto, Attached, ConnInv, ConnType
  <2>2. SessionInv'
    BY <1>48 DEF ManagerClose, Goto, Attached, SessionInv, MuFree, SetType, ConnType
  <2> QED
    BY <1>48, <2>1, <2>2, CredentialFrame DEF ManagerClose, Goto, Attached
<1>49. ASSUME NEW c \in Clients, Acknowledge(c)
     PROVE  CredentialInv'
  <2>1. ConnInv'
    BY <1>49 DEF Acknowledge, Goto, ConnInv, ConnType
  <2>2. SessionInv'
    BY <1>49 DEF Acknowledge, Goto, SessionInv, MuFree, SetType, ConnType
  <2> QED
    BY <1>49, <2>1, <2>2, CredentialFrame DEF Acknowledge, Goto
<1>50. ASSUME NEW c \in Clients, PeerLeaves(c)
     PROVE  CredentialInv'
  <2>1. ConnInv'
    BY <1>50 DEF PeerLeaves, Goto, ConnInv, ConnType
  <2>2. SessionInv'
    BY <1>50 DEF PeerLeaves, Goto, SessionInv, MuFree, SetType, ConnType
  <2> QED
    BY <1>50, <2>1, <2>2, CredentialFrame DEF PeerLeaves, Goto
<1>51. ASSUME NEW c \in Clients, Disconnected(c)
     PROVE  CredentialInv'
  <2>1. ConnInv'
    BY <1>51 DEF Disconnected, Goto, Attached, ConnInv, ConnType
  <2>2. SessionInv'
    BY <1>51 DEF Disconnected, Goto, Attached, SessionInv, MuFree, SetType, ConnType
  <2> QED
    BY <1>51, <2>1, <2>2, CredentialFrame DEF Disconnected, Goto, Attached
<1>52. ASSUME NEW c \in Clients, Exit(c)
     PROVE  CredentialInv'
  <2>1. ConnInv'
    BY <1>52 DEF Exit, Goto, ConnInv, ConnType
  <2>2. SessionInv'
    BY <1>52 DEF Exit, Goto, SessionInv, MuFree, SetType, ConnType
  <2> QED
    BY <1>52, <2>1, <2>2, CredentialFrame DEF Exit, Goto
<1>53. ASSUME NEW c \in Clients, ViewerEnds(c)
     PROVE  CredentialInv'
  <2> QED
    BY <1>53, CredentialFrame DEF ViewerEnds
<1>54. ASSUME NEW c \in Clients, WatchViewer(c)
     PROVE  CredentialInv'
  <2>1. SessionInv'
    BY <1>54 DEF WatchViewer, RecordFailure, SessionInv, MuFree, SetType, ConnType
  <2> QED
    BY <1>54, <2>1, CredentialFrame DEF WatchViewer, RecordFailure
<1>55. ASSUME NEW c \in Clients, NEW s \in Servers, Accept(c, s)
     PROVE  CredentialInv'
  <2>1. ConnInv'
    BY <1>55 DEF Accept, Goto, ConnInv, ConnType, SrvType, Servers
  <2>2. SessionInv'
    BY <1>55 DEF Accept, Goto, SessionInv, MuFree, SetType, ConnType
  <2> QED
    BY <1>55, <2>1, <2>2, CredentialFrame DEF Accept, Goto
<1>56. ASSUME NEW c \in Clients, NEW failed \in BOOLEAN, Abandon(c, failed)
     PROVE  CredentialInv'
  <2>1. ConnInv'
    BY <1>56 DEF Abandon, Goto, ReleasePin, ConnInv, ConnType
  <2>2. SessionInv'
    BY <1>56 DEF Abandon, Goto, ReleasePin, SessionInv, MuFree, SetType, ConnType
  <2> QED
    BY <1>56, <2>1, <2>2, CredentialFrame DEF Abandon, Goto, ReleasePin
<1>57. ASSUME NEW c \in Clients, NEW failed \in BOOLEAN, StartViewerFails(c, failed)
     PROVE  CredentialInv'
  <2>1. ConnInv'
    BY <1>57 DEF StartViewerFails, Goto, ReleasePin, ConnInv, ConnType
  <2>2. SessionInv'
    BY <1>57
        DEF StartViewerFails, Goto, ReleasePin, SessionInv, MuFree, SetType, ConnType
  <2> QED
    BY <1>57, <2>1, <2>2, CredentialFrame DEF StartViewerFails, Goto, ReleasePin
<1>58. ASSUME NEW c \in Clients, NEW failed \in BOOLEAN, NEW error \in BOOLEAN,
            ViewerFinish(c, failed, error)
     PROVE  CredentialInv'
  <2> QED
    BY <1>58, CredentialFrame DEF ViewerFinish, ReleasePin
<1>60. ASSUME NEW c \in Clients, QueueFails(c)
     PROVE  CredentialInv'
  <2>1. ConnInv'
    BY <1>60 DEF QueueFails, ConnInv
  <2> QED
    BY <1>60, <2>1, CredentialFrame DEF QueueFails
<1>59. CASE UNCHANGED vars
  BY <1>59, CredentialFrame
<1> QED
  BY <1>1, <1>2, <1>3, <1>4, <1>5, <1>6, <1>7, <1>8, <1>9, <1>10, <1>11, <1>12, <1>13,
       <1>14, <1>15, <1>16, <1>17, <1>18, <1>19, <1>20, <1>21, <1>22, <1>23, <1>24,
       <1>25, <1>26, <1>27, <1>28, <1>29, <1>30, <1>31, <1>32, <1>33, <1>34, <1>35,
       <1>36, <1>37, <1>38, <1>39, <1>40, <1>41, <1>42, <1>43, <1>44, <1>45, <1>46,
       <1>47, <1>48, <1>49, <1>50, <1>51, <1>52, <1>53, <1>54, <1>55, <1>56, <1>57,
       <1>58, <1>59, <1>60
      DEF Next, ManagerStep, ClientStep, Terminated

\* The credential invariant holds in every reachable state.
LEMMA CredentialAlways == Spec => []CredentialInv
  BY CredentialInit, CredentialStep, TypeCorrect, PTL DEF Spec

(***************************************************************************)
(* Whatever number of connections, handshakes, rotations and restarts:     *)
(* while m.mu is free, every terminal that is open or being opened belongs *)
(* to a connection that authenticated with the credential shown now.       *)
(***************************************************************************)
THEOREM NoRevokedSessionAlways == Spec => []NoRevokedSession
<1>1. TypeOK /\ CredentialInv => NoRevokedSession
  BY DEF CredentialInv, SessionInv, ServerInv, NoRevokedSession
<1> QED
  BY <1>1, TypeCorrect, CredentialAlways, PTL
=============================================================================
