------------------------------- MODULE Mirror -------------------------------
(***************************************************************************)
(* The mirror of one shared terminal: the Manager (manager.go), the local  *)
(* WebSocket server (server.go), one handler goroutine per browser         *)
(* connection (server.go, client.go) and one PTY viewer per connection     *)
(* (viewer.go).  One action is one critical section of the code, or one    *)
(* stretch of a goroutine between two points where another may step in.    *)
(*                                                                         *)
(* m.opMu is op: the operation in it owns the lock until op is Idle again. *)
(* m.mu is free except while Rotate cuts the old connections off.          *)
(* A secret is its serial number (0 is the zero secret); the server's      *)
(* secretVersion changes exactly when its secret does, so secretOf stands  *)
(* for both.  A server is its serial number (0 is nil); m.server and       *)
(* m.tunnel are set and cleared together, so mserver stands for both.      *)
(***************************************************************************)
EXTENDS Naturals, FiniteSets

CONSTANTS
    Clients,        \* connection attempts of browsers, each used once
    MaxHandshakes,  \* protocol.go MaxHandshakes
    MaxClients,     \* protocol.go MaxClients
    MaxStarts,      \* bound: local servers ever started
    MaxSecrets      \* bound: credentials ever generated

ASSUME MirrorAssumption ==
    /\ MaxHandshakes \in Nat /\ MaxClients \in Nat
    /\ MaxStarts \in Nat /\ MaxSecrets \in Nat

VARIABLES
    \* Manager fields
    mstate, msecret, mserver, startup, shutdown, asked, warning,
    clients, active, opening,
    withViewer,     \* the opening entries whose viewer field is set
    \* LocalServer fields, by server
    issued, starts, secretOf, public, tunnels, tunnelDone, cancelled,
    \* connection handlers
    pc, srv, cred, hsHeld, slotHeld, connections,
    qclosed,        \* closeNow has run: queue and socket are closed
    told,           \* a TagShutdown frame was queued for the writer
    vopen,          \* Client.viewerOpen
    \* viewers
    viewer, verr, watch,
    unrestored,     \* the window pin has no reference left, its restore failed
    \* the operation that holds m.opMu
    op,
    retired,        \* history: secrets up to here were withdrawn for good
    result,         \* history: what Shutdown returned
    overdue,        \* history: servers whose handlers outlasted a cleanup's wait
    broken          \* history: connections whose own queue or socket failed

mgrVars  == <<mstate, msecret, mserver, startup, shutdown, asked, warning>>
setVars  == <<clients, active, opening, withViewer>>
srvVars  == <<issued, starts, secretOf, public, tunnels, tunnelDone, cancelled>>
connVars == <<pc, srv, cred, hsHeld, slotHeld, connections, qclosed, told, vopen>>
viewVars == <<viewer, verr, watch, unrestored>>
hist     == <<retired, result, overdue, broken>>
opVars   == <<op, hist>>
vars     == <<mgrVars, setVars, srvVars, connVars, viewVars, opVars>>

Servers == 1..MaxStarts
Secrets == 1..MaxSecrets

Idle == [kind |-> "none", step |-> "idle", secret |-> 0, srv |-> 0,
         pend |-> {}, at |-> {}, tell |-> {}, err |-> FALSE]

OpKinds == {"none", "start", "rotate", "shutdown", "tunnel"}
OpSteps == {"idle", "server", "tunnel", "commit", "partial", "rotate", "cut",
            "detach", "viewers", "factory", "warn", "clients", "close", "drain"}
Operations ==
    [kind : OpKinds, step : OpSteps, secret : 0..MaxSecrets, srv : 0..MaxStarts,
     pend : SUBSET Clients, at : SUBSET Clients, tell : SUBSET Clients, err : BOOLEAN]

Phases  == {"idle", "auth", "check", "registered", "prepare", "reserve",
            "abandon", "start", "unreserve", "bind", "activate", "discard",
            "refuse", "run", "input", "write", "close", "closing", "ack",
            "disconnect", "leaving", "exit", "done"}

MgrType ==
    /\ mstate \in {"Stopped", "Starting", "Ready", "Failed"}
    /\ msecret \in 0..MaxSecrets /\ mserver \in 0..MaxStarts
    /\ startup \in {"none", "running", "canceled"}

FlagType ==
    /\ shutdown \in BOOLEAN /\ asked \in BOOLEAN
    /\ warning \in BOOLEAN /\ unrestored \in BOOLEAN

SetType ==
    /\ clients \subseteq Clients /\ active \subseteq Clients
    /\ opening \subseteq Clients /\ withViewer \subseteq opening

SrvType ==
    /\ issued \in 0..MaxSecrets /\ starts \in 0..MaxStarts
    /\ secretOf \in [Servers -> 0..MaxSecrets]
    /\ public \subseteq Servers /\ tunnels \subseteq Servers
    /\ tunnelDone \subseteq Servers /\ cancelled \subseteq Servers

ConnType ==
    /\ pc \in [Clients -> Phases]
    /\ srv \in [Clients -> 0..MaxStarts]
    /\ cred \in [Clients -> 0..MaxSecrets]
    /\ hsHeld \subseteq Clients /\ slotHeld \subseteq Clients
    /\ connections \subseteq Clients /\ qclosed \subseteq Clients
    /\ told \subseteq Clients /\ vopen \subseteq Clients

ViewType ==
    /\ viewer \in [Clients -> {"none", "prepared", "live", "dying", "finished"}]
    /\ verr \subseteq Clients
    /\ watch \in [Clients -> {"none", "waiting", "done"}]

OpType ==
    /\ op \in Operations
    /\ op.kind \in {"start", "rotate"} => op.secret # 0
    /\ op.step \in {"server", "tunnel", "commit", "partial"} => op.kind = "start"
    /\ op.step \in {"rotate", "cut", "detach", "warn"} => op.kind = "rotate"
    /\ op.step \in {"tunnel", "commit", "partial", "rotate"} => op.srv # 0
    /\ op.step = "server" => starts < MaxStarts

HistType ==
    /\ retired \in 0..MaxSecrets
    /\ result \in {"none", "ok", "error"}
    /\ overdue \subseteq Servers /\ broken \subseteq Clients

TypeOK ==
    /\ MgrType /\ FlagType /\ SetType /\ SrvType
    /\ ConnType /\ ViewType /\ OpType /\ HistType

Init ==
    /\ mstate = "Stopped" /\ msecret = 0 /\ mserver = 0 /\ startup = "none"
    /\ shutdown = FALSE /\ asked = FALSE /\ warning = FALSE
    /\ clients = {} /\ active = {} /\ opening = {} /\ withViewer = {}
    /\ issued = 0 /\ starts = 0 /\ secretOf = [s \in Servers |-> 0]
    /\ public = {} /\ tunnels = {} /\ tunnelDone = {} /\ cancelled = {}
    /\ pc = [c \in Clients |-> "idle"]
    /\ srv = [c \in Clients |-> 0] /\ cred = [c \in Clients |-> 0]
    /\ hsHeld = {} /\ slotHeld = {} /\ connections = {}
    /\ qclosed = {} /\ told = {} /\ vopen = {}
    /\ viewer = [c \in Clients |-> "none"] /\ verr = {}
    /\ watch = [c \in Clients |-> "none"] /\ unrestored = FALSE
    /\ op = Idle /\ retired = 0 /\ result = "none"
    /\ overdue = {} /\ broken = {}

-----------------------------------------------------------------------------
(***************************************************************************)
(* Small pieces shared by the actions.                                     *)
(***************************************************************************)
OpFree == op.step = "idle"

\* Rotate keeps m.mu from SetSecret until the viewers are detached.
MuFree == op.step \notin {"cut", "detach"}

Serving == mstate = "Ready" /\ ~shutdown

Goto(c, phase) == pc' = [pc EXCEPT ![c] = phase]

\* Mutant: the version check after the handshake is missing.
VersionUnchecked(c) == TRUE

\* The handshake still holds the credential the server accepts.
CredentialCurrent(c) == cred[c] = secretOf[srv[c]]

\* Mutant: push does not look at the closed flag of the queue.
SendToClosedQueue(c) == srv[c] \notin cancelled

\* What Client.send needs: an open queue and a live server context.
CanSend(c) == c \notin qclosed /\ srv[c] \notin cancelled

HoldsPin(c) == viewer[c] \in {"prepared", "live", "dying"}

LastPin(c) == \A d \in Clients \ {c} : ~HoldsPin(d)

\* releasePin: the last reference restores the window, which tmux may refuse;
\* then the pin stays in the factory for a later retry.
ReleasePin(c, failed) ==
    /\ failed => LastPin(c)
    /\ viewer' = [viewer EXCEPT ![c] = "finished"]
    /\ unrestored' = IF LastPin(c) THEN failed ELSE unrestored

\* A pin without references whose restoration still has to be retried.
PinOutstanding == unrestored /\ \A c \in Clients : ~HoldsPin(c)

\* Mutant: Close waits for the registered connections, not for the handlers.
ConnectionsGone(s) == \A c \in connections : srv[c] # s

HandlersGone(s) == \A c \in Clients : srv[c] = s => pc[c] \in {"idle", "done"}

\* Mutant: the reservations are dropped, their viewers are not.
DetachKeepsViewers ==
    /\ clients' = {} /\ active' = {} /\ opening' = {} /\ withViewer' = withViewer
    /\ vopen' = vopen \ opening

\* clearLocked and detachClientsLocked: every viewer and client leaves the
\* Manager's maps at once; whoever called owns closing them.
Detach ==
    /\ clients' = {} /\ active' = {} /\ opening' = {} /\ withViewer' = {}
    /\ vopen' = vopen \ opening

\* Mutant: only the viewers of reservations are collected.
AttachedOpeningOnly == withViewer

Attached == active \cup withViewer

-----------------------------------------------------------------------------
(***************************************************************************)
(* Manager.Start.                                                          *)
(***************************************************************************)
StartBegin ==
    /\ OpFree /\ ~shutdown /\ ~asked /\ mstate # "Ready"
    /\ starts < MaxStarts /\ issued < MaxSecrets
    /\ mstate' = "Starting" /\ startup' = "running"
    /\ issued' = issued + 1
    /\ op' = [Idle EXCEPT !.kind = "start", !.step = "server", !.secret = issued + 1]
    /\ UNCHANGED <<msecret, mserver, shutdown, asked, warning>>
    /\ UNCHANGED <<starts, secretOf, public, tunnels, tunnelDone, cancelled>>
    /\ UNCHANGED <<setVars, connVars, viewVars, hist>>

\* failStart and the deferred end of start: a canceled start is Stopped.
FailStart ==
    /\ mstate' \in {"Stopped", "Failed"}
    /\ startup' = "none"
    /\ op' = Idle
    /\ UNCHANGED <<msecret, mserver, shutdown, asked, warning>>
    /\ UNCHANGED <<retired, result, broken>>

\* startServer; its context is already done when Shutdown canceled the startup.
StartServer ==
    /\ op.step = "server"
    /\ starts' = starts + 1
    /\ secretOf' = [secretOf EXCEPT ![starts + 1] = op.secret]
    /\ cancelled' = IF startup = "canceled" THEN cancelled \cup {starts + 1} ELSE cancelled
    /\ op' = [op EXCEPT !.step = "tunnel", !.srv = starts + 1]
    /\ UNCHANGED <<issued, public, tunnels, tunnelDone>>
    /\ UNCHANGED <<mgrVars, setVars, connVars, viewVars, hist>>

StartServerFails ==
    /\ op.step = "server"
    /\ FailStart
    /\ UNCHANGED <<overdue, setVars, srvVars, connVars, viewVars>>

\* startTunnel, PairingURL, TerminalQR, SetPublicHost.
StartTunnel ==
    /\ op.step = "tunnel"
    /\ tunnels' = tunnels \cup {op.srv} /\ public' = public \cup {op.srv}
    /\ op' = [op EXCEPT !.step = "commit"]
    /\ UNCHANGED <<issued, starts, secretOf, tunnelDone, cancelled>>
    /\ UNCHANGED <<mgrVars, setVars, connVars, viewVars, hist>>

\* The tunnel, the link or the QR code failed: the server is closed again.
StartTunnelFails ==
    /\ op.step = "tunnel"
    /\ op' = [op EXCEPT !.step = "partial"]
    /\ UNCHANGED <<mgrVars, setVars, srvVars, connVars, viewVars, hist>>

StartupCanceled == startup = "canceled" \/ asked

\* The caller's own context may also have been canceled.
StartCanceled ==
    /\ op.step = "commit"
    /\ startup' = "none"
    /\ tunnels' = tunnels \ {op.srv} /\ tunnelDone' = tunnelDone \ {op.srv}
    /\ op' = [op EXCEPT !.step = "partial"]
    /\ UNCHANGED <<mstate, msecret, mserver, shutdown, asked, warning>>
    /\ UNCHANGED <<issued, starts, secretOf, public, cancelled>>
    /\ UNCHANGED <<setVars, connVars, viewVars, hist>>

StartCommit ==
    /\ op.step = "commit" /\ ~StartupCanceled
    /\ mstate' = "Ready" /\ msecret' = op.secret /\ mserver' = op.srv
    /\ startup' = "none"
    /\ op' = Idle
    /\ UNCHANGED <<shutdown, asked, warning>>
    /\ UNCHANGED <<setVars, srvVars, connVars, viewVars, hist>>

\* closePartialServer up to the wait for the handlers.
StartClosePartial ==
    /\ op.step = "partial"
    /\ cancelled' = cancelled \cup {op.srv}
    /\ op' = [op EXCEPT !.step = "drain"]
    /\ UNCHANGED <<issued, starts, secretOf, public, tunnels, tunnelDone>>
    /\ UNCHANGED <<mgrVars, setVars, connVars, viewVars, hist>>

-----------------------------------------------------------------------------
(***************************************************************************)
(* Manager.Rotate.                                                         *)
(***************************************************************************)
RotateBegin ==
    /\ OpFree /\ mstate = "Ready" /\ mserver # 0
    /\ issued < MaxSecrets
    /\ issued' = issued + 1
    /\ op' = [Idle EXCEPT !.kind = "rotate", !.step = "rotate",
                          !.secret = issued + 1, !.srv = mserver]
    /\ UNCHANGED <<starts, secretOf, public, tunnels, tunnelDone, cancelled>>
    /\ UNCHANGED <<mgrVars, setVars, connVars, viewVars, hist>>

\* m.mu is taken; SetSecret swaps the secret and lists the connections.
RotateSetSecret ==
    /\ op.step = "rotate"
    /\ secretOf' = [secretOf EXCEPT ![op.srv] = op.secret]
    /\ op' = [op EXCEPT !.step = "cut",
                        !.tell = {c \in connections : srv[c] = op.srv}]
    /\ UNCHANGED <<issued, starts, public, tunnels, tunnelDone, cancelled>>
    /\ UNCHANGED <<mgrVars, setVars, connVars, viewVars, hist>>

\* Mutant: SetSecret forgets to close the connections it listed.
RotateCutNothing(c) ==
    /\ op.step = "cut" /\ c \in op.tell
    /\ op' = [op EXCEPT !.tell = @ \ {c}]
    /\ UNCHANGED <<mgrVars, setVars, srvVars, connVars, viewVars, hist>>

\* SetSecret closes the listed connections one by one.
RotateCut(c) ==
    /\ op.step = "cut" /\ c \in op.tell
    /\ qclosed' = qclosed \cup {c}
    /\ op' = [op EXCEPT !.tell = @ \ {c}]
    /\ UNCHANGED <<pc, srv, cred, hsHeld, slotHeld, connections, told, vopen>>
    /\ UNCHANGED <<mgrVars, setVars, srvVars, viewVars, hist>>

RotateCutDone ==
    /\ op.step = "cut" /\ op.tell = {}
    /\ op' = [op EXCEPT !.step = "detach"]
    /\ UNCHANGED <<mgrVars, setVars, srvVars, connVars, viewVars, hist>>

\* The new link is published and m.mu released.
RotateDetach ==
    /\ op.step = "detach"
    /\ msecret' = op.secret
    /\ Detach
    /\ op' = [op EXCEPT !.step = "viewers", !.pend = Attached]
    /\ UNCHANGED <<mstate, mserver, startup, shutdown, asked, warning>>
    /\ UNCHANGED <<pc, srv, cred, hsHeld, slotHeld, connections, qclosed, told>>
    /\ UNCHANGED <<srvVars, viewVars, hist>>

RotateEnd ==
    /\ op.step = "warn"
    /\ warning' = op.err
    /\ retired' = op.secret - 1
    /\ op' = Idle
    /\ UNCHANGED <<mstate, msecret, mserver, startup, shutdown, asked>>
    /\ UNCHANGED <<result, overdue, broken>>
    /\ UNCHANGED <<setVars, srvVars, connVars, viewVars>>

-----------------------------------------------------------------------------
(***************************************************************************)
(* Manager.Shutdown, watchTunnel and managerCleanup.close.                 *)
(***************************************************************************)
ShutdownAsk ==
    /\ MuFree /\ ~asked
    /\ asked' = TRUE
    /\ startup' = IF startup = "running" THEN "canceled" ELSE startup
    /\ cancelled' = IF startup = "running" /\ op.srv # 0
                    THEN cancelled \cup {op.srv} ELSE cancelled
    /\ UNCHANGED <<mstate, msecret, mserver, shutdown, warning>>
    /\ UNCHANGED <<issued, starts, secretOf, public, tunnels, tunnelDone>>
    /\ UNCHANGED <<setVars, connVars, viewVars, opVars>>

\* Mutant: the clients are listed after detachClientsLocked emptied the map.
ClientsListedLate == {}

\* The clients clearLocked hands to closeClients: listed before it detaches.
ClientsToTell == clients

ClearLocked(kind, state) ==
    /\ op' = [kind |-> kind, step |-> "viewers", secret |-> msecret,
              srv |-> mserver, pend |-> Attached, at |-> {},
              tell |-> ClientsToTell, err |-> FALSE]
    /\ Detach
    /\ mserver' = 0 /\ msecret' = 0 /\ warning' = FALSE /\ mstate' = state
    /\ UNCHANGED <<startup, asked>>
    /\ UNCHANGED <<pc, srv, cred, hsHeld, slotHeld, connections, qclosed, told>>

ShutdownClear ==
    /\ OpFree /\ asked /\ ~shutdown
    /\ shutdown' = TRUE
    /\ ClearLocked("shutdown", "Stopped")
    /\ UNCHANGED <<srvVars, viewVars, hist>>

\* cloudflared exits by itself: wait() puts the error on the done channel.
TunnelExit(s) ==
    /\ s \in tunnels
    /\ tunnels' = tunnels \ {s} /\ tunnelDone' = tunnelDone \cup {s}
    /\ UNCHANGED <<issued, starts, secretOf, public, cancelled>>
    /\ UNCHANGED <<mgrVars, setVars, connVars, viewVars, opVars>>

\* watchTunnel runs only for a started tunnel and acts only on the current one.
WatchTunnel(s) ==
    /\ OpFree /\ s \in tunnelDone
    /\ tunnelDone' = tunnelDone \ {s}
    /\ IF mserver # s \/ shutdown
       THEN UNCHANGED <<mgrVars, setVars, connVars, op>>
       ELSE ClearLocked("tunnel", "Failed") /\ UNCHANGED shutdown
    /\ UNCHANGED <<issued, starts, secretOf, public, tunnels, cancelled>>
    /\ UNCHANGED <<viewVars, hist>>

\* closeViewers: one viewer.Close after the other, each waited for.
OpTerminate(c) ==
    /\ op.step = "viewers" /\ op.at = {} /\ c \in op.pend
    /\ viewer' = [viewer EXCEPT ![c] = IF @ = "live" THEN "dying" ELSE @]
    /\ op' = [op EXCEPT !.pend = @ \ {c}, !.at = {c}]
    /\ UNCHANGED <<verr, watch, unrestored>>
    /\ UNCHANGED <<mgrVars, setVars, srvVars, connVars, hist>>

OpViewerClosed(c) ==
    /\ op.step = "viewers" /\ c \in op.at /\ viewer[c] = "finished"
    /\ op' = [op EXCEPT !.at = {}, !.err = @ \/ c \in verr]
    /\ UNCHANGED <<mgrVars, setVars, srvVars, connVars, viewVars, hist>>

\* Mutant: cleanup goes on without waiting for the viewers.
OpViewersNotAwaited ==
    /\ op.step = "viewers"
    /\ op' = [op EXCEPT !.step = "factory"]
    /\ UNCHANGED <<mgrVars, setVars, srvVars, connVars, viewVars, hist>>

OpViewersDone ==
    /\ op.step = "viewers" /\ op.at = {} /\ op.pend = {}
    /\ op' = [op EXCEPT !.step = "factory"]
    /\ UNCHANGED <<mgrVars, setVars, srvVars, connVars, viewVars, hist>>

\* cleanupViewerFactory retries a restoration that failed earlier.
OpFactory(failed) ==
    /\ op.step = "factory"
    /\ failed => PinOutstanding
    /\ unrestored' = IF PinOutstanding THEN failed ELSE unrestored
    /\ op' = [op EXCEPT !.step = IF op.kind = "rotate" THEN "warn" ELSE "clients",
                        !.err = @ \/ failed]
    /\ UNCHANGED <<viewer, verr, watch>>
    /\ UNCHANGED <<mgrVars, setVars, srvVars, connVars, hist>>

\* closeClients: queue TagShutdown, wait for the writer or a second, close.
OpTell(c) ==
    /\ op.step = "clients" /\ c \in op.tell
    /\ told' = told \cup ({c} \ qclosed)
    /\ qclosed' = qclosed \cup {c}
    /\ op' = [op EXCEPT !.tell = @ \ {c}, !.err = @ \/ c \in qclosed]
    /\ UNCHANGED <<pc, srv, cred, hsHeld, slotHeld, connections, vopen>>
    /\ UNCHANGED <<mgrVars, setVars, srvVars, viewVars, hist>>

OpTellDone ==
    /\ op.step = "clients" /\ op.tell = {}
    /\ op' = [op EXCEPT !.step = "close"]
    /\ UNCHANGED <<mgrVars, setVars, srvVars, connVars, viewVars, hist>>

\* tunnel.Close, then server.Close up to the wait for the handlers.
OpClose ==
    /\ op.step = "close"
    /\ tunnels' = tunnels \ {op.srv} /\ tunnelDone' = tunnelDone \ {op.srv}
    /\ cancelled' = cancelled \cup ({op.srv} \ {0})
    /\ op' = [op EXCEPT !.step = "drain"]
    /\ UNCHANGED <<issued, starts, secretOf, public>>
    /\ UNCHANGED <<mgrVars, setVars, connVars, viewVars, hist>>

\* websocketHandlers.Wait returned, or the cleanup context ran out.
OpDrained(timedOut) ==
    /\ op.step = "drain"
    /\ timedOut \/ HandlersGone(op.srv) \/ op.srv = 0
    /\ timedOut => op.srv # 0
    /\ overdue' = IF timedOut THEN overdue \cup {op.srv} ELSE overdue
    /\ IF op.kind = "start"
       THEN FailStart
       ELSE /\ op' = Idle
            /\ retired' = IF op.srv = 0 THEN retired ELSE op.secret
            /\ result' = IF op.kind # "shutdown" THEN result
                         ELSE IF op.err \/ timedOut THEN "error" ELSE "ok"
            /\ UNCHANGED <<mgrVars, broken>>
    /\ UNCHANGED <<setVars, srvVars, connVars, viewVars>>

-----------------------------------------------------------------------------
(***************************************************************************)
(* LocalServer.handleWebSocket up to Manager.Connected.                    *)
(***************************************************************************)
\* A request turned away here (busy, starting, origin) changes nothing.
Accept(c, s) ==
    /\ pc[c] = "idle" /\ s <= starts /\ s \notin cancelled /\ s \in public
    /\ Cardinality({d \in hsHeld : srv[d] = s}) < MaxHandshakes
    /\ hsHeld' = hsHeld \cup {c}
    /\ srv' = [srv EXCEPT ![c] = s]
    /\ cred' = [cred EXCEPT ![c] = secretOf[s]]
    /\ Goto(c, "auth")
    /\ UNCHANGED <<slotHeld, connections, qclosed, told, vopen>>
    /\ UNCHANGED <<mgrVars, setVars, srvVars, viewVars, opVars>>

\* authenticateClient succeeded; the handshake slot is traded for a client slot.
Authenticate(c) ==
    /\ pc[c] = "auth" /\ srv[c] \notin cancelled
    /\ hsHeld' = hsHeld \ {c}
    /\ IF Cardinality({d \in slotHeld : srv[d] = srv[c]}) < MaxClients
       THEN slotHeld' = slotHeld \cup {c} /\ Goto(c, "check")
       ELSE Goto(c, "done") /\ UNCHANGED slotHeld
    /\ UNCHANGED <<srv, cred, connections, qclosed, told, vopen>>
    /\ UNCHANGED <<mgrVars, setVars, srvVars, viewVars, opVars>>

\* Wrong key, malformed hello, five seconds gone or the server is closing.
AuthenticateFails(c) ==
    /\ pc[c] = "auth"
    /\ hsHeld' = hsHeld \ {c}
    /\ Goto(c, "done")
    /\ UNCHANGED <<srv, cred, slotHeld, connections, qclosed, told, vopen>>
    /\ UNCHANGED <<mgrVars, setVars, srvVars, viewVars, opVars>>

\* Under s.mu: the credential must still be the one the handshake used.
Register(c) ==
    /\ pc[c] = "check"
    /\ IF CredentialCurrent(c)
       THEN connections' = connections \cup {c} /\ Goto(c, "registered") /\ UNCHANGED slotHeld
       ELSE slotHeld' = slotHeld \ {c} /\ Goto(c, "done") /\ UNCHANGED connections
    /\ UNCHANGED <<srv, cred, hsHeld, qclosed, told, vopen>>
    /\ UNCHANGED <<mgrVars, setVars, srvVars, viewVars, opVars>>

-----------------------------------------------------------------------------
(***************************************************************************)
(* Manager.Connected and Manager.open.                                     *)
(***************************************************************************)
Connected(c) ==
    /\ pc[c] = "registered" /\ MuFree
    /\ IF Serving
       THEN clients' = clients \cup {c} /\ vopen' = vopen \cup {c} /\ Goto(c, "prepare")
       ELSE Goto(c, "refuse") /\ UNCHANGED <<clients, vopen>>
    /\ UNCHANGED <<active, opening, withViewer>>
    /\ UNCHANGED <<srv, cred, hsHeld, slotHeld, connections, qclosed, told>>
    /\ UNCHANGED <<mgrVars, srvVars, viewVars, opVars>>

\* Prepare pins the window, or joins the pin that is there.
Prepare(c) ==
    /\ pc[c] = "prepare"
    /\ viewer' = [viewer EXCEPT ![c] = "prepared"]
    /\ unrestored' = FALSE
    /\ Goto(c, "reserve")
    /\ UNCHANGED <<verr, watch>>
    /\ UNCHANGED <<srv, cred, hsHeld, slotHeld, connections, qclosed, told, vopen>>
    /\ UNCHANGED <<mgrVars, setVars, srvVars, opVars>>

PrepareFails(c) ==
    /\ pc[c] = "prepare"
    /\ vopen' = vopen \ {c}
    /\ Goto(c, "refuse")
    /\ UNCHANGED <<srv, cred, hsHeld, slotHeld, connections, qclosed, told>>
    /\ UNCHANGED <<mgrVars, setVars, srvVars, viewVars, opVars>>

\* The first critical section of open: reserve, and queue TagReady.
Reserve(c) ==
    /\ pc[c] = "reserve" /\ MuFree
    /\ IF c \in clients /\ c \notin active \cup opening /\ Serving /\ CanSend(c)
       THEN opening' = opening \cup {c} /\ Goto(c, "start")
       ELSE Goto(c, "abandon") /\ UNCHANGED opening
    /\ UNCHANGED <<clients, active, withViewer>>
    /\ UNCHANGED <<srv, cred, hsHeld, slotHeld, connections, qclosed, told, vopen>>
    /\ UNCHANGED <<mgrVars, srvVars, viewVars, opVars>>

\* prepared.Close(), whose error is dropped.
Abandon(c, failed) ==
    /\ pc[c] = "abandon"
    /\ ReleasePin(c, failed)
    /\ vopen' = vopen \ {c}
    /\ Goto(c, "refuse")
    /\ UNCHANGED <<verr, watch>>
    /\ UNCHANGED <<srv, cred, hsHeld, slotHeld, connections, qclosed, told>>
    /\ UNCHANGED <<mgrVars, setVars, srvVars, opVars>>

\* prepared.Start(): the tmux client runs and shows the pinned geometry.
StartViewer(c) ==
    /\ pc[c] = "start"
    /\ viewer' = [viewer EXCEPT ![c] = "live"]
    /\ Goto(c, "bind")
    /\ UNCHANGED <<verr, watch, unrestored>>
    /\ UNCHANGED <<srv, cred, hsHeld, slotHeld, connections, qclosed, told, vopen>>
    /\ UNCHANGED <<mgrVars, setVars, srvVars, opVars>>

StartViewerFails(c, failed) ==
    /\ pc[c] = "start"
    /\ ReleasePin(c, failed)
    /\ Goto(c, "unreserve")
    /\ UNCHANGED <<verr, watch>>
    /\ UNCHANGED <<srv, cred, hsHeld, slotHeld, connections, qclosed, told, vopen>>
    /\ UNCHANGED <<mgrVars, setVars, srvVars, opVars>>

RemoveOpening(c) ==
    /\ pc[c] = "unreserve" /\ MuFree
    /\ opening' = opening \ {c} /\ withViewer' = withViewer \ {c}
    /\ vopen' = vopen \ {c}
    /\ Goto(c, "refuse")
    /\ UNCHANGED <<clients, active>>
    /\ UNCHANGED <<srv, cred, hsHeld, slotHeld, connections, qclosed, told>>
    /\ UNCHANGED <<mgrVars, srvVars, viewVars, opVars>>

\* The second critical section of open: hand the viewer to the reservation.
BindViewer(c) ==
    /\ pc[c] = "bind" /\ MuFree
    /\ IF c \in opening
       THEN withViewer' = withViewer \cup {c} /\ Goto(c, "activate")
       ELSE Goto(c, "discard") /\ UNCHANGED withViewer
    /\ UNCHANGED <<clients, active, opening>>
    /\ UNCHANGED <<srv, cred, hsHeld, slotHeld, connections, qclosed, told, vopen>>
    /\ UNCHANGED <<mgrVars, srvVars, viewVars, opVars>>

\* What the third critical section of open asks before the viewer is active.
StillReserved(c) == c \in opening

\* The third critical section of open, and go watchViewer.
Activate(c) ==
    /\ pc[c] = "activate" /\ MuFree
    /\ opening' = opening \ {c} /\ withViewer' = withViewer \ {c}
    /\ IF StillReserved(c) /\ c \in clients /\ c \notin active /\ Serving
       THEN /\ active' = active \cup {c} /\ Goto(c, "run")
            /\ watch' = [watch EXCEPT ![c] = "waiting"]
       ELSE Goto(c, "discard") /\ UNCHANGED <<active, watch>>
    /\ UNCHANGED <<clients, viewer, verr, unrestored>>
    /\ UNCHANGED <<srv, cred, hsHeld, slotHeld, connections, qclosed, told, vopen>>
    /\ UNCHANGED <<mgrVars, srvVars, opVars>>

-----------------------------------------------------------------------------
(***************************************************************************)
(* viewer.Close from the connection's own goroutine: terminate, then wait. *)
(***************************************************************************)
\* Mutant: Disconnected waits for the viewer without terminating it.
TerminateOnCloseOnly(c) ==
    /\ pc[c] \in {"discard", "closing"} /\ viewer[c] = "live"
    /\ viewer' = [viewer EXCEPT ![c] = "dying"]
    /\ UNCHANGED <<verr, watch, unrestored>>
    /\ UNCHANGED <<mgrVars, setVars, srvVars, connVars, opVars>>

Terminate(c) ==
    /\ pc[c] \in {"discard", "closing", "leaving"} /\ viewer[c] = "live"
    /\ viewer' = [viewer EXCEPT ![c] = "dying"]
    /\ UNCHANGED <<verr, watch, unrestored>>
    /\ UNCHANGED <<mgrVars, setVars, srvVars, connVars, opVars>>

\* open gave the viewer up; its result is dropped.
Discarded(c) ==
    /\ pc[c] = "discard" /\ viewer[c] = "finished"
    /\ vopen' = vopen \ {c}
    /\ Goto(c, "refuse")
    /\ UNCHANGED <<srv, cred, hsHeld, slotHeld, connections, qclosed, told>>
    /\ UNCHANGED <<mgrVars, setVars, srvVars, viewVars, opVars>>

\* recordViewerCleanupFailure.
RecordFailure(c) ==
    /\ warning' = (warning \/ c \in verr)
    /\ UNCHANGED <<mstate, msecret, mserver, startup, shutdown, asked>>

\* Manager.Close returned to dispatch.
Closed(c) ==
    /\ pc[c] = "closing" /\ viewer[c] = "finished" /\ MuFree
    /\ RecordFailure(c)
    /\ IF c \in verr /\ c \in vopen
       THEN qclosed' = qclosed \cup {c} /\ Goto(c, "disconnect") /\ UNCHANGED vopen
       ELSE vopen' = vopen \ {c} /\ Goto(c, "ack") /\ UNCHANGED qclosed
    /\ UNCHANGED <<srv, cred, hsHeld, slotHeld, connections, told>>
    /\ UNCHANGED <<setVars, srvVars, viewVars, opVars>>

\* The viewer Disconnected took has ended.
Left(c) ==
    /\ pc[c] = "leaving" /\ viewer[c] = "finished" /\ MuFree
    /\ RecordFailure(c)
    /\ Goto(c, "exit")
    /\ UNCHANGED <<srv, cred, hsHeld, slotHeld, connections, qclosed, told, vopen>>
    /\ UNCHANGED <<setVars, srvVars, viewVars, opVars>>

-----------------------------------------------------------------------------
(***************************************************************************)
(* Client.run and dispatch.                                                *)
(***************************************************************************)
\* Connected failed: TagError is queued and the connection closed.
Refuse(c) ==
    /\ pc[c] = "refuse"
    /\ qclosed' = qclosed \cup {c}
    /\ Goto(c, "disconnect")
    /\ UNCHANGED <<srv, cred, hsHeld, slotHeld, connections, told, vopen>>
    /\ UNCHANGED <<mgrVars, setVars, srvVars, viewVars, opVars>>

RecvInput(c) ==
    /\ pc[c] = "run" /\ c \notin qclosed /\ c \in vopen
    /\ Goto(c, "input")
    /\ UNCHANGED <<srv, cred, hsHeld, slotHeld, connections, qclosed, told, vopen>>
    /\ UNCHANGED <<mgrVars, setVars, srvVars, viewVars, opVars>>

\* An error of dispatch ends run; one met with the viewer marked closed does not.
DispatchError(c) ==
    IF c \in vopen
    THEN qclosed' = qclosed \cup {c} /\ Goto(c, "disconnect")
    ELSE Goto(c, "run") /\ UNCHANGED qclosed

\* Manager.Input looks the viewer up and lets go of m.mu before it writes.
InputLookup(c) ==
    /\ pc[c] = "input" /\ MuFree
    /\ IF c \in active THEN Goto(c, "write") /\ UNCHANGED qclosed ELSE DispatchError(c)
    /\ UNCHANGED <<srv, cred, hsHeld, slotHeld, connections, told, vopen>>
    /\ UNCHANGED <<mgrVars, setVars, srvVars, viewVars, opVars>>

\* The keystrokes reach the terminal.
InputWritten(c) ==
    /\ pc[c] = "write" /\ viewer[c] = "live"
    /\ Goto(c, "run")
    /\ UNCHANGED <<srv, cred, hsHeld, slotHeld, connections, qclosed, told, vopen>>
    /\ UNCHANGED <<mgrVars, setVars, srvVars, viewVars, opVars>>

\* The PTY is closed or its process gone.
InputRejected(c) ==
    /\ pc[c] = "write" /\ viewer[c] # "live"
    /\ DispatchError(c)
    /\ UNCHANGED <<srv, cred, hsHeld, slotHeld, connections, told, vopen>>
    /\ UNCHANGED <<mgrVars, setVars, srvVars, viewVars, opVars>>

RecvClose(c) ==
    /\ pc[c] = "run" /\ c \notin qclosed
    /\ Goto(c, IF c \in vopen THEN "close" ELSE "ack")
    /\ UNCHANGED <<srv, cred, hsHeld, slotHeld, connections, qclosed, told, vopen>>
    /\ UNCHANGED <<mgrVars, setVars, srvVars, viewVars, opVars>>

\* Manager.Close: take the viewer, if there is one, out of the maps.
ManagerClose(c) ==
    /\ pc[c] = "close" /\ MuFree
    /\ active' = active \ {c} /\ opening' = opening \ {c}
    /\ withViewer' = withViewer \ {c}
    /\ IF c \in Attached
       THEN Goto(c, "closing") /\ UNCHANGED vopen
       ELSE Goto(c, "ack") /\ vopen' = vopen \ {c}
    /\ UNCHANGED <<clients, srv, cred, hsHeld, slotHeld, connections, qclosed, told>>
    /\ UNCHANGED <<mgrVars, srvVars, viewVars, opVars>>

\* sendCloseAcknowledgement closes the connection after its frame.
Acknowledge(c) ==
    /\ pc[c] = "ack"
    /\ qclosed' = qclosed \cup {c}
    /\ Goto(c, "disconnect")
    /\ UNCHANGED <<srv, cred, hsHeld, slotHeld, connections, told, vopen>>
    /\ UNCHANGED <<mgrVars, setVars, srvVars, viewVars, opVars>>

\* The browser leaves or sends a frame that ends the connection.
PeerLeaves(c) ==
    /\ pc[c] = "run"
    /\ qclosed' = qclosed \cup {c}
    /\ Goto(c, "disconnect")
    /\ UNCHANGED <<srv, cred, hsHeld, slotHeld, connections, told, vopen>>
    /\ UNCHANGED <<mgrVars, setVars, srvVars, viewVars, opVars>>

\* Read fails because this side closed the socket or the server's context.
ReadFails(c) == ~CanSend(c) /\ PeerLeaves(c)

\* Manager.Disconnected: take the viewer, if there is one, out of the maps.
Disconnected(c) ==
    /\ pc[c] = "disconnect" /\ MuFree
    /\ clients' = clients \ {c} /\ active' = active \ {c}
    /\ opening' = opening \ {c} /\ withViewer' = withViewer \ {c}
    /\ Goto(c, IF c \in Attached THEN "leaving" ELSE "exit")
    /\ UNCHANGED <<srv, cred, hsHeld, slotHeld, connections, qclosed, told, vopen>>
    /\ UNCHANGED <<mgrVars, srvVars, viewVars, opVars>>

\* The deferred end of handleWebSocket.
Exit(c) ==
    /\ pc[c] = "exit"
    /\ connections' = connections \ {c} /\ slotHeld' = slotHeld \ {c}
    /\ Goto(c, "done")
    /\ UNCHANGED <<srv, cred, hsHeld, qclosed, told, vopen>>
    /\ UNCHANGED <<mgrVars, setVars, srvVars, viewVars, opVars>>

\* Where a handler may be while the queue TagReady opened fails behind its back.
Attended == {"start", "unreserve", "bind", "activate", "discard", "run", "input",
             "write", "close", "closing", "ack"}

\* closeNow from another goroutine than the handler's: output, or the last frame
\* of closeClients, overflows the queue, or the writer cannot write to the socket.
QueueFails(c) ==
    /\ pc[c] \in Attended /\ c \notin qclosed
    /\ qclosed' = qclosed \cup {c} /\ broken' = broken \cup {c}
    /\ UNCHANGED <<pc, srv, cred, hsHeld, slotHeld, connections, told, vopen>>
    /\ UNCHANGED <<op, retired, result, overdue>>
    /\ UNCHANGED <<mgrVars, setVars, srvVars, viewVars>>

-----------------------------------------------------------------------------
(***************************************************************************)
(* ptyViewer.run and Manager.watchViewer.                                  *)
(***************************************************************************)
\* The tmux client ends by itself, output could not be queued (QueueFails), or
\* the server's context is done.
ViewerEnds(c) ==
    /\ viewer[c] = "live"
    /\ viewer' = [viewer EXCEPT ![c] = "dying"]
    /\ UNCHANGED <<verr, watch, unrestored>>
    /\ UNCHANGED <<mgrVars, setVars, srvVars, connVars, opVars>>

\* The process is reaped and the pin released; the result is an error when the
\* restore failed and may be one for other reasons.
ViewerFinish(c, failed, error) ==
    /\ viewer[c] = "dying"
    /\ failed => error
    /\ ReleasePin(c, failed)
    /\ verr' = IF error THEN verr \cup {c} ELSE verr
    /\ UNCHANGED watch
    /\ UNCHANGED <<mgrVars, setVars, srvVars, connVars, opVars>>

WatchViewer(c) ==
    /\ watch[c] = "waiting" /\ viewer[c] = "finished" /\ MuFree
    /\ watch' = [watch EXCEPT ![c] = "done"]
    /\ IF c \in active
       THEN /\ active' = active \ {c} /\ vopen' = vopen \ {c}
            /\ RecordFailure(c)
       ELSE UNCHANGED <<active, vopen, mgrVars>>
    /\ UNCHANGED <<clients, opening, withViewer, viewer, verr, unrestored>>
    /\ UNCHANGED <<pc, srv, cred, hsHeld, slotHeld, connections, qclosed, told>>
    /\ UNCHANGED <<srvVars, opVars>>

-----------------------------------------------------------------------------
\* Everything has ended and nothing is left to do.
Terminated ==
    /\ shutdown /\ OpFree
    /\ \A c \in Clients : pc[c] \in {"idle", "done"} /\ viewer[c] \in {"none", "finished"}
    /\ UNCHANGED vars

ManagerStep ==
    \/ StartBegin \/ StartServer \/ StartServerFails \/ StartTunnel
    \/ StartTunnelFails \/ StartCanceled \/ StartCommit \/ StartClosePartial
    \/ RotateBegin \/ RotateSetSecret \/ RotateCutDone \/ RotateDetach \/ RotateEnd
    \/ ShutdownAsk \/ ShutdownClear
    \/ OpViewersDone \/ OpTellDone \/ OpClose
    \/ \E s \in Servers : TunnelExit(s) \/ WatchTunnel(s)
    \/ \E failed \in BOOLEAN : OpFactory(failed)
    \/ \E timedOut \in BOOLEAN : OpDrained(timedOut)

ClientStep(c) ==
    \/ RotateCut(c) \/ OpTerminate(c) \/ OpViewerClosed(c) \/ OpTell(c)
    \/ \E s \in Servers : Accept(c, s)
    \/ Authenticate(c) \/ AuthenticateFails(c) \/ Register(c)
    \/ Connected(c) \/ Prepare(c) \/ PrepareFails(c) \/ Reserve(c)
    \/ \E failed \in BOOLEAN : Abandon(c, failed) \/ StartViewerFails(c, failed)
    \/ StartViewer(c) \/ RemoveOpening(c) \/ BindViewer(c) \/ Activate(c)
    \/ Terminate(c) \/ Discarded(c) \/ Closed(c) \/ Left(c)
    \/ Refuse(c) \/ RecvInput(c) \/ InputLookup(c) \/ InputWritten(c)
    \/ InputRejected(c) \/ RecvClose(c) \/ ManagerClose(c) \/ Acknowledge(c)
    \/ PeerLeaves(c) \/ QueueFails(c) \/ Disconnected(c) \/ Exit(c)
    \/ ViewerEnds(c) \/ WatchViewer(c)
    \/ \E failed, error \in BOOLEAN : ViewerFinish(c, failed, error)

Next == ManagerStep \/ (\E c \in Clients : ClientStep(c)) \/ Terminated

Spec == Init /\ [][Next]_vars

\* The Go scheduler runs every goroutine that can run; tmux answers and reaped
\* processes end; handshakes, writes and cleanups are bounded by timeouts.  What
\* a browser, a user, cloudflared or a caller of the Manager may do is not fair.
Fairness ==
    /\ WF_vars(StartServer \/ StartServerFails) /\ WF_vars(StartTunnel \/ StartTunnelFails)
    /\ WF_vars(StartCanceled \/ StartCommit) /\ WF_vars(StartClosePartial)
    /\ WF_vars(RotateSetSecret) /\ WF_vars(RotateCutDone) /\ WF_vars(RotateDetach)
    /\ WF_vars(RotateEnd) /\ WF_vars(ShutdownClear)
    /\ WF_vars(OpViewersDone) /\ WF_vars(OpTellDone) /\ WF_vars(OpClose)
    /\ WF_vars(\E failed \in BOOLEAN : OpFactory(failed))
    /\ WF_vars(OpDrained(FALSE))
    /\ \A c \in Clients :
        /\ WF_vars(RotateCut(c)) /\ WF_vars(OpTerminate(c))
        /\ WF_vars(OpViewerClosed(c)) /\ WF_vars(OpTell(c))
        /\ WF_vars(Authenticate(c) \/ AuthenticateFails(c)) /\ WF_vars(Register(c))
        /\ WF_vars(Connected(c)) /\ WF_vars(Prepare(c) \/ PrepareFails(c))
        /\ WF_vars(Reserve(c)) /\ WF_vars(\E failed \in BOOLEAN : Abandon(c, failed))
        /\ WF_vars(StartViewer(c) \/ \E failed \in BOOLEAN : StartViewerFails(c, failed))
        /\ WF_vars(RemoveOpening(c)) /\ WF_vars(BindViewer(c)) /\ WF_vars(Activate(c))
        /\ WF_vars(Terminate(c)) /\ WF_vars(Discarded(c)) /\ WF_vars(Closed(c))
        /\ WF_vars(Left(c)) /\ WF_vars(Refuse(c)) /\ WF_vars(InputLookup(c))
        /\ WF_vars(InputWritten(c) \/ InputRejected(c)) /\ WF_vars(ManagerClose(c))
        /\ WF_vars(Acknowledge(c)) /\ WF_vars(ReadFails(c)) /\ WF_vars(Disconnected(c))
        /\ WF_vars(Exit(c)) /\ WF_vars(WatchViewer(c))
        /\ WF_vars(\E failed, error \in BOOLEAN : ViewerFinish(c, failed, error))

FairSpec == Spec /\ Fairness

-----------------------------------------------------------------------------
(***************************************************************************)
(* Properties.                                                             *)
(***************************************************************************)
\* Whenever m.mu is free, every connection that has a terminal, or has one
\* reserved, authenticated with the credential whose link is shown now, and on
\* the server that is running now: Rotate, Shutdown and a tunnel exit leave no
\* open() in any stage behind that could still end with a revoked terminal.
NoRevokedSession ==
    MuFree => \A c \in active \cup opening :
                /\ cred[c] = msecret /\ srv[c] = mserver
                /\ msecret # 0 /\ mstate = "Ready"

\* Manager.Input writes after it let go of m.mu.  Once Rotate, Shutdown or the
\* tunnel watcher is through, no such write can reach the terminal any more.
NoRevokedInput ==
    \A c \in Clients : pc[c] = "write" /\ viewer[c] = "live" => cred[c] > retired

\* Every viewer that is prepared or runs is in somebody's hands: in the map of
\* active viewers, in the operation that detached it, or in its own goroutine.
ViewersOwned ==
    \A c \in Clients : viewer[c] \in {"prepared", "live"} =>
        \/ c \in active
        \/ c \in op.pend \cup op.at
        \/ pc[c] \in {"reserve", "abandon", "start", "bind", "activate",
                      "discard", "closing", "leaving"}

\* Shutdown returned nil: no handler runs, no slot is held, no connection is
\* registered and no viewer holds a window pin, except for handlers an earlier
\* cleanup (a tunnel exit, a failed start) had already stopped waiting for.
CleanShutdown ==
    result = "ok" =>
        /\ \A c \in Clients : srv[c] \notin overdue =>
            /\ pc[c] \in {"idle", "done"} /\ ~HoldsPin(c)
            /\ c \notin connections \cup hsHeld \cup slotHeld
        /\ clients = {} /\ active = {} /\ opening = {}

\* A browser whose terminal was open when the mirror ended, and whose credential
\* was not rotated away, has TagShutdown in its queue before the server's context
\* goes.  Nothing can be said to one whose own queue overflowed, or whose socket
\* failed, before its turn came.
LastWord ==
    \A c \in Clients :
        pc[c] = "run" /\ srv[c] \in cancelled /\ CredentialCurrent(c)
            => c \in told \cup broken

\* After Shutdown is asked for, the mirror ends whatever it was doing: every
\* handler returns and every viewer is gone.
ShutdownCompletes ==
    asked ~> /\ shutdown /\ OpFree
             /\ \A c \in Clients : pc[c] \in {"idle", "done"} /\ ~HoldsPin(c)

\* A registered connection whose credential was replaced goes away by itself.
RevokedLeaves ==
    \A c \in Clients :
        (c \in connections /\ ~CredentialCurrent(c)) ~> c \notin connections

\* The mirror implements the pairing gate: its sessions are the active viewers.
Gate == INSTANCE PairingGate WITH
            Browsers <- Clients, inForce <- msecret, presented <- cred, sessions <- active

ImplementsGate == Gate!GateSpec

\* A warning that is up while the restoration of a window is outstanding stays
\* up when Rotate returns: "Cleanup failures ... must remain visible to callers".
CleanupFailureVisible ==
    [][op.step = "warn" /\ op' = Idle /\ warning /\ PinOutstanding => warning']_vars
=============================================================================
