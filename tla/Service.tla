------------------------------ MODULE Service ------------------------------
(***************************************************************************)
(* A worker from the resolution of its target to its end: the tmux target  *)
(* (target.go), the helper session (helper.go, tmux.go), the run loop and   *)
(* the deferred calls of Run (service.go), the control server as far as it  *)
(* ends the worker (control/server.go), the mirror's event channel          *)
(* (manager.go), and the cleanup after a worker that was killed.           *)
(*                                                                         *)
(* Every tmux command is one step of the tmux server; anything may happen   *)
(* between two of them.  A restarted server hands out the same session and  *)
(* window IDs again, so only the generation tells the two apart.           *)
(***************************************************************************)
EXTENDS Naturals, Sequences

CONSTANTS
    LastId,         \* sessions a tmux server creates: IDs 0 .. LastId
    Capacity,       \* of the mirror's event channel
    Snapshots,      \* bound on snapshots published outside opMu
    Mishaps         \* bound on faults and acts of the user, and on other Wrap commands

ASSUME ServiceAssumption ==
    /\ {LastId, Capacity} \subseteq Nat \ {0, 1}
    /\ {Snapshots, Mishaps} \subseteq Nat

VARIABLES
    gen,        \* generation option of the tmux server, 0: not set
    sess,       \* sessions of the tmux server
    next,       \* the ID of its next session
    selected,   \* the source session shows the target window
    table,      \* the helper's key table is bound
    coined,     \* history: generations that were installed
    pc,         \* where the worker is
    want,       \* generation of the worker's target, whose session is 0
    hid,        \* the helper's session ID
    kept,       \* cleanupErr: the record is kept for a later cleanup
    mirror,     \* the manager's state
    watch,      \* watchTunnel
    taken,      \* snapshots taken under the lock and not published yet
    events,     \* the event channel
    ctl,        \* the control server
    cancelled,  \* runCtx is done
    request,    \* a shutdown request
    janitor,    \* CleanupHelper, by whoever holds the lease after the worker
    jid,        \* the session it found
    spent, shots,
    reason,     \* history: why the loop ended
    cause,      \* history: the target, the helper or the server changed, or a check failed
    harmed,     \* history: a session of the user was changed
    lost,       \* history: CreateHelper failed and could not take its session back
    overtaken   \* history: an older snapshot displaced the failed one

tmuxVars  == <<gen, sess, next, selected, table, coined>>
helpVars  == <<want, hid, kept>>
mirVars   == <<mirror, watch, taken, events, shots, overtaken>>
ctlVars   == <<ctl, cancelled, request>>
janVars   == <<janitor, jid>>
histVars  == <<reason, cause, harmed, lost>>
vars == <<tmuxVars, pc, helpVars, mirVars, ctlVars, janVars, spent, histVars>>

Ids == 0..LastId
NoSession == [by |-> "none", name |-> "none", mark |-> FALSE, win |-> "none"]
UserSession == [by |-> "user", name |-> "other", mark |-> FALSE, win |-> "target"]
HelperSession ==
    [by |-> "wrap", name |-> "helper", mark |-> FALSE, win |-> "placeholder"]

Init ==
    /\ gen = 0 /\ next = 1 /\ selected = TRUE /\ table = FALSE /\ coined = 0
    /\ sess = [i \in Ids |-> IF i = 0 THEN UserSession ELSE NoSession]
    /\ pc = "ensure" /\ want = 0 /\ hid = 0 /\ kept = FALSE
    /\ mirror = "off" /\ watch = "idle" /\ taken = {} /\ events = <<>> /\ shots = 0
    /\ ctl = "off" /\ cancelled = FALSE /\ request = "none"
    /\ janitor = "idle" /\ jid = 0 /\ spent = 0
    /\ reason = "none" /\ cause = FALSE /\ harmed = FALSE /\ lost = FALSE
    /\ overtaken = FALSE

Mishap == spent < Mishaps /\ spent' = spent + 1
Goes(step) == pc' = step
Exists(i) == sess[i] # NoSession

-----------------------------------------------------------------------------
\* The tmux server and the user

\* The server ends with all its sessions, and another one starts with the user's session.
Restart ==
    /\ Mishap
    /\ gen' = 0 /\ next' = 1 /\ selected' = TRUE /\ table' = FALSE
    /\ sess' = [i \in Ids |-> IF i = 0 THEN UserSession ELSE NoSession]
    /\ cause' = TRUE
    /\ UNCHANGED <<coined, pc, helpVars, mirVars, ctlVars, janVars, reason, harmed, lost>>

\* The user opens a session of their own.
UserOpens ==
    /\ IF pc \in {"ensure", "read", "display", "create"} THEN next < LastId ELSE next <= LastId
    /\ Mishap
    /\ next' = next + 1
    /\ sess' = [sess EXCEPT ![next] = [UserSession EXCEPT !.win = "none"]]
    /\ UNCHANGED <<gen, selected, table, coined, pc, helpVars, mirVars, ctlVars, janVars, histVars>>

\* The user turns to another window, kills the source session, closes the target window,
\* or kills or renames the helper.
UserActs ==
    /\ Mishap
    /\ \/ selected /\ selected' = FALSE /\ UNCHANGED <<sess, cause>>
       \/ sess' = [sess EXCEPT ![0] = NoSession] /\ cause' = TRUE /\ UNCHANGED selected
       \/ /\ sess' = [i \in Ids |-> IF sess[i].win = "target" THEN NoSession ELSE sess[i]]
          /\ cause' = TRUE /\ UNCHANGED selected
       \/ /\ \E i \in Ids : sess[i].by = "wrap" /\
                \E s \in {NoSession, [sess[i] EXCEPT !.name = "other"]} :
                    sess' = [sess EXCEPT ![i] = s]
          /\ cause' = TRUE /\ UNCHANGED selected
    /\ UNCHANGED <<gen, next, table, coined, pc, helpVars, mirVars, ctlVars, janVars, reason,
                   harmed, lost>>

\* The command of the temporary window ends after five minutes.
PlaceholderEnds ==
    /\ \E i \in Ids : sess[i].win = "placeholder" /\ sess' = [sess EXCEPT ![i] = NoSession]
    /\ cause' = TRUE
    /\ UNCHANGED <<gen, next, selected, table, coined, pc, helpVars, mirVars, ctlVars, janVars,
                   spent, reason, harmed, lost>>

\* Mutant: the candidate is installed whatever the server has.
EnsureAlways == coined + 1

\* EnsureServerGeneration: the candidate is installed only where there is none.
EnsureServerGeneration == IF gen = 0 THEN coined + 1 ELSE gen

Identified ==
    /\ gen' = EnsureServerGeneration
    /\ coined' = IF gen' > coined THEN gen' ELSE coined

\* Another Wrap command resolves its target on this server.
OtherResolves ==
    /\ coined <= Mishaps
    /\ Identified
    /\ UNCHANGED <<sess, next, selected, table, pc, helpVars, mirVars, ctlVars, janVars, spent,
                   histVars>>

-----------------------------------------------------------------------------
\* Target and helper

\* What the step of a tmux command leaves alone.
Rest == UNCHANGED <<want, mirVars, ctlVars, janVars, cause>>

\* ResolveCurrent: the generation is installed, read, and compared with the one the
\* description of the window came from.
Ensure ==
    /\ pc = "ensure"
    /\ Identified
    /\ Goes("read")
    /\ UNCHANGED <<sess, next, selected, table, hid, kept, spent, reason, harmed, lost>> /\ Rest

ReadGeneration ==
    /\ pc = "read"
    /\ want' = gen
    /\ Goes(IF gen = 0 THEN "gone" ELSE "display")
    /\ UNCHANGED <<tmuxVars, hid, kept, mirVars, ctlVars, janVars, spent, histVars>>

ResolveTarget ==
    /\ pc = "display"
    /\ Goes(IF gen = want /\ Exists(0) THEN "create" ELSE "gone")
    /\ UNCHANGED <<tmuxVars, hid, kept, spent, reason, harmed, lost>> /\ Rest

\* The guard of a command that also names the source window.
SourceIsTarget == gen = want /\ Exists(0) /\ selected

\* CreateHelper: a session of its own with a temporary window.
Create ==
    /\ pc = "create"
    /\ \/ /\ SourceIsTarget /\ next <= LastId
          /\ sess' = [sess EXCEPT ![next] = HelperSession]
          /\ hid' = next /\ next' = next + 1
          /\ \/ Goes("link") /\ UNCHANGED <<spent, lost>>
             \/ Goes("exit") /\ Mishap /\ lost' = TRUE   \* reported as an error
       \/ /\ IF SourceIsTarget THEN Mishap ELSE UNCHANGED spent
          /\ Goes("exit")
          /\ UNCHANGED <<sess, hid, next, lost>>
    /\ UNCHANGED <<gen, selected, table, coined, kept, reason, harmed>> /\ Rest

\* The temporary window is replaced by the target window.
Link ==
    /\ pc = "link"
    /\ \/ /\ SourceIsTarget /\ Exists(hid)
          /\ sess' = [sess EXCEPT ![hid].win = "target"]
          /\ Goes("mark") /\ UNCHANGED spent
       \/ /\ IF SourceIsTarget /\ Exists(hid) THEN Mishap ELSE UNCHANGED spent
          /\ Goes("close_unmarked") /\ UNCHANGED sess
    /\ UNCHANGED <<gen, next, selected, table, coined, hid, kept, reason, harmed, lost>> /\ Rest

\* Mutant: an option is set on the session ID alone.
SessionExists == Exists(hid)

\* SetSessionOptionIfGeneration: the ID of a session on the server that gave it.
SetsOption == gen = want /\ Exists(hid)

\* A step of CreateHelper that changes the session, and where it goes if it fails.
Sets(step, session, done, failed) ==
    /\ pc = step
    /\ \/ /\ SetsOption
          /\ sess' = [sess EXCEPT ![hid] = session]
          /\ harmed' = (harmed \/ sess[hid].by # "wrap")
          /\ Goes(done) /\ UNCHANGED spent
       \/ /\ IF SetsOption THEN Mishap ELSE UNCHANGED spent
          /\ Goes(failed) /\ UNCHANGED <<sess, harmed>>
    /\ UNCHANGED <<gen, next, selected, table, coined, hid, kept, reason, lost>> /\ Rest

Mark == Sets("mark", [sess[hid] EXCEPT !.mark = TRUE], "configure", "close_unmarked")
Configure == Sets("configure", sess[hid], "bind", "close")

\* BindPaneMouseIfGeneration.
Bind ==
    /\ pc = "bind"
    /\ \/ gen = want /\ table' = TRUE /\ Goes("start") /\ UNCHANGED spent
       \/ /\ IF SetsOption THEN Mishap ELSE UNCHANGED spent
          /\ Goes("close") /\ UNCHANGED table
    /\ UNCHANGED <<gen, sess, next, selected, coined, hid, kept, reason, harmed, lost>> /\ Rest

\* kill-session under a guard.
Kills(i, guard) ==
    /\ sess' = IF guard THEN [sess EXCEPT ![i] = NoSession] ELSE sess
    /\ harmed' = (harmed \/ (guard /\ sess[i].by # "wrap"))

\* Mutant: the mark is always asked for.
AsksForMark(i) == gen = want /\ sess[i].name = "helper" /\ sess[i].mark

\* The guards of KillSessionIDIfGenerationAndName and, with the mark, ...AndOption.
IsHelper(i) == gen = want /\ sess[i].name = "helper"
IsMarkedHelper(i) == IsHelper(i) /\ sess[i].mark

\* closeUnmarked: only ID, generation and name are known to be the helper's.
CloseUnmarked ==
    /\ pc = "close_unmarked"
    /\ \/ Kills(hid, IsHelper(hid)) /\ UNCHANGED <<spent, lost>>
       \/ Mishap /\ lost' = TRUE /\ UNCHANGED <<sess, harmed>>
    /\ Goes("exit")
    /\ UNCHANGED <<gen, next, selected, table, coined, hid, kept, reason>> /\ Rest

\* What follows kill-session: the key table is unbound if the session was killed; if the ID
\* is not there, tmux reports it missing or the guard on its name and mark does not hold.
AfterKill(i, done) ==
    IF IsMarkedHelper(i) THEN {"unbind"} ELSE IF Exists(i) THEN {done} ELSE {"unbind", done}

\* Helper.Close, the session; one whose identity changed is left alone.
CloseHelper ==
    /\ pc = "close"
    /\ \/ /\ Kills(hid, IsMarkedHelper(hid))
          /\ \E step \in AfterKill(hid, "exit") : Goes(step)
          /\ UNCHANGED <<spent, kept>>
       \/ /\ Mishap /\ kept' = TRUE
          /\ Goes("exit") /\ UNCHANGED <<sess, harmed>>
    /\ UNCHANGED <<gen, next, selected, table, coined, hid, reason, lost>> /\ Rest

\* UnbindPaneMouseIfGeneration.
Unbind ==
    /\ pc = "unbind"
    /\ \/ table' = (table /\ gen # want) /\ UNCHANGED <<spent, kept>>
       \/ Mishap /\ kept' = TRUE /\ UNCHANGED table
    /\ Goes("exit")
    /\ UNCHANGED <<gen, sess, next, selected, coined, hid, reason, harmed, lost>> /\ Rest

-----------------------------------------------------------------------------
\* The mirror and its events

\* Mutant: publishing never drains.
PublishGrows(s) == Append(events, s)

\* Mutant: the channel keeps the latest snapshot only.
PublishLatest(s) == <<s>>

\* publishSnapshot: a full channel is emptied to make room.
Published(s) == IF Len(events) < Capacity THEN Append(events, s) ELSE <<s>>

Publish(s) ==
    /\ events' = Published(s)
    /\ overtaken' = (overtaken \/ (/\ Len(events) = Capacity /\ s # "failed"
                                   /\ \E k \in 1..Len(events) : events[k] = "failed"))

\* Start: the snapshots "starting" and "ready"; a failure or the end of its context closes
\* what there is.
StartMirror ==
    /\ pc = "start"
    /\ \/ /\ ~cancelled
          /\ mirror' = "ready" /\ events' = <<"starting", "ready">>
          /\ Goes("control") /\ ctl' = "starting" /\ UNCHANGED spent
       \/ /\ IF cancelled THEN UNCHANGED spent ELSE Mishap
          /\ mirror' = "failed" /\ events' = <<"starting", "failed">>
          /\ Goes("shutdown") /\ UNCHANGED ctl
    /\ UNCHANGED <<tmuxVars, helpVars, watch, taken, shots, overtaken, cancelled, request,
                   janVars, histVars>>

MirrorRuns == pc \notin {"gone", "dead"} /\ mirror # "off"

\* watchTunnel: the state fails and the resources are closed under opMu; the snapshot taken
\* before that is published after it.
TunnelExits ==
    /\ MirrorRuns /\ mirror = "ready" /\ watch = "idle"
    /\ mirror' = "failed" /\ watch' = "cleanup"
    /\ UNCHANGED <<tmuxVars, pc, helpVars, taken, events, shots, overtaken, ctlVars, janVars,
                   spent, histVars>>

TunnelPublishes ==
    /\ watch = "cleanup"
    /\ watch' = "done"
    /\ Publish("failed")
    /\ UNCHANGED <<tmuxVars, pc, helpVars, mirror, taken, shots, ctlVars, janVars, spent,
                   histVars>>

\* recordViewerCleanupFailure, recordDiagnostic: a snapshot is taken under the lock and
\* published outside it and outside opMu.
SnapshotTaken ==
    /\ MirrorRuns /\ shots < Snapshots /\ mirror \notin taken
    /\ shots' = shots + 1 /\ taken' = taken \cup {mirror}
    /\ UNCHANGED <<tmuxVars, pc, helpVars, mirror, watch, events, overtaken, ctlVars, janVars,
                   spent, histVars>>

SnapshotPublished ==
    /\ MirrorRuns
    /\ \E s \in taken : taken' = taken \ {s} /\ Publish(s)
    /\ UNCHANGED <<tmuxVars, pc, helpVars, mirror, watch, shots, ctlVars, janVars, spent,
                   histVars>>

-----------------------------------------------------------------------------
\* The control server

Controlled == UNCHANGED <<tmuxVars, helpVars, mirVars, janVars, histVars>>

\* Serve listens, or cannot.
ServeStarts ==
    /\ ctl = "starting"
    /\ \/ ctl' = "serving" /\ UNCHANGED spent
       \/ ctl' = "failed" /\ Mishap
    /\ UNCHANGED <<pc, cancelled, request>> /\ Controlled

\* SIGINT or SIGTERM.
Signal ==
    /\ pc \notin {"ensure", "read", "display", "gone", "dead"} /\ ~cancelled
    /\ cancelled' = TRUE
    /\ UNCHANGED <<pc, ctl, request, spent>> /\ Controlled

\* handle, ActionShutdown: handler.Shutdown, and then the answer.
ShutdownRequest ==
    /\ ctl = "serving" /\ ~cancelled /\ request = "none"
    /\ request' = "running" /\ cancelled' = TRUE
    /\ UNCHANGED <<pc, ctl, spent>> /\ Controlled

Answer ==
    /\ request = "running" /\ pc \notin {"gone", "dead"}
    /\ request' = "answered"
    /\ UNCHANGED <<pc, ctl, cancelled, spent>> /\ Controlled

\* Mutant: Serve returns as soon as the listener is closed.
ListenerClosed == cancelled

\* The deferred clients.Wait of Serve.
ClientsGone == cancelled /\ request # "running"

\* Serve returns: nil if a request had closed stop when Accept failed, else the error of
\* its context; or Accept, or the removal of the socket, fails.
ServeEnds ==
    /\ ctl = "serving"
    /\ \/ /\ ClientsGone /\ UNCHANGED spent
          /\ \/ ctl' = "cancelled"
             \/ request = "answered" /\ ctl' = "stopped"
       \/ (ClientsGone \/ ~cancelled) /\ Mishap /\ ctl' = "failed"
    /\ UNCHANGED <<pc, cancelled, request>> /\ Controlled

\* The result is on controlDone, or was taken from it.
ControlDone == ctl \in {"failed", "cancelled", "stopped", "closed"}

-----------------------------------------------------------------------------
\* The run loop and the deferred calls

InRun == UNCHANGED <<tmuxVars, want, hid, janVars, harmed, lost>>

\* waitForControl: the socket exists.
WaitForControl ==
    /\ pc = "control"
    /\ \/ ctl = "serving" /\ Goes("publish") /\ UNCHANGED ctl
       \/ cancelled /\ Goes("stopctl") /\ UNCHANGED ctl
       \/ ControlDone /\ Goes("stopctl") /\ ctl' = "closed"
    /\ UNCHANGED <<kept, mirVars, cancelled, request, spent, reason, cause>> /\ InRun

\* Store.Create and Ready.
PublishRecord ==
    /\ pc = "publish"
    /\ \/ Goes("loop") /\ UNCHANGED spent
       \/ Goes("stopctl") /\ Mishap
    /\ UNCHANGED <<kept, mirVars, ctlVars, reason, cause>> /\ InRun

Ends(why) == Goes("stopctl") /\ reason' = why

LoopDone ==
    /\ pc = "loop" /\ cancelled
    /\ Ends(IF request # "none" THEN "requested" ELSE "signal")
    /\ UNCHANGED <<kept, mirVars, ctlVars, spent, cause>> /\ InRun

LoopControl ==
    /\ pc = "loop" /\ ControlDone
    /\ Ends(IF ctl = "stopped" THEN "requested" ELSE "control")
    /\ ctl' = "closed"
    /\ UNCHANGED <<kept, mirVars, cancelled, request, spent, cause>> /\ InRun

LoopEvent ==
    /\ pc = "loop" /\ events # <<>>
    /\ events' = Tail(events)
    /\ IF Head(events) = "failed" THEN Ends("failed") ELSE UNCHANGED <<pc, reason>>
    /\ UNCHANGED <<kept, mirror, watch, taken, shots, overtaken, ctlVars, spent, cause>> /\ InRun

\* Helper.Validate: one command reads the helper, the next one the source; an error of
\* tmux, a timeout or the end of the context fails it.
Validates(step, holds, then) ==
    /\ pc = step
    /\ \/ holds /\ Goes(then) /\ UNCHANGED <<spent, reason, cause>>
       \/ (cancelled \/ ~holds) /\ Ends("validate") /\ UNCHANGED <<spent, cause>>
       \/ Mishap /\ Ends("validate") /\ cause' = TRUE
    /\ UNCHANGED <<kept, mirVars, ctlVars>> /\ InRun

ValidateHelper == Validates("loop", IsMarkedHelper(hid) /\ sess[hid].win = "target", "source")
ValidateSource == Validates("source", gen = want /\ Exists(0), "loop")

\* cancelRun, and the wait for the control server.
StopControl ==
    /\ pc = "stopctl"
    /\ cancelled' = TRUE
    /\ \/ ControlDone /\ Goes("shutdown") /\ kept' = (kept \/ ctl = "failed") /\ UNCHANGED spent
       \/ ~ControlDone /\ cancelled /\ Mishap /\ kept' = TRUE /\ Goes("shutdown")
       \/ ~ControlDone /\ ~cancelled /\ UNCHANGED <<pc, kept, spent>>
    /\ UNCHANGED <<mirVars, ctl, request, reason, cause>> /\ InRun

\* The manager's Shutdown, after watchTunnel has given opMu back.
ShutdownMirror ==
    /\ pc = "shutdown" /\ watch # "cleanup"
    /\ mirror' = "stopped" /\ Publish("stopped")
    /\ Goes("close")
    /\ \/ UNCHANGED <<kept, spent>>
       \/ Mishap /\ kept' = TRUE
    /\ UNCHANGED <<watch, taken, shots, ctlVars, reason, cause>> /\ InRun

\* The process ends, with what is left of its goroutines: after Run returned, or by SIGKILL.
ProcessEnds(step) ==
    /\ Goes(step)
    /\ mirror' = "off" /\ watch' = "done" /\ taken' = {} /\ events' = <<>> /\ ctl' = "off"
    /\ UNCHANGED <<kept, shots, overtaken, cancelled, request, reason, cause>> /\ InRun

Exit == pc = "exit" /\ ProcessEnds("gone") /\ UNCHANGED spent
Killed ==
    /\ pc \notin {"ensure", "read", "display", "gone", "dead"} /\ Mishap
    /\ ProcessEnds("dead")

-----------------------------------------------------------------------------
\* CleanupHelper, by the launcher that reaped the worker or by a command that finds the
\* record of a worker that is gone.

Abandoned == pc = "dead" \/ (pc = "gone" /\ (kept \/ reason = "none"))

InCleanup ==
    UNCHANGED <<gen, next, selected, coined, pc, helpVars, mirVars, ctlVars, reason, cause, lost>>

\* A failed command ends this attempt; the next command that meets the record tries again.
CleanupFails ==
    /\ janitor \in {"close", "unbind"} /\ Mishap
    /\ janitor' = "idle"
    /\ UNCHANGED <<sess, table, jid, harmed>> /\ InCleanup

\* The session is looked up by its name.
InspectHelper ==
    /\ janitor = "idle" /\ Abandoned /\ want # 0
    /\ \/ \E i \in Ids :
            /\ IsMarkedHelper(i) /\ sess[i].win = "target"
            /\ jid' = i /\ janitor' = "close"
       \/ /\ \A i \in Ids : ~(IsMarkedHelper(i) /\ sess[i].win = "target")
          /\ janitor' = "done" /\ UNCHANGED jid
    /\ UNCHANGED <<sess, table, spent, harmed>> /\ InCleanup

CleanupCloses ==
    /\ janitor = "close"
    /\ Kills(jid, IsMarkedHelper(jid))
    /\ \E step \in AfterKill(jid, "done") : janitor' = step
    /\ UNCHANGED <<table, jid, spent>> /\ InCleanup

CleanupUnbinds ==
    /\ janitor = "unbind"
    /\ table' = (table /\ gen # want)
    /\ janitor' = "done"
    /\ UNCHANGED <<sess, jid, spent, harmed>> /\ InCleanup

Done == pc \in {"gone", "dead"} /\ UNCHANGED vars

-----------------------------------------------------------------------------
Environment ==
    \/ Restart \/ UserOpens \/ UserActs \/ PlaceholderEnds \/ OtherResolves
    \/ TunnelExits \/ SnapshotTaken \/ Signal \/ ShutdownRequest \/ Killed \/ Done

Helping ==
    \/ Ensure \/ ReadGeneration \/ ResolveTarget
    \/ Create \/ Link \/ Mark \/ Configure \/ Bind \/ CloseUnmarked \/ CloseHelper \/ Unbind

Looping ==
    \/ StartMirror \/ WaitForControl \/ PublishRecord
    \/ LoopDone \/ LoopControl \/ LoopEvent \/ ValidateHelper \/ ValidateSource
    \/ StopControl \/ ShutdownMirror \/ Exit

Serving == ServeStarts \/ Answer \/ ServeEnds
Cleaning == InspectHelper \/ CleanupFails \/ CleanupCloses \/ CleanupUnbinds

Next ==
    \/ Environment \/ Helping \/ Looping \/ Serving \/ Cleaning
    \/ TunnelPublishes \/ SnapshotPublished

Spec == Init /\ [][Next]_vars

\* The worker's goroutine, the control server and the watch of the tunnel run when they can
\* (a failure they may meet is not owed).  Go's select takes a ready case at random, so one
\* that is ready again and again is taken.
FairSpec ==
    /\ Spec
    /\ WF_vars(Helping \/ Looping) /\ WF_vars(Serving) /\ WF_vars(TunnelPublishes)
    /\ SF_vars(LoopDone) /\ SF_vars(LoopEvent)

-----------------------------------------------------------------------------
\* Properties

\* Every variable has its type, and the event channel never holds more than its capacity.
TypeOK ==
    /\ gen \in 0..coined /\ coined \in Nat /\ want \in 0..coined
    /\ sess \in [Ids -> [by : {"none", "user", "wrap"}, name : {"none", "other", "helper"},
                         mark : BOOLEAN,
                         win : {"none", "target", "placeholder"}]]
    /\ next \in 1..(LastId + 1) /\ {hid, jid} \subseteq Ids
    /\ {selected, table, kept, cancelled, cause, harmed, lost, overtaken} \subseteq BOOLEAN
    /\ pc \in {"ensure", "read", "display", "create", "link", "mark", "configure", "bind",
               "start", "control", "publish", "loop", "source", "stopctl", "shutdown", "close",
               "close_unmarked", "unbind", "exit", "gone", "dead"}
    /\ mirror \in {"off", "ready", "failed", "stopped"}
    /\ watch \in {"idle", "cleanup", "done"}
    /\ taken \subseteq {"ready", "failed", "stopped"}
    /\ Len(events) <= Capacity
    /\ ctl \in {"off", "starting", "serving", "failed", "cancelled", "stopped", "closed"}
    /\ request \in {"none", "running", "answered"}
    /\ janitor \in {"idle", "close", "unbind", "done"}
    /\ spent \in 0..Mishaps /\ shots \in 0..Snapshots
    /\ reason \in {"none", "requested", "signal", "control", "failed", "validate"}

\* No session of the user is marked, configured or killed, whatever the server restarts
\* into and whichever IDs it hands out again.
ForeignUntouched == ~harmed

\* The worker gives its target up only for a reason: its check fails when the target, the
\* helper or the server changed or tmux failed, or it was told to end; another Wrap command
\* on the same server is none.  The mirror's failure ends it only if the tunnel exited.
StopHasCause ==
    /\ reason = "validate" => cause \/ cancelled
    /\ reason = "failed" => watch # "idle"

Leftover(i) == gen = want /\ sess[i].by = "wrap" /\ sess[i].name = "helper"

\* A worker that ended without a cleanup error leaves no helper session, and no key table
\* if nobody else touched the helper; after the cleanup for a worker that was killed or
\* failed, what can be left of it is a session that never got its mark.
HelperRemoved ==
    /\ pc = "gone" /\ ~kept /\ ~lost =>
        /\ \A i \in Ids : ~Leftover(i)
        /\ table /\ gen = want => cause
    /\ janitor = "done" => \A i \in Ids : Leftover(i) => ~sess[i].mark

\* A worker that ended without a cleanup error has answered the shutdown request that ended
\* it: the control server waits for its connections, and Run for the control server.
ShutdownAnswered == pc = "gone" /\ ~kept => request # "running"

Ended == pc \in {"gone", "dead"}

\* The worker ends after a signal or a shutdown request, when its target or its server is
\* gone, and when the tunnel exited, unless an older snapshot displaced the failed one on a
\* full event channel.
WorkerEnds ==
    /\ (cancelled \/ (want # 0 /\ (gen # want \/ ~Exists(0)))) ~> Ended
    /\ mirror = "failed" ~> (Ended \/ overtaken)
=============================================================================
