------------------------------ MODULE Registry ------------------------------
(***************************************************************************)
(* The registry of shared windows: the files of instance.Store (store.go), *)
(* the detached worker processes (share/service.go Run), the launcher      *)
(* (share/process.go Start) and the commands of cmd/wrap/commands.go that  *)
(* read, clean and change the registry, all running at once.               *)
(*                                                                         *)
(* An instance ID is drawn at random for one launch, so a worker process   *)
(* and its ID are one thing here, and the PID that RemoveIfPID and         *)
(* RenameIfPID compare is the worker's own whenever its record exists.     *)
(* A lease is an flock on an open file, not on a path: link is the inode   *)
(* the path names (0 for none), and a process keeps the inode it opened    *)
(* even after the path is unlinked.  The store lock (instances/.lock) is   *)
(* held over several steps only by PruneCompletedArtifacts, so pruner is   *)
(* that lock; every other operation under it is one step.                  *)
(***************************************************************************)
EXTENDS Naturals, FiniteSets

CONSTANTS
    Workers,    \* worker processes, and the instance IDs they are launched with
    Commands,   \* processes of the wrap command, each running one command at a time
    Windows,    \* tmux windows that can be shared (Target.Key)
    Names,      \* instance names
    None,       \* no name, no window, no worker
    Retain,     \* completedArtifactRetention, scaled down
    Kinds       \* bound: the commands that are given

ASSUME RegistryAssumption ==
    /\ IsFiniteSet(Workers) /\ IsFiniteSet(Commands)
    /\ None \notin Workers \cup Windows \cup Names
    /\ Retain \in Nat
    /\ Kinds \subseteq {"start", "list", "doctor", "kill"}

VARIABLES
    \* files and tmux state, by instance
    rec,        \* the name in instances/<id>.json, None if there is no record
    link,       \* the inode of <id>.lease
    helper,     \* the helper tmux session, before and after it is marked with the ID
    socket,     \* <id>.sock exists
    diag,       \* diagnostics/<id>.jsonl exists
    \* worker processes
    wpc, window, wname,
    lease,      \* the inode of the lease file the worker has open
    leased,     \* it holds the lock on it
    published, dirty,   \* published, cleanupErr # nil in Run
    stopped,    \* the context of Run is cancelled: SIGTERM or a control shutdown
    ready,      \* readiness is in the launcher's pipe
    \* the holder of the store lock
    pruner,
    \* command processes
    cmd,
    \* history
    killed,     \* workers a command reported as killed
    failed,     \* workers whose start was reported as failed
    unclean,    \* workers whose launcher died, or reported that it could not clean up
    swallowed   \* workers that left their socket behind and took that for a clean end

files   == <<rec, link, helper, socket, diag>>
workers == <<wpc, window, wname, lease, leased, published, dirty, stopped, ready>>
hist    == <<killed, failed, unclean, swallowed>>
vars    == <<files, workers, pruner, cmd, hist>>

Inodes == 1..(Cardinality(Commands) + 3)

Startup  == {"forked", "opened", "leased", "made", "helped", "mirrored", "listening"}
Teardown == {"stopControl", "closeHelper", "prune", "pruning", "release", "remove"}
Phases   == {"unused", "gone", "dead", "published", "serving"} \cup Startup \cup Teardown

Running(w) == wpc[w] \notin {"unused", "gone", "dead"}
\* The control server answers; the record that leads callers to it may not exist yet.
Answering(w) == wpc[w] \in {"listening", "published", "serving"}

NoPrune == [by |-> None, todo |-> {}, id |-> None, ino |-> 0, locked |-> FALSE]
StoreFree == pruner.by = None

\* What a command process knows: todo is the record list it has yet to visit,
\* seen what it learned of the others.
Idle == [pc |-> "idle", kind |-> "list", win |-> None, want |-> None, todo |-> {},
         seen |-> {}, w |-> None, ino |-> 0, locked |-> FALSE]
\* The command has launched a worker: it waits for it, and cleans up after it with the
\* same steps that clean up a stale record (cleanupReapedWorkerArtifacts).
Reaping(p) == cmd[p].kind = "reap"

Listed == Workers \X Names
Steps  == {"idle", "inspect", "open", "flock", "clean", "remove", "close", "closeRemoved",
           "abort", "rename", "launched", "stopping", "wait", "check", "probe"}

----------------------------------------------------------------------------
\* Leases

Locked(w, i) ==
    \/ leased[w] /\ lease[w] = i
    \/ pruner.locked /\ pruner.id = w /\ pruner.ino = i
    \/ \E p \in Commands : cmd[p].locked /\ cmd[p].w = w /\ cmd[p].ino = i

InUse(w) == {link[w], lease[w]}
            \cup {pruner.ino : v \in {w} \cap {pruner.id}}
            \cup {cmd[p].ino : p \in {q \in Commands : cmd[q].w = w}}

\* The file an O_CREATE open of the lease path yields.
OpenedInode(w) ==
    IF link[w] # 0 THEN link[w]
    ELSE CHOOSE i \in Inodes \ InUse(w) : \A j \in Inodes \ InUse(w) : i <= j

\* The first half of AcquireLease; the lock is tried in a later step.
OpenLeaseFile(w) == link' = [link EXCEPT ![w] = OpenedInode(w)]

----------------------------------------------------------------------------
\* The worker process: share.Run

WorkerGoto(w, phase) == wpc' = [wpc EXCEPT ![w] = phase]

\* The process is over, and what it kept in memory with it.
WorkerEnds(w, how) ==
    /\ WorkerGoto(w, how)
    /\ lease' = [lease EXCEPT ![w] = 0]
    /\ leased' = [leased EXCEPT ![w] = FALSE]
    /\ wname' = [wname EXCEPT ![w] = None]
    /\ published' = [published EXCEPT ![w] = FALSE]
    /\ dirty' = [dirty EXCEPT ![w] = FALSE]
    /\ stopped' = [stopped EXCEPT ![w] = FALSE]

OpenLease(w) ==
    /\ wpc[w] = "forked"
    /\ OpenLeaseFile(w)
    /\ lease' = [lease EXCEPT ![w] = OpenedInode(w)]
    /\ WorkerGoto(w, "opened")
    /\ UNCHANGED <<rec, helper, socket, diag, window, wname, leased, published, dirty,
                   stopped, ready, pruner, cmd, hist>>

LockLease(w) ==
    /\ wpc[w] = "opened"
    /\ ~Locked(w, lease[w])
    /\ leased' = [leased EXCEPT ![w] = TRUE]
    /\ WorkerGoto(w, "leased")
    /\ UNCHANGED <<files, window, wname, lease, published, dirty, stopped, ready,
                   pruner, cmd, hist>>

\* ErrLeaseHeld before anything was made.
LeaseRefused(w) ==
    /\ wpc[w] = "opened"
    /\ Locked(w, lease[w])
    /\ WorkerEnds(w, "gone")
    /\ UNCHANGED <<files, window, ready, pruner, cmd, hist>>

\* CreateHelper makes the session first and marks it with the instance ID later.
CreateHelper(w) ==
    /\ wpc[w] = "leased"
    /\ helper' = [helper EXCEPT ![w] = "unmarked"]
    /\ WorkerGoto(w, "made")
    /\ UNCHANGED <<rec, link, socket, diag, window, wname, lease, leased, published, dirty,
                   stopped, ready, pruner, cmd, hist>>

MarkHelper(w) ==
    /\ wpc[w] = "made"
    /\ helper' = [helper EXCEPT ![w] = "marked"]
    /\ WorkerGoto(w, "helped")
    /\ UNCHANGED <<rec, link, socket, diag, window, wname, lease, leased, published, dirty,
                   stopped, ready, pruner, cmd, hist>>

\* CreateHelper fails and tries to undo what it did; left is what remains.
HelperFails(w, left) ==
    /\ \/ wpc[w] = "leased" /\ left = "none"
       \/ wpc[w] = "made"
    /\ helper' = [helper EXCEPT ![w] = left]
    /\ WorkerGoto(w, "prune")
    /\ UNCHANGED <<rec, link, socket, diag, window, wname, lease, leased, published, dirty,
                   stopped, ready, pruner, cmd, hist>>

StartMirror(w) ==
    /\ wpc[w] = "helped"
    /\ diag' = [diag EXCEPT ![w] = TRUE]
    /\ \/ ~stopped[w] /\ WorkerGoto(w, "mirrored")
       \/ WorkerGoto(w, "closeHelper")
    /\ UNCHANGED <<rec, link, helper, socket, window, wname, lease, leased, published, dirty,
                   stopped, ready, pruner, cmd, hist>>

\* control.Serve binds the socket and waitForControl sees it, or either fails, possibly
\* after the socket was bound.
Listen(w) ==
    /\ wpc[w] = "mirrored"
    /\ \/ ~socket[w] /\ socket' = [socket EXCEPT ![w] = TRUE] /\ WorkerGoto(w, "listening")
       \/ /\ \E bound \in BOOLEAN : socket' = [socket EXCEPT ![w] = @ \/ bound]
          /\ WorkerGoto(w, "stopControl")
    /\ UNCHANGED <<rec, link, helper, diag, window, wname, lease, leased, published, dirty,
                   stopped, ready, pruner, cmd, hist>>

\* Mutant: Create compares names only.
ClashesByName(w) == \E v \in Workers \ {w} : rec[v] # None /\ rec[v] = wname[w]

\* Store.Create: no other record has the name or the window.
Clashes(w) == \E v \in Workers \ {w} :
                  rec[v] # None /\ (rec[v] = wname[w] \/ window[v] = window[w])

\* Mutant: Create writes the record without the store lock.
PublishUnlocked(w) ==
    /\ wpc[w] = "listening"
    /\ ~Clashes(w)
    /\ rec' = [rec EXCEPT ![w] = wname[w]]
    /\ published' = [published EXCEPT ![w] = TRUE]
    /\ WorkerGoto(w, "published")
    /\ UNCHANGED <<link, helper, socket, diag, window, wname, lease, leased, dirty,
                   stopped, ready, pruner, cmd, hist>>

Publish(w) ==
    /\ wpc[w] = "listening" /\ StoreFree
    /\ ~Clashes(w)
    /\ rec' = [rec EXCEPT ![w] = wname[w]]
    /\ published' = [published EXCEPT ![w] = TRUE]
    /\ WorkerGoto(w, "published")
    /\ UNCHANGED <<link, helper, socket, diag, window, wname, lease, leased, dirty,
                   stopped, ready, pruner, cmd, hist>>

\* Create refuses, or writeAtomic fails before or after it installed the record.
PublishFails(w) ==
    /\ wpc[w] = "listening" /\ StoreFree
    /\ \/ UNCHANGED rec
       \/ ~Clashes(w) /\ rec' = [rec EXCEPT ![w] = wname[w]]
    /\ WorkerGoto(w, "stopControl")
    /\ UNCHANGED <<link, helper, socket, diag, window, wname, lease, leased, published, dirty,
                   stopped, ready, pruner, cmd, hist>>

\* The launcher reads the other end of the pipe while it runs.
LauncherAlive(w) == \E p \in Commands : Reaping(p) /\ cmd[p].w = w

ReportReady(w) ==
    /\ wpc[w] = "published"
    /\ LauncherAlive(w)
    /\ ready' = [ready EXCEPT ![w] = TRUE]
    /\ WorkerGoto(w, "serving")
    /\ UNCHANGED <<files, window, wname, lease, leased, published, dirty, stopped,
                   pruner, cmd, hist>>

ReadyFails(w) ==
    /\ wpc[w] = "published"
    /\ WorkerGoto(w, "stopControl")
    /\ UNCHANGED <<files, window, wname, lease, leased, published, dirty, stopped, ready,
                   pruner, cmd, hist>>

\* The loop of Run ends: its context is cancelled ...
StopServing(w) ==
    /\ wpc[w] = "serving" /\ stopped[w]
    /\ WorkerGoto(w, "stopControl")
    /\ UNCHANGED <<files, window, wname, lease, leased, published, dirty, stopped, ready,
                   pruner, cmd, hist>>

\* ... or the mirror failed, the helper is no longer valid, the control server ended.
ServingFails(w) ==
    /\ wpc[w] = "serving"
    /\ WorkerGoto(w, "stopControl")
    /\ UNCHANGED <<files, window, wname, lease, leased, published, dirty, stopped, ready,
                   pruner, cmd, hist>>

\* The deferred calls of Run, last registered first.  The control server is stopped
\* first, and whether its socket could be removed does not decide whether Run learns of
\* it: Serve keeps the context's error instead of the removal's, Run takes that error for
\* a clean stop, and an error that waitForControl or the loop has read is not read again.
\* A server that fails or does not stop in time makes the cleanup fail, socket or not.
CloseControl(w) ==
    /\ wpc[w] = "stopControl"
    /\ \E left \in {FALSE, socket[w]}, bad \in BOOLEAN :
          /\ socket' = [socket EXCEPT ![w] = left]
          /\ dirty' = [dirty EXCEPT ![w] = bad]
          /\ swallowed' = IF left /\ ~bad THEN swallowed \cup {w} ELSE swallowed
    /\ WorkerGoto(w, "closeHelper")
    /\ UNCHANGED <<rec, link, helper, diag, window, wname, lease, leased, published,
                   stopped, ready, pruner, cmd, killed, failed, unclean>>

\* Mirror.Shutdown and Helper.Close, which no other process can tell apart.  A Close
\* that fails may have killed the session before it failed.
CloseHelper(w) ==
    /\ wpc[w] = "closeHelper"
    /\ \E left \in {"none", helper[w]}, bad \in BOOLEAN :
          /\ left # "none" => bad
          /\ helper' = [helper EXCEPT ![w] = left]
          /\ dirty' = [dirty EXCEPT ![w] = @ \/ bad]
    /\ WorkerGoto(w, "prune")
    /\ UNCHANGED <<rec, link, socket, diag, window, wname, lease, leased, published,
                   stopped, ready, pruner, cmd, hist>>

\* Mutant: the descriptor is closed without the lock being given up.
ReleaseKeepsLock(w) ==
    /\ wpc[w] = "release"
    /\ lease' = [lease EXCEPT ![w] = 0]
    /\ WorkerGoto(w, "remove")
    /\ UNCHANGED <<files, window, wname, leased, published, dirty, stopped, ready,
                   pruner, cmd, hist>>

ReleaseLease(w) ==
    /\ wpc[w] = "release"
    /\ lease' = [lease EXCEPT ![w] = 0]
    /\ leased' = [leased EXCEPT ![w] = FALSE]
    /\ WorkerGoto(w, "remove")
    /\ UNCHANGED <<files, window, wname, published, dirty, stopped, ready, pruner, cmd, hist>>

\* Mutant: Run removes its record even after a cleanup error.
RemoveRecordAnyway(w) ==
    /\ wpc[w] = "remove"
    /\ IF published[w]
       THEN StoreFree /\ rec' = [rec EXCEPT ![w] = None]
       ELSE UNCHANGED rec
    /\ WorkerEnds(w, "gone")
    /\ UNCHANGED <<link, helper, socket, diag, window, ready, pruner, cmd, hist>>

\* The record outlives a worker that could not clean up after itself.
RemoveOwnRecord(w) ==
    /\ wpc[w] = "remove"
    /\ IF published[w] /\ ~dirty[w]
       THEN StoreFree /\ rec' = [rec EXCEPT ![w] = None]
       ELSE UNCHANGED rec
    /\ WorkerEnds(w, "gone")
    /\ UNCHANGED <<link, helper, socket, diag, window, ready, pruner, cmd, hist>>

\* The process ends wherever it is; the kernel drops its locks, its files stay.
Dies(w) ==
    /\ Running(w)
    /\ WorkerEnds(w, "dead")
    /\ pruner' = IF pruner.by = w THEN NoPrune ELSE pruner
    /\ UNCHANGED <<files, window, ready>>

Crash(w) == Dies(w) /\ UNCHANGED <<cmd, hist>>

----------------------------------------------------------------------------
\* PruneCompletedArtifacts, run by a worker on its way out

Completed == {v \in Workers : rec[v] = None /\ (diag[v] \/ link[v] # 0)}

\* Modification times come from the wall clock and from diagnostics that are still
\* being appended, so any Retain of the candidates may be the newest.
PruneBegin(w) ==
    /\ wpc[w] = "prune" /\ StoreFree
    /\ Cardinality(Completed) > Retain
    /\ \E kept \in SUBSET Completed :
          /\ Cardinality(kept) = Retain
          /\ pruner' = [NoPrune EXCEPT !.by = w, !.todo = Completed \ kept]
    /\ WorkerGoto(w, "pruning")
    /\ UNCHANGED <<files, window, wname, lease, leased, published, dirty, stopped, ready,
                   cmd, hist>>

NothingToPrune(w) ==
    /\ wpc[w] = "prune" /\ StoreFree
    /\ Cardinality(Completed) <= Retain
    /\ WorkerGoto(w, "release")
    /\ UNCHANGED <<files, window, wname, lease, leased, published, dirty, stopped, ready,
                   pruner, cmd, hist>>

PruneOpen(w, v) ==
    /\ pruner.by = w /\ pruner.id = None /\ v \in pruner.todo
    /\ OpenLeaseFile(v)
    /\ pruner' = [pruner EXCEPT !.todo = @ \ {v}, !.id = v, !.ino = OpenedInode(v)]
    /\ UNCHANGED <<rec, helper, socket, diag, workers, cmd, hist>>

PruneLock(w) ==
    /\ pruner.by = w /\ pruner.id # None /\ ~pruner.locked
    /\ ~Locked(pruner.id, pruner.ino)
    /\ pruner' = [pruner EXCEPT !.locked = TRUE]
    /\ UNCHANGED <<files, workers, cmd, hist>>

\* Mutant: pruning blocks until a held lease is released.
PruneAwaitsHolder(w) == FALSE

\* ErrLeaseHeld: the instance is left alone.
PruneHeld(w) ==
    /\ pruner.by = w /\ pruner.id # None /\ ~pruner.locked
    /\ Locked(pruner.id, pruner.ino)
    /\ pruner' = [pruner EXCEPT !.id = None, !.ino = 0]
    /\ UNCHANGED <<files, workers, cmd, hist>>

PruneDelete(w) ==
    /\ pruner.by = w /\ pruner.locked
    /\ diag' = [diag EXCEPT ![pruner.id] = FALSE]
    /\ link' = [link EXCEPT ![pruner.id] = IF @ = pruner.ino THEN 0 ELSE @]
    /\ pruner' = [pruner EXCEPT !.id = None, !.ino = 0, !.locked = FALSE]
    /\ UNCHANGED <<rec, helper, socket, workers, cmd, hist>>

PruneEnd(w) ==
    /\ pruner.by = w /\ pruner.id = None /\ pruner.todo = {}
    /\ pruner' = NoPrune
    /\ WorkerGoto(w, "release")
    /\ UNCHANGED <<files, window, wname, lease, leased, published, dirty, stopped, ready,
                   cmd, hist>>

----------------------------------------------------------------------------
\* The commands

Become(p, state) == cmd' = [cmd EXCEPT ![p] = state]

Records == {<<w, rec[w]>> : w \in {v \in Workers : rec[v] # None}}

\* wrap, inside tmux: startInside resolves its window and reads the records.
BeginStart(p, win, want) ==
    /\ cmd[p].pc = "idle" /\ "start" \in Kinds /\ StoreFree
    /\ Become(p, [Idle EXCEPT !.pc = "inspect", !.kind = "start", !.win = win,
                              !.want = want, !.todo = Records])
    /\ UNCHANGED <<files, workers, pruner, hist>>

\* wrap list reads under the store lock, wrap doctor does not take it.
BeginList(p, kind) ==
    /\ cmd[p].pc = "idle" /\ kind \in Kinds \cap {"list", "doctor"} /\ Records # {}
    /\ kind = "list" => StoreFree
    /\ Become(p, [Idle EXCEPT !.pc = "inspect", !.kind = kind, !.todo = Records])
    /\ UNCHANGED <<files, workers, pruner, hist>>

\* wrap kill <selector>, wrap kill all.
BeginKill(p, chosen) ==
    /\ cmd[p].pc = "idle" /\ "kill" \in Kinds /\ StoreFree
    /\ chosen # {} /\ (chosen = Records \/ Cardinality(chosen) = 1)
    /\ Become(p, [Idle EXCEPT !.pc = "inspect", !.kind = "kill", !.todo = chosen])
    /\ UNCHANGED <<files, workers, pruner, hist>>

\* One record of the list has been dealt with.  live is what a start remembers of it.
Dealt(p, item, live) ==
    [cmd[p] EXCEPT !.pc = "inspect", !.todo = @ \ {item}, !.w = None, !.ino = 0,
                   !.locked = FALSE,
                   !.seen = IF cmd[p].kind = "start" THEN @ \cup {<<item, live>>} ELSE @]

StatusAnswered(p, item) ==
    /\ cmd[p].pc = "inspect" /\ item \in cmd[p].todo /\ cmd[p].kind # "kill"
    /\ Answering(item[1])
    /\ Become(p, Dealt(p, item, TRUE))
    /\ UNCHANGED <<files, workers, pruner, hist>>

\* No answer: the worker is dead, busy stopping, or too slow.
StatusFails(p, item) ==
    /\ cmd[p].pc = "inspect" /\ item \in cmd[p].todo /\ cmd[p].kind # "kill"
    /\ Become(p, [cmd[p] EXCEPT !.w = item[1],
                                !.pc = IF cmd[p].kind = "doctor" THEN "check" ELSE "open"])
    /\ UNCHANGED <<files, workers, pruner, hist>>

\* killRecord asks the worker to shut down; the answer may be lost.
ShutdownAsked(p, item, answered) ==
    /\ cmd[p].pc = "inspect" /\ item \in cmd[p].todo /\ cmd[p].kind = "kill"
    /\ Answering(item[1])
    /\ stopped' = [stopped EXCEPT ![item[1]] = TRUE]
    /\ Become(p, [cmd[p] EXCEPT !.w = item[1], !.pc = IF answered THEN "wait" ELSE "open"])
    /\ UNCHANGED <<files, wpc, window, wname, lease, leased, published, dirty, ready,
                   pruner, hist>>

ShutdownFails(p, item) ==
    /\ cmd[p].pc = "inspect" /\ item \in cmd[p].todo /\ cmd[p].kind = "kill"
    /\ Become(p, [cmd[p] EXCEPT !.w = item[1], !.pc = "open"])
    /\ UNCHANGED <<files, workers, pruner, hist>>

\* The record the command is working on.
Item(p) == CHOOSE item \in cmd[p].todo : item[1] = cmd[p].w

OpenRecordLease(p) ==
    /\ cmd[p].pc = "open"
    /\ OpenLeaseFile(cmd[p].w)
    /\ Become(p, [cmd[p] EXCEPT !.pc = "flock", !.ino = OpenedInode(cmd[p].w)])
    /\ UNCHANGED <<rec, helper, socket, diag, workers, pruner, hist>>

\* Mutant: a held lease does not stop the cleanup.
LockRecordLeaseAnyway(p) ==
    /\ cmd[p].pc = "flock"
    /\ Become(p, [cmd[p] EXCEPT !.pc = "clean", !.locked = TRUE])
    /\ UNCHANGED <<files, workers, pruner, hist>>

LockRecordLease(p) ==
    /\ cmd[p].pc = "flock" /\ ~Locked(cmd[p].w, cmd[p].ino)
    /\ Become(p, [cmd[p] EXCEPT !.pc = "clean", !.locked = TRUE])
    /\ UNCHANGED <<files, workers, pruner, hist>>

\* ErrLeaseHeld: the record stays, listed as unreachable; a launcher gives up.
RecordLeaseHeld(p) ==
    /\ cmd[p].pc = "flock" /\ Locked(cmd[p].w, cmd[p].ino)
    /\ IF Reaping(p)
       THEN /\ Become(p, Idle)
            /\ failed' = failed \cup {cmd[p].w} /\ unclean' = unclean \cup {cmd[p].w}
       ELSE /\ Become(p, Dealt(p, Item(p), FALSE))
            /\ UNCHANGED <<failed, unclean>>
    /\ UNCHANGED <<files, workers, pruner, killed, swallowed>>

\* CleanupHelper kills the session only if it carries the instance ID.
Swept(state) == IF state = "marked" THEN "none" ELSE state

CleanStale(p) ==
    LET w == cmd[p].w IN
    /\ cmd[p].pc = "clean"
    /\ helper' = [helper EXCEPT ![w] = Swept(@)]
    /\ socket' = [socket EXCEPT ![w] = FALSE]
    /\ Become(p, [cmd[p] EXCEPT !.pc = IF Reaping(p) THEN "close" ELSE "remove"])
    /\ UNCHANGED <<rec, link, diag, workers, pruner, hist>>

\* Both halves are attempted; either may have been done when the other failed.
CleanStaleFails(p) ==
    LET w == cmd[p].w IN
    /\ cmd[p].pc = "clean"
    /\ \E left \in {helper[w], Swept(helper[w])} : helper' = [helper EXCEPT ![w] = left]
    /\ \E left \in {socket[w], FALSE} : socket' = [socket EXCEPT ![w] = left]
    /\ Become(p, [cmd[p] EXCEPT !.pc = "abort"])
    /\ unclean' = IF Reaping(p) THEN unclean \cup {w} ELSE unclean
    /\ UNCHANGED <<rec, link, diag, workers, pruner, killed, failed, swallowed>>

RemoveStale(p) ==
    LET w == cmd[p].w IN
    /\ cmd[p].pc = "remove" /\ StoreFree
    /\ rec' = [rec EXCEPT ![w] = None]
    /\ Become(p, [cmd[p] EXCEPT !.pc = IF rec[w] # None THEN "closeRemoved" ELSE "close"])
    /\ UNCHANGED <<link, helper, socket, diag, workers, pruner, hist>>

\* The lease is released and the command goes on, or ends with the error it met.
CloseRecordLease(p) ==
    LET w == cmd[p].w
        removed == cmd[p].pc = "closeRemoved" IN
    /\ cmd[p].pc \in {"close", "closeRemoved", "abort"}
    /\ Become(p, IF Reaping(p) \/ (cmd[p].pc = "abort" /\ cmd[p].kind # "kill") THEN Idle
                 ELSE IF removed THEN [Dealt(p, Item(p), FALSE) EXCEPT !.seen = cmd[p].seen]
                 ELSE Dealt(p, Item(p), FALSE))
    /\ killed' = IF removed /\ cmd[p].kind = "kill" THEN killed \cup {w} ELSE killed
    /\ failed' = IF Reaping(p) THEN failed \cup {w} ELSE failed
    /\ UNCHANGED <<files, workers, pruner, unclean, swallowed>>

\* Mutant: waitForStopped looks at the lease only.
WaitForLeaseOnly(p) ==
    /\ cmd[p].pc = "wait"
    /\ Become(p, [cmd[p] EXCEPT !.pc = "check"])
    /\ UNCHANGED <<files, workers, pruner, hist>>

\* waitForStopped: the record must be gone and the lease free.
WaitResolve(p) ==
    /\ cmd[p].pc = "wait" /\ StoreFree
    /\ rec[cmd[p].w] = None
    /\ Become(p, [cmd[p] EXCEPT !.pc = "check"])
    /\ UNCHANGED <<files, workers, pruner, hist>>

\* LeaseHeld takes the lock for a moment when it is free.
ProbeLease(p) ==
    LET w == cmd[p].w IN
    /\ cmd[p].pc = "check"
    /\ Become(p, IF link[w] # 0 /\ Locked(w, link[w])
                 THEN IF cmd[p].kind = "kill" THEN [cmd[p] EXCEPT !.pc = "wait"]
                      ELSE Dealt(p, Item(p), FALSE)
                 ELSE [cmd[p] EXCEPT !.pc = "probe", !.ino = link[w], !.locked = link[w] # 0])
    /\ UNCHANGED <<files, workers, pruner, hist>>

Probed(p) ==
    /\ cmd[p].pc = "probe"
    /\ killed' = IF cmd[p].kind = "kill" THEN killed \cup {cmd[p].w} ELSE killed
    /\ Become(p, Dealt(p, Item(p), FALSE))
    /\ UNCHANGED <<files, workers, pruner, failed, unclean, swallowed>>

\* Mutant: waitForStopped has no deadline.
WaitForever(p) == FALSE

\* managementWait is over: "worker did not finish shutdown".
WaitTimesOut(p) ==
    /\ cmd[p].pc = "wait"
    /\ Become(p, Dealt(p, Item(p), FALSE))
    /\ UNCHANGED <<files, workers, pruner, hist>>

InspectDone(p) ==
    /\ cmd[p].pc = "inspect" /\ cmd[p].todo = {} /\ cmd[p].kind # "start"
    /\ Become(p, Idle)
    /\ UNCHANGED <<files, workers, pruner, hist>>

\* The rest of startInside.
Existing(p) == {s \in cmd[p].seen : window[s[1][1]] = cmd[p].win}
Taken(p)    == {s[1][2] : s \in cmd[p].seen}

\* The window is shared already: report it, rename it, or refuse.
ReuseExisting(p) ==
    /\ cmd[p].pc = "inspect" /\ cmd[p].kind = "start" /\ cmd[p].todo = {}
    /\ \E s \in Existing(p) :
          Become(p, IF s[2] /\ cmd[p].want \notin {None, s[1][2]} \cup Taken(p)
                    THEN [cmd[p] EXCEPT !.pc = "rename", !.w = s[1][1]]
                    ELSE Idle)
    /\ UNCHANGED <<files, workers, pruner, hist>>

\* RenameIfPID, run by the worker for this command.
Rename(p) ==
    LET w == cmd[p].w
        name == cmd[p].want IN
    /\ cmd[p].pc = "rename" /\ StoreFree
    /\ Answering(w) /\ rec[w] # None
    /\ \A v \in Workers \ {w} : rec[v] # name
    /\ rec' = [rec EXCEPT ![w] = name]
    /\ wname' = [wname EXCEPT ![w] = name]
    /\ Become(p, Idle)
    /\ UNCHANGED <<link, helper, socket, diag, wpc, window, lease, leased, published, dirty,
                   stopped, ready, pruner, hist>>

\* The worker refuses, or does not answer.
RenameFails(p) ==
    /\ cmd[p].pc = "rename"
    /\ Become(p, Idle)
    /\ UNCHANGED <<files, workers, pruner, hist>>

\* ChooseName refuses a name that the list shows in use.
NameRefused(p) ==
    /\ cmd[p].pc = "inspect" /\ cmd[p].kind = "start" /\ cmd[p].todo = {}
    /\ Existing(p) = {} /\ cmd[p].want \in Taken(p)
    /\ Become(p, Idle)
    /\ UNCHANGED <<files, workers, pruner, hist>>

\* process.Start forks the worker with a new ID.
Launch(p, w, name) ==
    /\ cmd[p].pc = "inspect" /\ cmd[p].kind = "start" /\ cmd[p].todo = {}
    /\ Existing(p) = {}
    /\ name \notin Taken(p) /\ cmd[p].want \in {None, name}
    /\ wpc[w] = "unused"
    /\ WorkerGoto(w, "forked")
    /\ window' = [window EXCEPT ![w] = cmd[p].win]
    /\ wname' = [wname EXCEPT ![w] = name]
    /\ Become(p, [Idle EXCEPT !.pc = "launched", !.kind = "reap", !.w = w])
    /\ UNCHANGED <<files, lease, leased, published, dirty, stopped, ready, pruner, hist>>

\* Every ID of the instance is used up: the bound of the model on launches.
OutOfWorkers(p) ==
    /\ cmd[p].pc = "inspect" /\ cmd[p].kind = "start" /\ cmd[p].todo = {}
    /\ Existing(p) = {}
    /\ \A w \in Workers : wpc[w] # "unused"
    /\ Become(p, Idle)
    /\ UNCHANGED <<files, workers, pruner, hist>>

StartSucceeds(p) ==
    /\ cmd[p].pc = "launched" /\ ready[cmd[p].w]
    /\ Become(p, Idle)
    /\ ready' = [ready EXCEPT ![cmd[p].w] = FALSE]
    /\ UNCHANGED <<files, wpc, window, wname, lease, leased, published, dirty, stopped,
                   pruner, hist>>

\* The worker was reaped, before readiness or after SIGTERM.
WorkerReaped(p) ==
    /\ cmd[p].pc \in {"launched", "stopping"} /\ ~Running(cmd[p].w)
    /\ Become(p, [cmd[p] EXCEPT !.pc = "open"])
    /\ UNCHANGED <<files, workers, pruner, hist>>

\* Mutant: the launcher cleans up without waiting for the worker to end.
StartAbandoned(p) ==
    /\ cmd[p].pc = "launched"
    /\ stopped' = [stopped EXCEPT ![cmd[p].w] = TRUE]
    /\ Become(p, [cmd[p] EXCEPT !.pc = "open"])
    /\ UNCHANGED <<files, wpc, window, wname, lease, leased, published, dirty, ready,
                   pruner, hist>>

\* The startup deadline, or a cancelled command, while the worker may just be getting ready.
StartTimesOut(p) ==
    /\ cmd[p].pc = "launched"
    /\ stopped' = [stopped EXCEPT ![cmd[p].w] = TRUE]
    /\ Become(p, [cmd[p] EXCEPT !.pc = "stopping"])
    /\ UNCHANGED <<files, wpc, window, wname, lease, leased, published, dirty, ready,
                   pruner, hist>>

\* SIGKILL after workerStopTimeout; the wait that follows reaps the worker.
ForceStop(p) ==
    /\ cmd[p].pc = "stopping"
    /\ Dies(cmd[p].w)
    /\ Become(p, [cmd[p] EXCEPT !.pc = "open"])
    /\ UNCHANGED hist

\* The command process itself is killed; a launcher leaves its worker to itself.
CommandDies(p) ==
    /\ cmd[p].pc # "idle"
    /\ Become(p, Idle)
    /\ IF Reaping(p)
       THEN /\ unclean' = unclean \cup {cmd[p].w}
            /\ ready' = [ready EXCEPT ![cmd[p].w] = FALSE]
       ELSE UNCHANGED <<unclean, ready>>
    /\ UNCHANGED <<files, wpc, window, wname, lease, leased, published, dirty, stopped,
                   pruner, killed, failed, swallowed>>

----------------------------------------------------------------------------

Init ==
    /\ rec = [w \in Workers |-> None]
    /\ link = [w \in Workers |-> 0]
    /\ helper = [w \in Workers |-> "none"]
    /\ socket = [w \in Workers |-> FALSE]
    /\ diag = [w \in Workers |-> FALSE]
    /\ wpc = [w \in Workers |-> "unused"]
    /\ window = [w \in Workers |-> None]
    /\ wname = [w \in Workers |-> None]
    /\ lease = [w \in Workers |-> 0]
    /\ leased = [w \in Workers |-> FALSE]
    /\ published = [w \in Workers |-> FALSE]
    /\ dirty = [w \in Workers |-> FALSE]
    /\ stopped = [w \in Workers |-> FALSE]
    /\ ready = [w \in Workers |-> FALSE]
    /\ pruner = NoPrune
    /\ cmd = [p \in Commands |-> Idle]
    /\ killed = {} /\ failed = {} /\ unclean = {} /\ swallowed = {}

\* What a worker does of itself, without failing while it serves.
WorkerStep(w) ==
    \/ OpenLease(w) \/ LockLease(w) \/ LeaseRefused(w)
    \/ CreateHelper(w) \/ MarkHelper(w)
    \/ \E left \in {"none", "unmarked", "marked"} : HelperFails(w, left)
    \/ StartMirror(w) \/ Listen(w)
    \/ Publish(w) \/ PublishFails(w)
    \/ ReportReady(w) \/ ReadyFails(w)
    \/ StopServing(w)
    \/ CloseControl(w) \/ CloseHelper(w)
    \/ PruneBegin(w) \/ NothingToPrune(w)
    \/ \E v \in Workers : PruneOpen(w, v)
    \/ PruneLock(w) \/ PruneHeld(w) \/ PruneDelete(w) \/ PruneEnd(w)
    \/ ReleaseLease(w) \/ RemoveOwnRecord(w)

\* What a command that has begun does until it ends.
CommandStep(p) ==
    \/ \E item \in Listed :
          \/ StatusAnswered(p, item) \/ StatusFails(p, item)
          \/ \E answered \in BOOLEAN : ShutdownAsked(p, item, answered)
          \/ ShutdownFails(p, item)
    \/ OpenRecordLease(p) \/ LockRecordLease(p) \/ RecordLeaseHeld(p)
    \/ CleanStale(p) \/ CleanStaleFails(p) \/ RemoveStale(p) \/ CloseRecordLease(p)
    \/ WaitResolve(p) \/ ProbeLease(p) \/ Probed(p) \/ WaitTimesOut(p)
    \/ InspectDone(p)
    \/ ReuseExisting(p) \/ Rename(p) \/ RenameFails(p) \/ NameRefused(p)
    \/ \E w \in Workers, name \in Names : Launch(p, w, name)
    \/ OutOfWorkers(p)
    \/ StartSucceeds(p) \/ WorkerReaped(p) \/ StartTimesOut(p) \/ ForceStop(p)

CommandBegin(p) ==
    \/ \E win \in Windows, want \in Names \cup {None} : BeginStart(p, win, want)
    \/ \E kind \in {"list", "doctor"} : BeginList(p, kind)
    \/ \E chosen \in SUBSET Records : BeginKill(p, chosen)

Next ==
    \/ \E w \in Workers : WorkerStep(w) \/ ServingFails(w) \/ Crash(w)
    \/ \E p \in Commands : CommandBegin(p) \/ CommandStep(p) \/ CommandDies(p)

Spec == Init /\ [][Next]_vars

(* Processes keep running and every wait of the code has a deadline.  Only  *)
(* the deadline of waitForStopped needs strong fairness: the poll leaves    *)
(* the state in which it is tested, and time does not stop meanwhile.       *)
Fairness ==
    /\ \A w \in Workers : WF_vars(WorkerStep(w))
    /\ \A p \in Commands : WF_vars(CommandStep(p)) /\ SF_vars(WaitTimesOut(p))

FairSpec == Spec /\ Fairness

----------------------------------------------------------------------------
\* Properties

\* Every variable has its type; a process that holds a lock has a file open for it.
TypeOK ==
    /\ rec \in [Workers -> Names \cup {None}]
    /\ link \in [Workers -> {0} \cup Inodes]
    /\ helper \in [Workers -> {"none", "unmarked", "marked"}]
    /\ socket \in [Workers -> BOOLEAN] /\ diag \in [Workers -> BOOLEAN]
    /\ wpc \in [Workers -> Phases]
    /\ window \in [Workers -> Windows \cup {None}]
    /\ wname \in [Workers -> Names \cup {None}]
    /\ lease \in [Workers -> {0} \cup Inodes]
    /\ leased \in [Workers -> BOOLEAN]
    /\ published \in [Workers -> BOOLEAN] /\ dirty \in [Workers -> BOOLEAN]
    /\ stopped \in [Workers -> BOOLEAN] /\ ready \in [Workers -> BOOLEAN]
    /\ \A w \in Workers : leased[w] => lease[w] # 0
    /\ pruner \in [by : Workers \cup {None}, todo : SUBSET Workers,
                   id : Workers \cup {None}, ino : {0} \cup Inodes, locked : BOOLEAN]
    /\ pruner.locked => pruner.ino # 0
    /\ cmd \in [Commands -> [pc : Steps, kind : {"start", "list", "doctor", "kill", "reap"},
                              win : Windows \cup {None}, want : Names \cup {None},
                              todo : SUBSET Listed, seen : SUBSET (Listed \X BOOLEAN),
                              w : Workers \cup {None}, ino : {0} \cup Inodes, locked : BOOLEAN]]
    /\ \A p \in Commands : cmd[p].locked => cmd[p].ino # 0
    /\ killed \subseteq Workers /\ failed \subseteq Workers
    /\ unclean \subseteq Workers /\ swallowed \subseteq Workers

(* No command takes the tmux helper, the control socket or the record from *)
(* a worker that is still using them, however slow the worker answers: the *)
(* lease it holds from before it makes them until after it closed them     *)
(* keeps every cleanup of commands.go and process.go away.                 *)
LeaseGuards ==
    \A w \in Workers :
        /\ wpc[w] \in {"helped", "mirrored", "listening", "published", "serving",
                       "stopControl", "closeHelper"} => helper[w] = "marked"
        /\ Answering(w) => socket[w]
        /\ published[w] /\ Running(w) /\ wpc[w] # "remove" => rec[w] # None

(* Two records never share a name or a tmux window, whatever two commands  *)
(* start and rename from lists that are out of date when they act on them. *)
UnambiguousRecords ==
    \A v, w \in Workers :
        v # w /\ rec[v] # None /\ rec[w] # None => rec[v] # rec[w] /\ window[v] # window[w]

(* A helper session or a control socket that outlives its worker is never  *)
(* forgotten: a record leads the next command to it, a launcher is about   *)
(* to remove it, or the launcher died or said that it could not.  The one  *)
(* exception is a socket whose failed removal Run never learned of: the    *)
(* record goes and the socket stays.                                       *)
NothingForgotten ==
    \A w \in Workers :
        helper[w] = "marked" \/ (socket[w] /\ w \notin swallowed) =>
            \/ Running(w)
            \/ rec[w] # None
            \/ LauncherAlive(w)
            \/ w \in unclean

(* wrap kill says "Killed" only of a worker that has let go of everything: *)
(* waitForStopped and the stale branch of killRecord against a worker that *)
(* is still closing, a second command that cleans up, and lost answers.    *)
(* All that may be left is a socket whose failed removal Run never learned *)
(* of.                                                                     *)
KilledIsStopped ==
    \A w \in killed :
        /\ wpc[w] \in {"remove", "gone", "dead"}
        /\ rec[w] = None /\ helper[w] # "marked"
        /\ socket[w] => w \in swallowed

(* A start that is reported as failed, without a complaint about cleanup,  *)
(* leaves no process, helper or socket behind, even if the worker became   *)
(* ready just as the deadline passed.                                      *)
FailedStartIsGone ==
    \A w \in failed \ unclean : ~Running(w) /\ helper[w] # "marked" /\ ~socket[w]

(* Pruning never takes the lease file or the diagnostics of an instance    *)
(* that has a record: the list it works from stays true while it deletes.  *)
PruneKeepsRecorded ==
    [][\A w \in Workers :
          (link[w] # 0 /\ link'[w] = 0) \/ (diag[w] /\ ~diag'[w]) => rec[w] = None]_vars

(* Every command ends: none waits for ever on the store lock, on a lease   *)
(* or on a worker.                                                         *)
CommandsFinish == \A p \in Commands : cmd[p].pc # "idle" ~> cmd[p].pc = "idle"

(* A worker that is told to stop, by a control request or by its launcher, *)
(* ends, also when it is still starting.                                   *)
WorkersStop == \A w \in Workers : stopped[w] ~> ~Running(w)

(* store.go:131-133: "Each deletion holds the instance lease, preventing a *)
(* pre-publication worker from racing cleanup": a worker that holds its    *)
(* lease holds it on the file that the lease path names.                   *)
HeldLeaseIsOnPath == \A w \in Workers : leased[w] => link[w] = lease[w]
=============================================================================
