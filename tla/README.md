# Specifications of Wrap

Wrap shares one tmux window with a phone. A `wrap` command starts a detached
worker process for the window; the worker runs a local WebSocket server behind a
Cloudflare tunnel, shows a pairing link, and mirrors the window into every
browser that proves it knows the link's secret. This directory holds TLA+ models
of the parts of Wrap that are hard to test, the TLC configurations that check
them on small instances, and TLAPS proofs about them.

## The system

| Part | Code | State it keeps | Operations |
|---|---|---|---|
| Manager | `mirror/manager.go` | state, secret, server, tunnel, clients, opening and active viewers, cleanup warning; `opMu` serialises operations, `mu` guards fields | Start, Rotate, Shutdown, Connected/open, Input, Close, Disconnected, the tunnel and viewer watchers |
| Local server | `mirror/server.go` | secret and its version, registered connections, handshake and client slots, context | accept, authenticate, register, SetSecret, Close |
| Connection | `mirror/client.go` | outbound queue with a closed flag, `viewerOpen`, socket | read loop, dispatch, writer, closeNow, closeWithControl |
| Viewer | `mirror/viewer.go` | a tmux client on a PTY, a counted reference on the window's size pin | Prepare, Start, Write, Close, run, Cleanup |
| Tunnel | `mirror/tunnel.go` | the cloudflared process | StartTunnel, Close, exit |
| Instance store | `instance/store.go` | record files, lease files with an flock, diagnostics files, the store lock | Create, RenameIfPID, RemoveIfPID, ReadAll, Resolve, AcquireLease, LeaseHeld, PruneCompletedArtifacts |
| Worker | `share/service.go` | one process per shared window: lease, helper session, mirror, control socket, record | Run and its deferred calls |
| Launcher | `share/process.go` | the readiness pipe and the child process | Start, stopStartedProcess, cleanupReapedWorkerArtifacts |
| Control | `control/*.go` | a Unix socket per worker | status, rename, rotate, shutdown |
| Commands | `cmd/wrap/commands.go` | what one command remembers between reading the records and acting on them | start, list, kill, doctor, show, regen, bootstrap |
| Helper | `target/*.go` | a tmux session linked to the shared window, marked with the instance ID | CreateHelper, Validate, CleanupHelper, Close |
| Names | `instance/name.go` | none | ValidateName, ChooseName |
| Channel | `mirror/cipher.go`, `pairing.go`, `protocol.go` | per-direction counters, poison flags | Seal, Open, frame validation |
| Browser | `mirror/assets/wrap-mirror.js` | the page's connection, its receive and send chains and counters, closing and stopped flags, the reconnect timer | connect, receiveMessage, queueFrame, closeSession, poison, reconnectNow, the socket's and the page's events |
| tmux adapter | `tmux/tmux.go` | none of its own | command lines, conditional commands, output parsing |
| Diagnostics | `mirror/diagnostics*.go`, `doctor/doctor.go` | log files | append, rotate; dependency and state checks |

How they meet: a command launches a worker (pipe, signals), finds it through its
record (store) and talks to it (control socket). Inside a worker the control
server calls the manager; the manager starts the local server and the tunnel; the
server calls the manager back from one goroutine per connection; the manager
starts viewers, whose goroutines call it back when they end. Between processes
there are only files, flocks, signals and the socket.

What is hard: an operation of the manager runs while handshakes, openings, inputs
and viewer exits of several connections are half done; locks are released between
the halves; every wait has a deadline and something may still run after it;
processes die with files half made; commands act on lists that were true when
they were read. `PROJECT.json` lists these hazards with the line of code and the
property that looks for each.

## Modules

* `PairingGate` is the abstract promise of the mirror: one credential in force at
  a time, a session is granted only while its credential is in force, and
  publishing or withdrawing a credential ends all sessions in that same step.
* `Mirror` is the manager, the local server, the connection handlers and the
  viewers. It refines `PairingGate`.
* `MirrorProofs`, `MirrorGateProofs`, `MirrorLifeProofs` and `MirrorEndProofs` prove
  theorems about `Mirror` for all values of its constants, each on top of the one
  before: types and credentials, the refinement of `PairingGate`, the life of a
  viewer, and the end of the mirror.
* `Registry` is the instance store, the workers, the launcher and the commands,
  as processes that share files. `RegistryProofs` proves its safety properties.
* `WindowPin` is the temporary manual size that viewers put on the mirrored
  window, against a host that changes the window itself. `Mirror` only counts the
  viewers that hold this pin.
* `WindowPinProofs` proves that the host's own size option survives, that the pin is
  counted and given back, and that the geometry is kept.
* `Channel` is one browser page and the worker across the page's successive
  sockets: the page's event loop, the handshake, the encrypted channel's counters
  and a connection's queue, writer, reader and close frames. `Mirror` has many
  connections and no frames; `Channel` has the frames of one page and only what a
  connection sees of the manager. `ChannelProofs` proves its safety properties.
* `Service` is one worker from the resolution of its target to its last deferred
  call, on a tmux server that may restart: target, helper session, run loop,
  control server, the mirror's event channel, and the cleanup by others. `Registry`
  has the same worker among other processes, with the tmux server left out.
* `ServiceProofs` proves that no session of the user is ever touched, that the worker
  stops for a reason, answers and cleans up.
* `MCMirror`, `MCRegistry`, `MCWindowPin`, `MCChannel` and `MCService` name what TLC
  needs: model values, symmetry sets and views.

Operators whose comment begins with "Mutant:" are wrong versions of a definition;
`PROJECT.json` pairs each with the property that must fail when it is used.

### Mirror

One action is one critical section or one stretch of a goroutine between two
points where another may step in. `op` is the operation that holds `m.opMu` with
the step it has reached; `MuFree` is false while Rotate holds `m.mu` across
SetSecret. A secret is its serial number; because `secretVersion` changes exactly
with the secret, `secretOf[s]` stands for both. `pc[c]` is where the goroutine of
connection `c` is, `viewer[c]` its viewer, `opening`, `active` and `withViewer`
the manager's maps. `qclosed` is "closeNow has run". `QueueFails` is the closeNow that
comes from elsewhere while the handler is still reading: from the viewer's output when
the queue overflows, or from the writer when a write fails; `broken` remembers whose
queue closed that way. `unrestored` records that the window pin has no owner left and
its restore failed.

Start: `StartBegin`, `StartServer`, `StartTunnel`, `StartCommit`, with a failing
or canceled variant at each step and `StartClosePartial`. Rotate: `RotateBegin`,
`RotateSetSecret`, one `RotateCut(c)` per registered connection, `RotateDetach`,
then the closing steps `Op...` that it shares with Shutdown and the tunnel
watcher, then `RotateEnd`. A connection: `Accept`, `Authenticate`, `Register`,
`Connected`, `Prepare`, `Reserve`, `StartViewer`, `BindViewer`, `Activate`; then
input, close, and `Disconnected` to `Exit`.

### Registry

A worker and its instance ID are one thing: IDs are random and used once, so the
PID compared by `RemoveIfPID` and `RenameIfPID` is right whenever the record
exists. Leases are modelled as the kernel sees them: `link[w]` is the inode the
lease path names, a process holds an inode it opened, and the lock belongs to the
inode. AcquireLease is two steps, open and flock. The store lock is held over
several steps only while pruning, so `pruner` is that lock.

A worker walks through `wpc`: lease, helper (created, then marked), mirror,
control socket, record, readiness, and back through the deferred calls of `Run`.
It can fail at every step where the code returns an error, and die at every step.
A command is a record in `cmd`: the records it has yet to visit, what it has seen,
and the cleanup it is in the middle of. The launcher is the same process after
`Launch`; cleaning up after a reaped worker uses the same steps as cleaning up a
stale record, without removing the record, as in the code. Status and shutdown
calls may fail against a healthy worker (the 5 s deadline), and a shutdown may be
carried out although its answer is lost.

Whether a worker's socket was removed and whether its `Run` learns of a failure are two
things (`CloseControl`): Serve drops the error of the removal when it returns another
one, `Run` takes `context.Canceled` for a clean stop, and an error that the loop has
received is not there for the deferred call any more. `dirty` is what `Run` knows,
`swallowed` remembers the workers that left a socket and took that for a clean end.

Modification times are not modelled: which `Retain` artifacts are the newest is
chosen freely, since the times come from the wall clock and from log files that
are still appended to. `completedArtifactRetention` is 32 in the code.

### WindowPin

`pinMu` is `busy`, the call that holds it with the step it has reached. A tmux
command list is one step, since tmux lets no other client in between; before and
after it the host may do anything. `Capture` is CaptureWindowSize with
parseWindowPin, or joining a pin that exists. `PinInstalled`, `PinMismatch`,
`PinConflict` and `PinFails` are the outcomes of PinWindowSize, `RolledBack` and
`RollbackFails` those of the rollback, `ReleaseWindow` and `Cleanup` lead to
`RestoreDone` or `RestoreFails`. `Faults` says what a command that returned an
error may have done: nothing, a part of its list, or all of it.

The window is linked into several `Sessions`, the source session and the helper. The
hooks that take the ownership mark away are after-hooks, which tmux keeps in a session:
a hook is `<<owner, kind, session>>`. A command list sets and unsets its hooks in the
one session that `-t @window` resolves to, which need not be the same session each
time, and a command of the host runs the hooks of the session it is aimed at (`Heard`).
The host sets and unsets the window's option and resizes the window from any session,
does the same to other windows (`HostSizesAnother`), changes the inherited option and
its terminals' size, and ends the window. A list that installs a pin may stop after
the claim, after the mark, after the resize or between the hooks (`InstallTorn`). A
pin owner is drawn from the values nobody uses.

The history says what the code cannot know. `host` is what the host last made of the
window's own option; `unheard`, that the mark outlived it; `disowned`, that the pin's
option stands without its mark although the host left the option alone: a hook heard
the host size another window or set the global option, a hook left behind by an earlier
pin heard this pin's own resize, or the list stopped between claim and mark, where the
rollback's owner check finds nothing to undo; `missed`, whose restore was reported as
done but left hooks in another session; `leaked`, that a failed rollback was reported,
after which the factory no longer knows the pin, or that the worker died with a pin.

### Channel

The page is an event loop. A message event (`Deliver`) only appends to the
receive chain `inbox`; `Receive` is the end of one decryption, with everything
`receiveMessage` then does. So a close event (`CloseEvent`) can overtake frames
that arrived before it, as in a browser. `outbox` is the send chain in the same
way. A frame is its tag with the counter it was sealed with, and opens only under
that counter. `Connect`, `ReconnectNow`, `Hide`, `Show`, `Type` and `CloseSession`
are the page's timer and its user.

The worker's side of a connection is `handler` (where `handleWebSocket` is) and
`client` (queue, counters, whether `closeWithFrame` waits for its frame, viewer).
`Push` is a frame queued by the manager, with the overflow that closes the queue;
`Write` is one turn of the writer, which blocks when the network takes nothing
more. `Rotate` and `Shutdown` are what these operations do to a connection, and
`OpenFails` is a worker that has no terminal to show and tells the page not to retry.
`why` is the reason the page has for having stopped, `causes` the events that may be
behind it. What
the WebSocket library answers when a read is cancelled (`LostCode`) follows
coder/websocket v1.8.15 and is marked external, like the browser's own closing
handshake.

### Service

Every tmux command is one step of the tmux server, under exactly the guard that
the command line carries: `SourceIsTarget`, `SetsOption`, `IsHelper`,
`IsMarkedHelper`. A restarted server hands out the same session IDs again and has
no generation until a Wrap command gives it one; the candidate generations are
random and are drawn as numbers that were not used before (`coined`). `sess` says
of each session who made it, which no guard may look at, besides its name, mark
and window. `pc` is the worker: `Ensure` to `ResolveTarget` is ResolveCurrent (in
the command that launches the worker, joined to it here), `Create` to `Bind` is
CreateHelper, the `Loop...` and `Validate...` actions are the cases of the select
in `Run`, and `StopControl` to `Exit` are its deferred calls. `ctl` is the control
server, `events` the channel that `publishSnapshot` fills, `taken` the snapshots
that were taken under the manager's lock and wait to be published outside it.
`InspectHelper`, `CleanupCloses` and `CleanupUnbinds` are CleanupHelper, run by
whoever has the lease after the worker. Faults, acts of the user and restarts
share one budget, `Mishaps`.

## Runs

| Run | Instance | Shows |
|---|---|---|
| `mirror_safety` | 2 connections, 1 server, 2 credentials | `NoRevokedSession` (no terminal without the credential in force), `ViewersOwned` (every viewer process has someone who will close it), `CleanShutdown` (Shutdown returns nil only when no viewer, handler, window pin, registration or server is left that it should have waited for), `LastWord` (every browser whose own queue and socket work is told about a shutdown) |
| `mirror_live` | 1 connection, 2 servers, 3 credentials, fair | `ImplementsGate` (refinement of `PairingGate`), `NoRevokedInput` (input of a withdrawn credential cannot reach the terminal after the withdrawing operation is done with the viewers), `ShutdownCompletes`, `RevokedLeaves`, `TypeOK` |
| `mirror_warning` | 1 connection, fair | violation, see Findings |
| `registry_leases` | 1 worker, 3 commands | `LeaseGuards` (no cleanup takes anything from a worker that uses it), `KilledIsStopped` ("Killed" is true, but for a socket whose removal failed unnoticed), `FailedStartIsGone` (a start reported as failed leaves nothing), `TypeOK` |
| `registry_names` | 2 workers, 2 windows, 2 names, 1 command at a time | `UnambiguousRecords` |
| `registry_prune` | 2 workers, retention 1 | `NothingForgotten` (what outlives a worker is still reachable, with the same exception), `PruneKeepsRecorded` |
| `registry_live` | 1 worker, 2 commands, retention 0, fair | `CommandsFinish`, `WorkersStop` |
| `registry_lease_race` | 2 workers, 2 commands, retention 1 | violation, see Findings |
| `window_pin` | 2 viewers, 2 sessions, 2 attempts, tmux failing before, midway and after, worker death, fair | `HostAuthoritative` (an option the host gave its window is never replaced or removed, except the very value of the pin when no hook heard it), `WindowGivenBack` (when nobody watches, no mark is left, no hook but where a restore did not look, and no option the host did not set unless the pin lost its mark for another reason), `GeometryKept` (the window keeps the geometry every viewer was told), `CallsReturn` (pinMu is given back), `TypeOK`, which counts the pin's references |
| `channel` | 2 sockets, 1 client slot, queue and network of 1 frame, 3 counter values, fair | `CountersInStep` (both ends count alike and no counter is used twice), `OutputHasNoHoles` (a slow browser loses its connection, never a part of its output), `TerminalOfConnection` (a late decryption revives nothing), `StopIsExplained` (every reason a page gives for having stopped has a cause of its kind), `PageSettles` (it does not hang between connections: it shows a terminal, waits for the answer to a close, has stopped or is frozen), `SlotGivenBack` |
| `channel_close` | the same, smaller | violation, see Findings |
| `service` | 3 sessions, channel of 2, 2 faults, fair | `ForeignUntouched`, `StopHasCause` (a worker gives its target up only when something changed), `HelperRemoved`, `ShutdownAnswered` (the request that ends the worker gets its answer), `WorkerEnds` |

Bounds. Two connections are enough for one to hold what the other needs (the last
reference on the window pin, the handshake slot, a place in a map) and each goes
through its whole life. Two servers let an old server's handlers meet a new
manager state; three credentials let a connection be two rotations late. In the
registry three commands let one clean up, one wait for a kill and one launch.
With one command process two workers still run side by side, because a command
may be killed or finish while its worker goes on. Most runs compare states through a
`VIEW` that leaves out what decides nothing later. `mirror_live` and `registry_live`
leave out variables that are only written (the history, the warning) and none of their
properties mentions. `mirror_safety`, `registry_leases` and `registry_prune` also leave
out what processes and handlers that have ended leave behind in variables only they
read, such as `dirty` or `stopped` of a worker that is gone, and what was reported of a
worker of which nothing is left; `registry_names` leaves out the helper, the diagnostics
files and the history, which decide nothing about names when the retention is never used
up. `channel` keeps of its history only the causes that a frame still under way may
need. In the runs with fairness no step changes only what the view leaves out.
Two viewers share a pin, follow each other, join a pin whose restore failed, and meet
the hooks that the other's pin left behind. Two sizes are enough because the code
only asks whether the size is the captured one, two sessions because a hook is either
in the session a command is aimed at or not.
In `channel` the second socket is the one the page replaces the first with, and
nothing depends on a third; a queue and a network of one frame are full at once; the
counters' last value is 3 instead of 2^64 - 1, so that a channel can use them up;
one disturbance may break a connection in the middle of any of the others. In
`service` one session is the user's, one the helper, and one is the user's under
an ID the helper had or will have; two faults let the server restart after a
failed command, or twice; a channel of two slots instead of 64 is full after the
two snapshots of Start.
`registry_leases` uses a retention that is never exhausted: with an exhausted one
the lease race below breaks the premise of `LeaseGuards`.

Fairness. `Mirror`: every goroutine that can step does, an operation in `opMu` goes on,
and waits with a timeout end; nothing makes a browser send, leave or authenticate, or a
tunnel exit. `Registry`: every process that can step does, for a worker excluding a
failure while it serves; the deadline of `waitForStopped` gets strong fairness because the
poll keeps leaving the state in which the deadline is tested. Crashes are never fair.
`WindowPin`: every tmux command the factory runs returns, with a result or an error; the
host owes nothing. `Channel`: for each connection, whatever the page's event loop, the
worker's goroutines and their timeouts can do for it is done, including the failures that
follow from the state; the disturbances, typing, closing and freezing are not owed.
`Service`: the worker's goroutine, the control server and watchTunnel step when they can,
with weak fairness; the cases of the select for the context and for the event channel get
strong fairness, because Go picks among the ready cases at random, so one that is ready
again and again is taken.

## Proofs

Every safety property of the passing runs is proved for all values of the constants,
the two about leases under the premise stated below. Each proof rests only on the
assumption its module names (`MirrorAssumption`, `RegistryAssumption`, ...: bounds are
natural numbers, the sets the code keeps finite are finite, a model value for "nothing"
is not a member). A property is seldom inductive; what follows is the strengthening each
one needs and why. TLC checked the strengthenings on the runs' instances before they
were proved.

### Mirror

`TypeCorrect` and `NoRevokedSessionAlways` (`MirrorProofs`). That an active connection
has the credential in force depends on what Rotate is in the middle of. `CredentialInv`
is `OpInv` (what the operation's step says about the lock and the server it works on),
`ServerInv` (the manager's secret is the secret of its server, except between SetSecret
and the assignment of `m.secret`, and a server that is gone is cancelled), `ConnInv` (a
registered connection has the secret of its server unless its queue is closed or Rotate
is still about to cut it off) and `SessionInv` (a reserved or active connection is
registered on the manager's server with its queue open or about to be cut under `m.mu`).
Actions that touch none of these variables go through `CredentialFrame`.

`MirrorImplementsGate` (`MirrorGateProofs`): `Spec => ImplementsGate`, the refinement of
`PairingGate`. It needs `GateInv` besides: credentials are issued in order, so one that
was withdrawn never comes back (`SecretInv`), and a connection's credential is never
newer than its server's (`PairedInv`). `QuietStep` collects what no step of a connection
touches, so that only the manager's own steps have to be mapped one by one.

`ViewersAlwaysOwned`, `NoRevokedInputAlways` (`MirrorLifeProofs`). `OwnedInv` says who
answers for a viewer until its pin is released, which is later than the end of its
process that `ViewersOwned` speaks of; detaching moves viewers from the map to the
operation, in the same step.

`LastWordAlways`, `ShutdownIsClean` (`MirrorEndProofs`). `CancelInv` says whose context is
done; `TellInv` that a connection which was not told yet, and whose queue has not closed
by itself (`broken`), is on the list of whoever ends its server, or will be; `DrainInv`
what a handler still holds at each of its steps, and that the handlers of a server that is
gone have returned or were given up on.

### WindowPin

`HostAlwaysAuthoritative`, for any viewers, sizes, owners, sessions, faults and number of
attempts, with workers that die. That the option is the host's cannot be read off the
option; `HostInv` says how the code knows. `HostKept`: if the host gave the window an
option, the window has it, apart from the exception the property names. `MarkWarned`: if
the mark stands and the host has made the window manual itself, nobody heard it; a restore
removes a manual option under its mark, so this exception is the only way for it to take
the host's. `MarkKnown`: a mark is an owner's value. `CallsKnown`: a restore or a rollback
only runs for a pin that was claimed, by its owner.

`PinCountsItsViewers` (`PinInv`: the count is the cardinality of the viewers that hold the
pin, and `CallInv` says for each step of a call which viewers those can be),
`WindowAlwaysGivenBack` (`LeftInv`: nothing of a pin is on the window but what its present
claimant put there, the hooks of those `missed`, and a `disowned` option) and
`GeometryAlwaysKept` (`GeoInv`: also while a restore that failed has left the pin without
viewers, since the next viewer joins it).

### Service

`UserSessionsUntouched`, for any number of sessions, restarts, faults and any channel
capacity. No guard knows who made a session, so `OwnInv` says what the guards are worth:
`GenerationsAreFresh` (a restarted server never has the worker's generation again),
`NameIsOwn` (a session with the helper's name was made by Wrap: the name holds the random
instance ID, and the user is assumed not to choose it), `IdIsOwn` (while CreateHelper uses
an ID without its name, on that server the ID is not a session of the user and will not be
handed out again), `Resolved` and `Shapes`.

`WorkerTypeCorrect` (the event channel stays within its capacity),
`ShutdownAlwaysAnswered` (`AnswerInv`: a request being answered keeps the control server, and
that keeps the worker), `StopAlwaysHasCause` (`IntactInv`: as long as nobody touched target,
helper or server, everything Validate asks for is there; `FailedInv`: nothing says "failed"
before the tunnel's exit was seen) and `HelperAlwaysRemoved` (`LeftInv`: the helper shows
the target before it is marked and is marked before it is used, so the guard on the mark
finds it).

### Registry

`RegistryTypeCorrect`, `RecordsAlwaysUnambiguous`, `NothingEverForgotten`,
`FailedStartsLeaveNothing` and the action property `PruneAlwaysKeepsRecorded`, for any
number of workers, commands, windows and names and any retention. None of them uses the
leases. `TypeInv` carries what a command knows at each step (`Sane`). `FateInv` says who
answers for what a worker made: whoever is listed has published (`ListedInv`), a launcher
cleans up only after its worker has ended (`ReapInv`), whoever removes a record or reports
a failed start has removed helper and socket before, and a worker that ends as if cleanly
has left at most a socket it does not know of (`SweptInv`), and until a worker has
published its launcher is there (`KnownInv`). `PruneInv`: what the pruner has in hand has no
record as long as it holds the store lock. A step is reduced to `Onward` (what it may do to a
worker) and `Errand` (to a command) first.

`LeaseOnPathGuards`: `Spec /\ []HeldLeaseIsOnPath => []LeaseGuards /\ []KilledIsStopped`.
`registry_lease_race` shows that the premise can fail. `LeaseInv`: a worker holds its lease
while it has something to lose, a command that visits it has opened the same file and so
has not locked it (`HoldInv`), and who is reported killed has no record and nothing it led
to, a socket that was `swallowed` apart (`KillInv`).

`OnlyTheGapMatters` replaces that premise by one about pruning, with any number of workers
and any retention, and with pruning of everything else at any time:
`Spec /\ []NobodyPrunesInTheGap => []HeldLeaseIsOnPath /\ []LeaseGuards /\
[]KilledIsStopped`, where `NobodyPrunesInTheGap` says that no pruner has locked the very
lease file that a worker has opened and not locked yet. `PathInv`: a lease that is held, or
that the pruner holds, is the file on the path. So the finding is the only gap.

### Channel

A step is reduced to what it does to one connection: `Touched` has fourteen forms
(`StepTouches`), and the invariants are proved from these forms, not from the thirty-odd
actions. They build on each other:

* `BaseInv`: types, what a connection cannot have at its stage (`Staged`), and the page's
  connection (`PageInv`). `TerminalAlwaysOfConnection` is part of it.
* `StepInv`, for `CountersAlwaysInStep`: the frame at place `i` of what has arrived carries
  the counter the page will have by then, on across what is on the network, and the
  worker's next counter follows, as long as neither end is closed. Frames behind a close and
  a poisoned connection are exempt, which is why `CountersInStep` speaks of sound
  connections. The server's nonce is not counted (`Nonces`).
* `TallyInv`, for `OutputNeverHasHoles` and for the bounds in `ChannelTypeCorrect`: shown,
  arrived, on the way and queued output add up to what was pushed.
* `CauseInv` and `OrderInv`, for `StopAlwaysExplained`. Nothing asks to close, acknowledges a
  close, announces a shutdown or closes for policy without its cause (`Asked`, `Calm`,
  `Caused`). The hard part is that a frame which opens is never `Unexpected`: the ready
  frame has counter 0 and output has not (`Numbered`), nothing is sealed before the
  connection has a queue (`Unsealed`), and output is preceded by plain frames only and finds
  a page that takes it (`Ordered`). Only the page's connection or one it has replaced has
  frames left to encrypt (`Muted`), so a send that fails is never a stale one.

### Checked by TLC only

Liveness and everything that needs fairness: `ShutdownCompletes`, `RevokedLeaves`,
`CommandsFinish`, `WorkersStop`, `CallsReturn`, `PageSettles`, `SlotGivenBack` and
`WorkerEnds`; this prover has no rules for fairness and ENABLED. That the three violated
properties fail is shown by their counterexamples.

## Findings

* `mirror_warning`: `Rotate` clears `cleanupWarning` after its own cleanup
  succeeded (`manager.go:361`). If a disconnecting connection failed to restore
  the window and recorded the warning while Rotate was closing viewers, the
  warning is erased while the window is still pinned; the comment above promises
  that cleanup failures remain visible.
* `registry_lease_race`: between a new worker's open and flock of its lease file
  (`store.go:61`, `store.go:73`) a pruner may lock and unlink that file. The worker
  then holds a lock nobody can see: a later command that gets no answer in time
  finds the lease free and removes helper, socket and record of a live worker. It
  takes 32 other unrecorded artifacts that count as newer, so it needs a clock
  that was set back or a burst of starts; `AcquireLease` does not compare the locked file
  with the path as `pruneCompletedArtifact` does before it unlinks.
* `channel_close`: `receiveMessage` drops a decrypted frame when the page has moved on
  (`wrap-mirror.js:1077`). The worker closes the socket right behind the
  acknowledgement of a close, so the close event can come while the acknowledgement
  is being decrypted; the page then reconnects and opens the terminal the user has
  closed. `browser_contract_test.go` tests that it does not, in the other order.

## Observations

Behaviour of the code that a property names as an exception or has to make room for, and
that no run of its own refutes:

* The hooks are in one session of the window (`tmux.go:795-797`). A host that makes the
  window manual from another session is not heard, and the restore removes the host's
  option (`unheard` in `HostAuthoritative`), although `docs/troubleshooting.md` says that
  host-side changes remain authoritative. The same happens when the host's change comes
  before the hooks of a list that stopped midway.
* The hooks ask for no window, and the restore looks for them in one session. A host that
  sizes another window of the session takes the mark from the pin, and a hook that an
  earlier pin left behind takes it from the next; the temporary option then stays and
  nothing is reported (`disowned`, `missed` in `WindowGivenBack`). So it does when tmux
  stops the list between claim and mark.
* A control socket that cannot be removed is forgotten. After a cancellation Serve returns
  `ctx.Err()` instead of the error of the removal (`control/server.go:69`), `Run` ignores
  it (`service.go:178`), and an error that the loop has read (`service.go:212`) is not there
  for the deferred call; the record goes and the socket stays (`swallowed`).
* A frame whose decryption ends after the page has left its connection is dropped without
  advancing the counter (`wrap-mirror.js:1077`). So when a socket closes with two or more
  frames undecrypted, the second fails to decrypt and poisons a connection that is gone.
  Only `reconnectNow` marks a connection as superseded; one that closed by itself is not,
  and the poison stops the page, which says "Reconnecting…" or already has another
  connection (`"stale"` in `StopIsExplained`).
  `TestBrowserStalePoisonCannotStopReplacementConnection` tests that it cannot, for a
  superseded connection.
* A viewer that fails to close sends no acknowledgement, so the page reconnects to the
  terminal the user has closed. Typing while the worker shuts down can make Input
  fail, and the closeNow that follows cuts off the shutdown frame.
* A requested shutdown can be reported as an error: the loop of `Run` may pick the
  control server's `context.Canceled`, or the validation that the cancellation
  interrupted.
* A snapshot taken before the tunnel exited and published after it can displace the
  Failed one on a full event channel; the worker then goes on without its tunnel
  (`overtaken` in `WorkerEnds`). It takes 64 snapshots that the loop has not read.
* `open` drops the error of closing a prepared viewer when the manager shuts down
  (`manager.go:465`): a window restore that fails there is reported by nobody.
* The helper's key table stays bound when unbind fails after the session was killed,
  when the worker dies between the two, or when the user kills the helper. A helper
  whose worker dies before the mark is left behind: CleanupHelper rightly refuses what
  it cannot identify.

## Not modelled

The cryptography beyond counters (AES-GCM, HKDF, the pairing URL and its QR code); the
contents, encoding and byte limits of frames, records and control messages; rendering,
resizing and touch input in the browser; HTTP assets and the page's diagnostics; the log
file and its rotation; the check of a viewer's geometry after it has attached; malformed
records, symlinks, permissions and I/O errors other than those named in an action; a
process that survives SIGKILL; `wrap` outside tmux with the session it creates and its
rollback (`target/create.go`); the derivation of names; tmux commands no worker uses, and
the quoting and parsing of tmux command lines. In `WindowPin` the window's sessions stay; a
helper session that ends takes the hooks in it along.

## Plan

Done: `PairingGate`, `Mirror`, `Registry`, `WindowPin`, `Channel` and `Service` with their
runs, and proofs of all their safety properties. Next, in this order:

1. The bootstrap outside tmux and its rollback, as steps before `Launch` in `Registry`.
2. `Names`: ChooseName and ValidateName as functions against a reference.
3. Proofs: `HeldLeaseIsOnPath` without the premise of `OnlyTheGapMatters`, once
   `AcquireLease` compares the file it has locked with the path.
