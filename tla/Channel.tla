------------------------------ MODULE Channel ------------------------------
(***************************************************************************)
(* One paired browser page and the worker, across the page's successive    *)
(* WebSocket connections: the page's connection logic (wrap-mirror.js), the *)
(* encrypted channel with its counters (cipher.go), the handshake           *)
(* (server.go), and a connection's outbound queue, writer, reader and close *)
(* frames (client.go).                                                     *)
(*                                                                         *)
(* The page is an event loop: a message event only appends to receiveChain, *)
(* and a frame takes effect when its decryption ends, so a close event can  *)
(* overtake frames that arrived before it.  A frame is its tag and the      *)
(* counter it was sealed with; it opens only under that counter.  A viewer  *)
(* and the manager are reduced to what a connection sees of them; Mirror    *)
(* has the rest.                                                           *)
(***************************************************************************)
EXTENDS Naturals, Sequences, FiniteSets

CONSTANTS
    Conns,          \* sockets that can exist at once
    None,           \* no connection
    MaxClients,     \* client slots of the server
    QueueLimit,     \* MaxClientQueueBytes, in frames
    WireLimit,      \* frames the network takes before a write blocks
    LastCounter,    \* the counter value that is never used: MaxUint64
    Outputs,        \* bound on terminal output
    Disturbances    \* bound on faults and on what the user does

ASSUME ChannelAssumption ==
    /\ Conns # {} /\ IsFiniteSet(Conns) /\ None \notin Conns
    /\ {MaxClients, QueueLimit, WireLimit, LastCounter} \subseteq Nat \ {0}
    /\ {Outputs, Disturbances} \subseteq Nat

VARIABLES
    page,       \* the page's globals
    frozen,     \* hidden, and not running
    sock,       \* readyState of each socket
    peer,       \* authenticated, poisoned, superseded and the counters of a connection;
                \* got: history, the outputs it was shown
    inbox,      \* receiveChain: frames that arrived and are not decrypted yet
    outbox,     \* sendChain: frames that are not encrypted yet
    up, down,   \* frames on their way to the worker and to the page
    handler,    \* where handleWebSocket is
    client,     \* the worker's Client: queue, counters, final: closeWithFrame waits for a
                \* result, viewer; given: history, the outputs pushed
    current,    \* the page's secret is the pairing credential in force
    live,       \* the worker serves
    outs, bothers,
    why,        \* history: why the page stopped
    causes      \* history: which of Causes there have been

pageVars   == <<page, frozen>>
sockVars   == <<sock, peer, inbox, outbox>>
wireVars   == <<up, down>>
workerVars == <<handler, client>>
bounds     == <<outs, bothers>>
hist       == <<why, causes>>
vars == <<pageVars, sockVars, wireVars, workerVars, current, live, bounds, hist>>

\* What may make a page stop, besides rotation and shutdown: the user asked to close, frames
\* were left undecrypted when the page's socket closed, a counter ran out, or the worker had
\* no terminal to show.
Causes == {"asked", "left", "exhausted", "unavailable"}

Noted(cause, happened) == IF happened THEN causes \cup {cause} ELSE causes

\* Close codes: abnormal, policy violation, try again later.
Codes == {1006, 1008, 1013}
Fin(code) == [tag |-> "fin", n |-> code]
Frame(tag, n) == [tag |-> tag, n |-> n]

NoPeer == [auth |-> FALSE, poisoned |-> FALSE, superseded |-> FALSE, send |-> 0, recv |-> 0,
           got |-> 0]
NoClient == [frames |-> <<>>, closed |-> FALSE, final |-> FALSE, send |-> 0, recv |-> 0,
             viewer |-> "none", given |-> 0]

\* Frames after which the worker closes the connection.
FinalTags == {"close", "error_stop", "shutdown"}
Tags == FinalTags \cup {"ready", "output", "error_retry"}

Init ==
    /\ page = [conn |-> None, shown |-> None, closing |-> FALSE, stopped |-> FALSE,
               timer |-> TRUE]
    /\ frozen = FALSE
    /\ sock = [c \in Conns |-> "closed"] /\ peer = [c \in Conns |-> NoPeer]
    /\ inbox = [c \in Conns |-> <<>>] /\ outbox = [c \in Conns |-> <<>>]
    /\ up = [c \in Conns |-> <<>>] /\ down = [c \in Conns |-> <<>>]
    /\ handler = [c \in Conns |-> "gone"] /\ client = [c \in Conns |-> NoClient]
    /\ current = TRUE /\ live = TRUE /\ outs = 0 /\ bothers = 0
    /\ why = "none" /\ causes = {}

Bother == bothers < Disturbances /\ bothers' = bothers + 1

-----------------------------------------------------------------------------
\* The page: sockets

\* A socket nobody knows any more.
Unused(c) == sock[c] = "closed" /\ inbox[c] = <<>> /\ handler[c] = "gone"

\* Sockets are alike: a new one is the first that is not in use.
Fresh(c) == Unused(c) /\ c = CHOOSE d \in Conns : Unused(d)

\* socket.close(): the close event follows; a frame that arrives meanwhile is not
\* dispatched, and the worker reads the end of the stream.
Closing(c) ==
    [d \in Conns |-> IF d = c /\ sock[d] \in {"connecting", "open"} THEN "closing" ELSE sock[d]]

Hangup(c) ==
    [d \in Conns |-> IF d = c /\ sock[d] = "open" THEN Append(up[d], Fin(1006)) ELSE up[d]]

\* connect: the page's connection is a new socket, in the state s of the sockets.
Open(c, s) ==
    /\ Fresh(c)
    /\ sock' = [s EXCEPT ![c] = "connecting"]
    /\ outbox' = [outbox EXCEPT ![c] = <<>>]
    /\ down' = [down EXCEPT ![c] = <<>>]
    /\ UNCHANGED inbox

\* The reconnect timer; a page that has stopped meanwhile does not connect.
Connect(c) ==
    /\ ~frozen /\ page.timer
    /\ IF page.stopped
       THEN /\ page' = [page EXCEPT !.timer = FALSE]
            /\ UNCHANGED <<sockVars, wireVars>>
       ELSE /\ page' = [page EXCEPT !.timer = FALSE, !.conn = c]
            /\ Open(c, sock)
            /\ peer' = [peer EXCEPT ![c] = NoPeer]
            /\ up' = [up EXCEPT ![c] = <<>>]
    /\ UNCHANGED <<frozen, workerVars, current, live, bounds, hist>>

\* reconnectNow leaves the page's socket behind and connects.
Replace(c) ==
    /\ page' = [page EXCEPT !.conn = c, !.shown = None, !.closing = FALSE, !.timer = FALSE]
    /\ Open(c, Closing(page.conn))
    /\ peer' = [d \in Conns |-> CASE d = c         -> NoPeer
                                  [] d = page.conn -> [peer[d] EXCEPT !.superseded = TRUE]
                                  [] OTHER         -> peer[d]]
    /\ up' = [Hangup(page.conn) EXCEPT ![c] = <<>>]

\* The Reconnect button.
ReconnectNow(c) ==
    /\ ~frozen /\ ~page.stopped /\ ~page.closing /\ Bother
    /\ Replace(c)
    /\ UNCHANGED <<frozen, workerVars, current, live, outs, hist>>

\* The phone is locked or another tab is shown; the page may not run at all.  Bound: it
\* has no event left of an earlier socket.
Hide ==
    /\ ~frozen /\ Bother
    /\ \A d \in Conns \ {page.conn} : sock[d] = "closed" /\ inbox[d] = <<>>
    /\ frozen' = TRUE
    /\ UNCHANGED <<page, sockVars, wireVars, workerVars, current, live, outs, hist>>

\* A connection that authenticated and is still open is kept.
Healthy(c) == c # None /\ peer[c].auth /\ ~peer[c].poisoned /\ sock[c] = "open"

\* handleVisibilityChange and reconnectIfStale.
Show(c) ==
    /\ frozen
    /\ frozen' = FALSE
    /\ IF page.stopped \/ page.closing \/ Healthy(page.conn)
       THEN UNCHANGED <<page, sockVars, wireVars>>
       ELSE Replace(c)
    /\ UNCHANGED <<workerVars, current, live, bounds, hist>>

\* scheduleReconnect in the close listener.
Reconnects(code) == ~page.stopped /\ code # 1008

\* The close event.  Frames that are not decrypted yet stay in receiveChain; frames that
\* are not encrypted yet reach nobody any more.
CloseEvent(c, code) ==
    /\ ~frozen
    /\ \/ sock[c] = "closing" /\ code = 1006
       \/ sock[c] = "open" /\ down[c] # <<>> /\ Head(down[c]) = Fin(code)
    /\ sock' = [sock EXCEPT ![c] = "closed"]
    /\ down' = [down EXCEPT ![c] = <<>>]
    /\ IF page.conn # c
       THEN UNCHANGED <<page, hist>>
       ELSE /\ page' = [page EXCEPT !.conn = None, !.shown = None, !.closing = FALSE,
                                    !.stopped = @ \/ code = 1008,
                                    !.timer = Reconnects(code)]
            /\ why' = IF why = "none" /\ code = 1008 THEN "rejected" ELSE why
            /\ causes' = Noted("left", inbox[c] # <<>>)
    /\ outbox' = [outbox EXCEPT ![c] = <<>>]
    /\ peer' = [peer EXCEPT ![c] = IF inbox[c] = <<>> THEN NoPeer ELSE @]
    /\ up' = [up EXCEPT ![c] = IF handler[c] = "gone" THEN <<>> ELSE @]
    /\ UNCHANGED <<frozen, inbox, workerVars, current, live, bounds>>

\* The server cannot be reached, is full or is starting; or the socket was left
\* before it opened.
Refused(c) ==
    /\ ~frozen /\ sock[c] = "connecting"
    /\ IF live THEN Bother ELSE UNCHANGED bothers
    /\ sock' = [sock EXCEPT ![c] = "closed"]
    /\ page' = IF page.conn # c THEN page
               ELSE [page EXCEPT !.conn = None, !.timer = ~page.stopped]
    /\ UNCHANGED <<frozen, peer, inbox, outbox, wireVars, workerVars, current, live, outs, hist>>

\* The message event.
Deliver(c) ==
    /\ ~frozen /\ sock[c] = "open"
    /\ down[c] # <<>> /\ Head(down[c]).tag # "fin"
    /\ inbox' = [inbox EXCEPT ![c] = Append(@, Head(down[c]))]
    /\ down' = [down EXCEPT ![c] = Tail(@)]
    /\ UNCHANGED <<pageVars, sock, peer, outbox, up, workerVars, current, live, bounds, hist>>

-----------------------------------------------------------------------------
\* The page: frames

\* queueFrame.
QueueFrame(c, tag) ==
    outbox' = [outbox EXCEPT ![c] = IF peer[c].poisoned \/ sock[c] # "open" THEN @
                                    ELSE Append(@, tag)]

\* poison(target, false): the counters cannot be trusted any more.  A socket that has
\* closed by itself was not superseded, and stops the page, too.
Poison(c) ==
    /\ peer' = [peer EXCEPT ![c].poisoned = TRUE]
    /\ page' = [page EXCEPT !.stopped = @ \/ ~peer[c].superseded]
    /\ why' = IF why # "none" \/ peer[c].superseded THEN why
              ELSE IF page.conn = c THEN "poisoned" ELSE "stale"
    /\ sock' = Closing(c)
    /\ up' = Hangup(c)
    /\ causes' = Noted("exhausted", LastCounter \in {peer[c].send, peer[c].recv})
    /\ UNCHANGED outbox

Stop(reason) ==
    /\ why' = IF why = "none" THEN reason ELSE why
    /\ UNCHANGED causes

\* Opened frames that do not fit the state of the page.
Unexpected(c, tag) ==
    \/ tag = "close" /\ ~(peer[c].auth /\ page.closing)
    \/ tag = "ready" /\ (peer[c].auth \/ page.shown # None)
    \/ tag = "output" /\ (~peer[c].auth \/ (~page.closing /\ page.shown = None))

\* The tail of receiveMessage: a frame that was opened and is expected.
Handle(c, tag) ==
    /\ peer' = [peer EXCEPT ![c].recv = @ + 1, ![c].auth = @ \/ tag = "ready",
                            ![c].got = IF tag = "output" THEN @ + 1 ELSE @]
    /\ CASE tag = "close" ->
              /\ page' = [page EXCEPT !.stopped = TRUE, !.shown = None, !.closing = FALSE]
              /\ Stop("acknowledged")
              /\ UNCHANGED <<sock, up>>
         [] tag = "ready" ->
              /\ page' = [page EXCEPT !.shown = c]
              /\ UNCHANGED <<sock, up, hist>>
         [] tag = "output" -> UNCHANGED <<page, sock, up, hist>>
         [] tag \in {"error_retry", "error_stop"} ->
              /\ page' = [page EXCEPT !.shown = None, !.closing = FALSE,
                                      !.stopped = @ \/ tag = "error_stop"]
              /\ IF tag = "error_stop" THEN Stop("refused") ELSE UNCHANGED hist
              /\ sock' = Closing(c)
              /\ up' = Hangup(c)
         [] tag = "shutdown" ->
              /\ page' = [page EXCEPT !.stopped = TRUE]
              /\ Stop("ended")
              /\ sock' = Closing(c)
              /\ up' = Hangup(c)
    /\ UNCHANGED outbox

\* The server's nonce: the keys are derived, the client's nonce goes out unsealed
\* and the hello is queued behind it.
Greet(c) ==
    /\ up' = [up EXCEPT ![c] = IF sock[c] = "open" THEN Append(@, Frame("nonce", 0)) ELSE @]
    /\ QueueFrame(c, "hello")
    /\ UNCHANGED <<page, sock, peer, hist>>

\* Mutant: the connection is not compared again after the decryption.
AnyConnection(c) == TRUE

\* connection === target, asked again when the await has returned.
IsCurrent(c) == page.conn = c

\* receiveMessage, when the derivation or decryption it awaited has ended.
Receive(c) ==
    /\ ~frozen /\ inbox[c] # <<>>
    /\ inbox' = [inbox EXCEPT ![c] = Tail(@)]
    /\ LET f == Head(inbox[c]) IN
       CASE peer[c].poisoned -> UNCHANGED <<page, sock, peer, outbox, up, hist>>
         [] ~peer[c].poisoned /\ f.tag = "nonce" ->
              IF IsCurrent(c) THEN Greet(c) ELSE UNCHANGED <<page, sock, peer, outbox, up, hist>>
         [] ~peer[c].poisoned /\ f.tag # "nonce" ->
              IF f.n # peer[c].recv \/ peer[c].recv = LastCounter THEN Poison(c)
              ELSE IF ~IsCurrent(c) THEN UNCHANGED <<page, sock, peer, outbox, up, hist>>
              ELSE IF Unexpected(c, f.tag) THEN Poison(c)
              ELSE Handle(c, f.tag)
    /\ UNCHANGED <<frozen, down, workerVars, current, live, bounds>>

\* The step of sendChain: encrypt under the next counter, count, send.
Send(c) ==
    /\ ~frozen /\ outbox[c] # <<>>
    /\ CASE peer[c].poisoned ->
              /\ outbox' = [outbox EXCEPT ![c] = Tail(@)]
              /\ UNCHANGED <<page, sock, peer, up, hist>>
         [] ~peer[c].poisoned /\ peer[c].send = LastCounter -> Poison(c)
         [] ~peer[c].poisoned /\ peer[c].send # LastCounter ->
              /\ outbox' = [outbox EXCEPT ![c] = Tail(@)]
              /\ peer' = [peer EXCEPT ![c].send = @ + 1]
              /\ up' = [up EXCEPT ![c] = IF sock[c] = "open"
                                         THEN Append(@, Frame(Head(outbox[c]), peer[c].send))
                                         ELSE @]
              /\ UNCHANGED <<page, sock, hist>>
    /\ UNCHANGED <<frozen, inbox, down, workerVars, current, live, bounds>>

\* terminal.onData.  Bound: one input at a time.
Type(c) ==
    /\ ~frozen /\ page.conn = c /\ page.shown # None /\ peer[c].auth
    /\ outbox[c] = <<>> /\ up[c] = <<>> /\ Bother
    /\ QueueFrame(c, "input")
    /\ UNCHANGED <<pageVars, sock, peer, inbox, wireVars, workerVars, current, live, outs, hist>>

\* closeSession.
CloseSession(c) ==
    /\ ~frozen /\ page.conn = c /\ peer[c].auth /\ page.shown # None /\ ~page.closing
    /\ page' = [page EXCEPT !.shown = None, !.closing = TRUE]
    /\ QueueFrame(c, "close")
    /\ causes' = Noted("asked", TRUE)
    /\ UNCHANGED <<frozen, sock, peer, inbox, wireVars, workerVars, current, live, bounds, why>>

-----------------------------------------------------------------------------
\* The worker: handshake

\* The connection is closed with a code; a page that already closed it does not see it.
Hung(c, code) == [down EXCEPT ![c] = IF sock[c] = "open" THEN Append(@, Fin(code)) ELSE @]

\* handleWebSocket returns; what it held is garbage.
Return(c) ==
    /\ handler' = [handler EXCEPT ![c] = "gone"]
    /\ client' = [client EXCEPT ![c] = NoClient]
    /\ up' = [up EXCEPT ![c] = <<>>]

Leave(c, code) == Return(c) /\ down' = Hung(c, code)

\* handleWebSocket up to the server's nonce.  The secret is read before the upgrade.
Accept(c) ==
    /\ live /\ sock[c] = "connecting"
    /\ sock' = [sock EXCEPT ![c] = "open"]
    /\ handler' = [handler EXCEPT ![c] = IF current THEN "handshake" ELSE "stranger"]
    /\ down' = [down EXCEPT ![c] = <<Frame("nonce", 0)>>]
    /\ UNCHANGED <<pageVars, peer, inbox, outbox, up, client, current, live, bounds, hist>>

\* What a step of the worker leaves alone.
Steady == UNCHANGED <<pageVars, sockVars, current, live, hist>>

\* Mutant: a wrong secret is reported like a lost connection.
AbnormalCode == 1006

\* StatusPolicyViolation: the page's secret is not the one in force.
PolicyCode == 1008

\* authenticateClient: the client's nonce, and a hello that opens only under the secret.
Authenticate(c) ==
    /\ Len(up[c]) >= 2 /\ up[c][1].tag = "nonce" /\ up[c][2].tag = "hello"
    /\ \/ /\ handler[c] = "handshake"
          /\ handler' = [handler EXCEPT ![c] = "joining"]
          /\ client' = [client EXCEPT ![c].recv = 1]
          /\ up' = [up EXCEPT ![c] = SubSeq(@, 3, Len(@))]
          /\ UNCHANGED down
       \/ /\ handler[c] = "stranger"
          /\ Leave(c, PolicyCode)
    /\ UNCHANGED bounds /\ Steady

\* The WebSocket library closes a connection when the context of a Read ends, so the
\* policy violation that follows a handshake timeout does not go out.
LostCode == 1006

HungUp(c) == up[c] # <<>> /\ up[c][Len(up[c])].tag = "fin"

\* The page left, did not answer within HandshakeTimeout, or the worker shut down.
HandshakeEnds(c) ==
    /\ handler[c] \in {"handshake", "stranger"}
    /\ IF HungUp(c) \/ frozen \/ ~live THEN UNCHANGED bothers ELSE Bother
    /\ Leave(c, LostCode)
    /\ UNCHANGED outs /\ Steady

\* Connections that hold a client slot, and that SetSecret cuts off.
Registered == {c \in Conns : handler[c] \in {"opening", "starting", "serving", "closing",
                                             "failing"}}

\* StatusTryAgainLater.
BusyCode == 1013

\* A client slot, then the credential once more.
Join(c) ==
    /\ handler[c] = "joining"
    /\ \/ Cardinality(Registered) >= MaxClients /\ Leave(c, BusyCode)
       \/ Cardinality(Registered) < MaxClients /\ ~current /\ Leave(c, PolicyCode)
       \/ /\ Cardinality(Registered) < MaxClients /\ current
          /\ handler' = [handler EXCEPT ![c] = "opening"]
          /\ UNCHANGED <<wireVars, client>>
    /\ UNCHANGED bounds /\ Steady

-----------------------------------------------------------------------------
\* The worker: outbound queue, writer and close frames

\* outboundQueue.close: everyone who waits for the result of a frame is answered.
Shut(q) == [q EXCEPT !.frames = <<>>, !.closed = TRUE, !.final = FALSE]

\* Mutant: the limit is compared before the frame is counted.
FullPast(q) == Len(q.frames) > QueueLimit

\* A frame that would pass MaxClientQueueBytes.
Full(q) == Len(q.frames) >= QueueLimit

Counted(q, tag) == IF tag = "output" THEN q.given + 1 ELSE q.given

\* Mutant: a full queue drops the frame and stays open.
PushedOrDropped(q, tag) ==
    IF q.closed THEN q
    ELSE [q EXCEPT !.frames = IF Full(q) THEN @ ELSE Append(@, tag),
                   !.given = Counted(q, tag), !.final = @ \/ tag \in FinalTags]

\* outboundQueue.push; closeWithFrame waits for the result of a frame it has queued.
Pushed(q, tag) ==
    IF q.closed THEN q
    ELSE IF Full(q) THEN Shut(q)
    ELSE [q EXCEPT !.frames = Append(@, tag),
                   !.given = Counted(q, tag), !.final = @ \/ tag \in FinalTags]

\* The connection is closed together with its queue.
Closed(c, q) == IF q.closed /\ ~client[c].closed THEN Hung(c, 1006) ELSE down

\* send and the first half of closeWithFrame: a queue that overflows ends in closeNow.
Push(c, tag, viewer) ==
    /\ client' = [client EXCEPT ![c] = [Pushed(@, tag) EXCEPT !.viewer = viewer]]
    /\ down' = Closed(c, Pushed(client[c], tag))

\* closeNow.
CloseNow(c) ==
    /\ client' = [client EXCEPT ![c] = Shut(@)]
    /\ down' = Closed(c, Shut(client[c]))

\* Mutant: the counter wraps before it is exhausted.
Wrapped(n) == (n + 1) % LastCounter

\* The counter after a sealed frame.
Advanced(n) == n + 1

\* writeLoop: pop, seal, write.  A write that the network does not take blocks.
Write(c) ==
    /\ client[c].frames # <<>>
    /\ \/ /\ client[c].send = LastCounter
          /\ CloseNow(c)
       \/ /\ client[c].send # LastCounter
          /\ sock[c] = "open" => Len(down[c]) < WireLimit
          /\ client' = [client EXCEPT ![c].frames = Tail(@), ![c].send = Advanced(@)]
          /\ down' = [down EXCEPT ![c] =
                        IF sock[c] = "open"
                        THEN Append(@, Frame(Head(client[c].frames), client[c].send))
                        ELSE @]
    /\ UNCHANGED <<up, handler, bounds>> /\ Steady

\* Mutant: the frame has no deadline of its own.
FinishWritten(c) ==
    /\ client[c].final /\ client[c].frames = <<>>
    /\ CloseNow(c)
    /\ UNCHANGED <<up, handler, bounds>> /\ Steady

\* The second half of closeWithFrame: the result of the write, or closeFrameTimeout.
FinishClose(c) ==
    /\ client[c].final
    /\ CloseNow(c)
    /\ UNCHANGED <<up, handler, bounds>> /\ Steady

-----------------------------------------------------------------------------
\* The worker: the connection's handler

\* Mutant: the viewer runs before the ready frame is queued.
ReadyLate(c) ==
    /\ handler[c] = "opening" /\ live
    /\ handler' = [handler EXCEPT ![c] = "starting"]
    /\ client' = [client EXCEPT ![c].viewer = "open"]
    /\ UNCHANGED <<wireVars, bounds>> /\ Steady

\* Connected, and open as far as the ready frame, which is queued before the viewer is
\* started.
SendReady(c) ==
    /\ handler[c] = "opening" /\ live /\ ~client[c].closed
    /\ handler' = [handler EXCEPT ![c] = "starting"]
    /\ Push(c, "ready", "opening")
    /\ UNCHANGED <<up, bounds>> /\ Steady

\* The rest of open, unless a rotation or the shutdown took the opening away.
StartViewer(c) ==
    /\ handler[c] = "starting" /\ client[c].viewer = "opening"
    /\ handler' = [handler EXCEPT ![c] = "serving"]
    /\ client' = [client EXCEPT ![c].viewer = "open"]
    /\ UNCHANGED <<wireVars, bounds>> /\ Steady

\* Connected fails: the mirror is gone or the host has no terminal to show.
OpenFails(c) ==
    /\ handler[c] \in {"opening", "starting"}
    /\ IF ~live \/ client[c].closed THEN UNCHANGED bothers ELSE Bother
    /\ causes' = Noted("unavailable", live /\ ~client[c].closed)
    /\ handler' = [handler EXCEPT ![c] = "failing"]
    /\ Push(c, "error_stop", "none")
    /\ UNCHANGED <<pageVars, sockVars, up, current, live, outs, why>>

\* sendViewerOutput.
Output(c) ==
    /\ client[c].viewer = "open" /\ outs < Outputs
    /\ outs' = outs + 1
    /\ Push(c, "output", "open")
    /\ UNCHANGED <<up, handler, bothers>> /\ Steady

\* watchViewer, under the manager's lock and after it.
ViewerEnds(c) ==
    /\ client[c].viewer = "open" /\ handler[c] = "serving" /\ Bother
    /\ client' = [client EXCEPT ![c].viewer = "ended"]
    /\ UNCHANGED <<wireVars, handler, outs>> /\ Steady

TellEnded(c) ==
    /\ client[c].viewer = "ended"
    /\ Push(c, "error_retry", "none")
    /\ UNCHANGED <<up, handler, bounds>> /\ Steady

\* The end of run or of a failed Connected: closeNow and Disconnected.
Ends(c) ==
    /\ Return(c)
    /\ down' = Closed(c, Shut(client[c]))

Reads(c, tag) == up[c] # <<>> /\ Head(up[c]).tag = tag
Taken(c) == up' = [up EXCEPT ![c] = Tail(@)]

\* Opener.Open.
Opens(c) == Head(up[c]).n = client[c].recv /\ client[c].recv # LastCounter

Serving(c, tag) == handler[c] = "serving" /\ ~client[c].closed /\ Reads(c, tag)

\* dispatch of input: dropped without a viewer; a viewer that was taken away ends the
\* connection.
Input(c) ==
    /\ Serving(c, "input") /\ Opens(c)
    /\ \/ /\ client[c].viewer # "detached"
          /\ Taken(c)
          /\ client' = [client EXCEPT ![c].recv = @ + 1]
          /\ UNCHANGED <<down, handler>>
       \/ /\ client[c].viewer = "detached"
          /\ Ends(c)
    /\ UNCHANGED bounds /\ Steady

\* dispatch of a close frame: the viewer is closed, then the page is told.
Close(c) ==
    /\ Serving(c, "close") /\ Opens(c)
    /\ Taken(c)
    /\ handler' = [handler EXCEPT ![c] = "closing"]
    /\ LET q == [client[c] EXCEPT !.recv = @ + 1,
                                  !.viewer = IF @ = "ended" THEN @ ELSE "none"]
       IN  /\ client' = [client EXCEPT ![c] = Pushed(q, "close")]
           /\ down' = Closed(c, Pushed(q, "close"))
    /\ UNCHANGED bounds /\ Steady

\* The viewer reports an error: its terminal is gone, or the window could not be given
\* back.  The connection ends, and a close is not acknowledged.
ViewerFails(c) ==
    /\ \E tag \in {"input", "close"} : Serving(c, tag)
    /\ client[c].viewer = "open" /\ Opens(c) /\ Bother
    /\ Ends(c)
    /\ UNCHANGED outs /\ Steady

\* Read fails: the page hung up, or the connection was closed here.  Or a frame does not
\* open.
RunEnds(c) ==
    /\ \/ handler[c] = "serving" /\ (client[c].closed \/ (up[c] # <<>> /\ ~Opens(c)))
       \/ handler[c] \in {"closing", "failing"} /\ ~client[c].final
    /\ Ends(c)
    /\ UNCHANGED bounds /\ Steady

-----------------------------------------------------------------------------
\* The worker: rotation, shutdown and the network

\* Clients the manager knows.
Clients == {c \in Conns : handler[c] \in {"starting", "serving", "closing"}}

\* detachClientsLocked: only an opening viewer is marked closed.
Detached(q) ==
    [q EXCEPT !.viewer = CASE @ = "open"    -> "detached"
                           [] @ = "opening" -> "none"
                           [] OTHER         -> @]

\* SetSecret and the manager's part of a rotation: the page's credential is revoked.
Rotate ==
    /\ current /\ live
    /\ current' = FALSE
    /\ client' = [c \in Conns |-> IF c \in Registered THEN Detached(Shut(client[c])) ELSE client[c]]
    /\ down' = [c \in Conns |-> Closed(c, client'[c])[c]]
    /\ UNCHANGED <<pageVars, sockVars, up, handler, live, bounds, hist>>

\* Shutdown, or the tunnel has exited: closeClients after the viewers are closed.
Shutdown ==
    /\ live
    /\ live' = FALSE
    /\ client' = [c \in Conns |-> IF c \in Clients THEN Pushed(Detached(client[c]), "shutdown")
                                  ELSE client[c]]
    /\ down' = [c \in Conns |-> Closed(c, client'[c])[c]]
    /\ UNCHANGED <<pageVars, sockVars, up, handler, current, bounds, hist>>

\* The network drops the connection; what was on its way is lost.
Cut(c) ==
    /\ sock[c] = "open" /\ Bother
    /\ down' = [down EXCEPT ![c] = <<Fin(1006)>>]
    /\ up' = [up EXCEPT ![c] = <<Fin(1006)>>]
    /\ UNCHANGED <<pageVars, sockVars, handler, client, current, live, outs, hist>>

\* The user has read the page's last message.
Done ==
    /\ page.stopped /\ ~page.timer /\ \A c \in Conns : Unused(c)
    /\ UNCHANGED vars

\* What the event loop and the goroutines of a connection do by themselves.
Runs(c) ==
    \/ Connect(c) \/ Deliver(c) \/ Receive(c) \/ Send(c)
    \/ \E code \in Codes : CloseEvent(c, code)
    \/ Accept(c) \/ Authenticate(c) \/ Join(c) \/ Write(c) \/ FinishClose(c)
    \/ SendReady(c) \/ StartViewer(c) \/ TellEnded(c)
    \/ Input(c) \/ Close(c) \/ RunEnds(c)

\* These also happen for a reason the system gives, and then without a disturbance.
Failure(c) == Refused(c) \/ HandshakeEnds(c) \/ OpenFails(c)

Next ==
    \/ \E c \in Conns :
         \/ Runs(c) \/ Failure(c)
         \/ ReconnectNow(c) \/ Show(c) \/ Type(c) \/ CloseSession(c)
         \/ Output(c) \/ ViewerEnds(c) \/ ViewerFails(c) \/ Cut(c)
    \/ Hide \/ Rotate \/ Shutdown \/ Done

Spec == Init /\ [][Next]_vars

\* A connection on which something can happen sees something happen: events are dispatched,
\* goroutines run, contexts end and timers fire.  Nothing forces the user, the terminal or
\* the network.
FairSpec ==
    Spec /\ \A c \in Conns : WF_vars(Runs(c) \/ (Failure(c) /\ bothers' = bothers))

-----------------------------------------------------------------------------
\* Properties

DownFrames ==
    [tag : Tags, n : 0..LastCounter] \cup {Frame("nonce", 0)} \cup {Fin(code) : code \in Codes}
UpTags == {"nonce", "hello", "input", "close"}

\* The state has its type: a queue never holds more than its limit and a counter never
\* passes its last value.
TypeOK ==
    /\ page \in [conn : Conns \cup {None}, shown : Conns \cup {None}, closing : BOOLEAN,
                 stopped : BOOLEAN, timer : BOOLEAN]
    /\ {frozen, current, live} \subseteq BOOLEAN /\ causes \subseteq Causes
    /\ sock \in [Conns -> {"closed", "connecting", "open", "closing"}]
    /\ peer \in [Conns -> [auth : BOOLEAN, poisoned : BOOLEAN, superseded : BOOLEAN,
                           send : 0..LastCounter, recv : 0..LastCounter, got : 0..Outputs]]
    /\ handler \in [Conns -> {"gone", "handshake", "stranger", "joining", "opening", "starting",
                              "serving", "closing", "failing"}]
    /\ \A c \in Conns :
         /\ inbox[c] \in Seq(DownFrames) /\ down[c] \in Seq(DownFrames)
         /\ outbox[c] \in Seq(UpTags)
         /\ up[c] \in Seq([tag : UpTags \cup {"fin"}, n : 0..LastCounter \cup Codes])
         /\ client[c].frames \in Seq(Tags) /\ Len(client[c].frames) <= QueueLimit
         /\ {client[c].closed, client[c].final} \subseteq BOOLEAN
         /\ {client[c].send, client[c].recv} \subseteq 0..LastCounter
         /\ client[c].given \in 0..Outputs
         /\ client[c].viewer \in {"none", "opening", "open", "ended", "detached"}
    /\ outs \in 0..Outputs /\ bothers \in 0..Disturbances
    /\ why \in {"none", "rejected", "poisoned", "stale", "acknowledged", "refused", "ended"}

\* The frames the page has still to decrypt: what comes after the server's nonce.
Pending(c) ==
    LET s == inbox[c] \o down[c]
    IN  IF s # <<>> /\ s[1].tag = "nonce" THEN Tail(s) ELSE s

\* How many frames of s, and how many entries of a queue, are terminal output.
OutputFrames(s) == Cardinality({i \in DOMAIN s : s[i].tag = "output"})
OutputTags(s)   == Cardinality({i \in DOMAIN s : s[i] = "output"})

\* The page's connection, while the network and the page have not broken it.
Sound(c) ==
    /\ page.conn = c /\ sock[c] = "open" /\ ~peer[c].poisoned
    /\ \A i \in DOMAIN down[c] : down[c][i].tag # "fin"

\* Sealer and decryptFrame stay in step: the frames that wait for the page are sealed and
\* carry, in order and without a gap or a repetition, the counters it will try, whatever was
\* dropped from the queue, closed or reconnected in between.
CountersInStep ==
    \A c \in Conns : Sound(c) =>
        \A i \in DOMAIN Pending(c) :
            Pending(c)[i].tag \in Tags /\ Pending(c)[i].n = peer[c].recv + i - 1

\* Terminal output has no holes: while a connection's queue is open, everything pushed to
\* it is queued, on its way or shown; a queue that overflows closes the connection.
OutputHasNoHoles ==
    \A c \in Conns : Sound(c) /\ ~client[c].closed /\ handler[c] = "serving" =>
        client[c].given = peer[c].got + OutputFrames(inbox[c]) + OutputFrames(down[c])
                          + OutputTags(client[c].frames)

\* What the page shows belongs to its current connection, which has authenticated: a
\* frame whose decryption ends after the page has moved on does not revive a terminal.
TerminalOfConnection ==
    page.shown # None => page.shown = page.conn /\ peer[page.conn].auth

\* A page gives up reconnecting only for one of these reasons: the pairing was revoked; the
\* worker ended; the user closed the terminal; the worker told it to stop, because it had
\* ended or had no terminal to show; its channel broke, because a counter ran out or the user
\* had asked to close; or the channel of a socket that had closed under it broke, because
\* frames were left undecrypted then.  No timeout, full server, slow browser or lost
\* connection is taken for a rejection.  The last reason is not always a good one: the page
\* may have another connection by then.
StopIsExplained ==
    /\ why = "rejected" => ~current
    /\ why = "ended" => ~live
    /\ why = "acknowledged" => "asked" \in causes
    /\ why = "refused" => ~live \/ "unavailable" \in causes
    /\ why = "poisoned" => causes \cap {"asked", "exhausted"} # {}
    /\ why = "stale" => "left" \in causes

\* However connections broke, the page does not hang: as long as the worker lives and the
\* page runs, it comes to show the terminal again, to wait for the acknowledgement of the
\* close the user asked for, or it stops; and once its credential was rotated away, only
\* stopping or being frozen will do, whatever it was doing then.
PageSettles ==
    live ~> (\/ page.stopped \/ frozen \/ ~live
             \/ current /\ (page.shown # None \/ page.closing))

Ending(c) ==
    c \in Registered /\ (client[c].closed \/ client[c].final \/ sock[c] # "open")

\* A connection that is to be closed gives its client slot back, so that a full server
\* takes a client again, a frozen browser that
\* takes nothing off the network included.
SlotGivenBack == (\E c \in Conns : Ending(c)) ~> Cardinality(Registered) < MaxClients

\* A page that has been sent the acknowledgement of its close does not reconnect.
AckedCloseIsFinal ==
    page.timer => \A c \in Conns : \A i \in DOMAIN inbox[c] : inbox[c][i].tag # "close"

=============================================================================
