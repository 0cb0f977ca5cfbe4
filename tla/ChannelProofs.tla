--------------------------- MODULE ChannelProofs ---------------------------
(***************************************************************************)
(* Proofs about the page and its connections, for any number of sockets,   *)
(* any limits of the queue and of the network and any last counter: the    *)
(* counters of both sides stay in step, terminal output has no holes, the  *)
(* terminal belongs to the connection, and a page stops only for a reason. *)
(*                                                                         *)
(* A step is first reduced to what it does to one connection (Touched);    *)
(* the invariants are then proved connection by connection from that, one  *)
(* on top of the other: BaseInv, StepInv, TallyInv, CauseInv, OrderInv.    *)
(***************************************************************************)
EXTENDS Channel, FiniteSetTheorems, TLAPS

-----------------------------------------------------------------------------
\* Types

\* The page's globals, the page's end of a connection, and a Client.
PageState ==
    [conn : Conns \cup {None}, shown : Conns \cup {None}, closing : BOOLEAN,
     stopped : BOOLEAN, timer : BOOLEAN]

PeerState ==
    [auth : BOOLEAN, poisoned : BOOLEAN, superseded : BOOLEAN, send : 0..LastCounter,
     recv : 0..LastCounter, got : Nat]

Viewers == {"none", "opening", "open", "ended", "detached"}

ClientState ==
    [frames : Seq(Tags), closed : BOOLEAN, final : BOOLEAN, send : 0..LastCounter,
     recv : 0..LastCounter, viewer : Viewers, given : Nat]

\* Where handleWebSocket may be.
Handlers == {"gone", "handshake", "stranger", "joining", "opening", "starting", "serving",
             "closing", "failing"}

\* The frames that may reach the page, those that a message event brings, and those that
\* may reach the worker.
PageFrames == [tag : Tags, n : 0..LastCounter] \cup {Frame("nonce", 0)}
UpFrames   == [tag : UpTags \cup {"fin"}, n : 0..LastCounter \cup Codes]

\* The types, in the groups in which steps change them.
PageType ==
    /\ page \in PageState
    /\ frozen \in BOOLEAN /\ current \in BOOLEAN /\ live \in BOOLEAN
    /\ causes \subseteq Causes
    /\ outs \in 0..Outputs /\ bothers \in 0..Disturbances
    /\ why \in {"none", "rejected", "poisoned", "stale", "acknowledged", "refused", "ended"}

SockType ==
    /\ sock \in [Conns -> {"closed", "connecting", "open", "closing"}]
    /\ peer \in [Conns -> PeerState]
    /\ inbox \in [Conns -> Seq(PageFrames)] /\ outbox \in [Conns -> Seq(UpTags)]

WireType == up \in [Conns -> Seq(UpFrames)] /\ down \in [Conns -> Seq(DownFrames)]

WorkerType == handler \in [Conns -> Handlers] /\ client \in [Conns -> ClientState]

\* What TypeOK says, without the bounds of the queue and of what was shown.
TypeInv == PageType /\ SockType /\ WireType /\ WorkerType

\* Before a connection has a queue that anybody writes to.
Greeting == {"gone", "handshake", "stranger", "joining", "opening"}

\* What a connection cannot have yet, and how its viewer and its handler go together.
Staged(c) ==
    /\ handler[c] = "gone" => client[c] = NoClient
    /\ handler[c] = "stranger" => ~current
    /\ handler[c] \in Greeting =>
         /\ client[c].frames = <<>> /\ client[c].send = 0 /\ client[c].given = 0
         /\ client[c].viewer = "none"
    /\ client[c].viewer \in {"opening", "open"} => handler[c] \in {"starting", "serving"}
    /\ client[c].closed => client[c].frames = <<>>
    /\ Len(client[c].frames) <= QueueLimit
    /\ sock[c] = "connecting" =>
         /\ handler[c] = "gone" /\ peer[c] = NoPeer
         /\ inbox[c] = <<>> /\ outbox[c] = <<>>

\* ... for every connection.
StageInv == \A c \in Conns : Staged(c)

\* The page's connection exists, and there is none while the page waits to reconnect.
PageInv ==
    /\ page.timer => page.conn = None
    /\ page.conn # None => sock[page.conn] # "closed"
    /\ TerminalOfConnection
    /\ \A c \in Conns : peer[c].auth => peer[c].recv > 0

\* The constants, one by one.
LEMMA Constants ==
  /\ None \notin Conns /\ Outputs \in Nat /\ Disturbances \in Nat
  /\ QueueLimit \in Nat \ {0} /\ LastCounter \in Nat \ {0}
  BY ChannelAssumption

\* A frame of the page, of the worker and of the network.
LEMMA FrameTypes ==
  /\ \A tag \in Tags, n \in 0..LastCounter : Frame(tag, n) \in DownFrames
  /\ Frame("nonce", 0) \in DownFrames /\ Frame("nonce", 0) \in PageFrames
  /\ \A code \in Codes : Fin(code) \in DownFrames /\ Fin(code) \in UpFrames
  /\ \A tag \in UpTags, n \in 0..LastCounter : Frame(tag, n) \in UpFrames
  /\ \A f \in DownFrames : f.tag # "fin" => f \in PageFrames
  /\ \A f \in PageFrames : f \in DownFrames /\ f.tag # "fin" /\ f.n \in Nat
                           /\ (f.tag # "nonce" => f.tag \in Tags)
  /\ \A f \in DownFrames : f.n \in Nat /\ (f.tag \notin {"nonce", "fin"} => f.tag \in Tags)
  BY ChannelAssumption
     DEF Frame, Fin, DownFrames, PageFrames, UpFrames, Codes, Tags, FinalTags, UpTags

\* What a connection is before and after its life.
LEMMA NoneTypes == NoPeer \in PeerState /\ NoClient \in ClientState
  BY ChannelAssumption DEF NoPeer, NoClient, PeerState, ClientState, Viewers

\* Nothing is connected at first.
LEMMA BaseInit == Init => TypeInv /\ StageInv /\ PageInv
<1> SUFFICES ASSUME Init PROVE TypeInv /\ StageInv /\ PageInv
  OBVIOUS
<1>1. PageType
  <2>1. page \in PageState
    BY DEF Init, PageState
  <2>2. outs \in 0..Outputs /\ bothers \in 0..Disturbances
    BY Constants DEF Init
  <2>3. /\ frozen \in BOOLEAN /\ current \in BOOLEAN /\ live \in BOOLEAN
        /\ causes \subseteq Causes
    BY DEF Init
  <2> QED BY <2>1, <2>2, <2>3 DEF Init, PageType
<1>2. SockType
  BY NoneTypes DEF Init, SockType
<1>3. WireType /\ WorkerType
  BY NoneTypes DEF Init, WireType, WorkerType, Handlers
<1>4. StageInv
  BY ChannelAssumption DEF Init, StageInv, Staged, NoClient, NoPeer
<1>5. PageInv
  BY ChannelAssumption DEF Init, PageInv, NoPeer, TerminalOfConnection
<1> QED BY <1>1, <1>2, <1>3, <1>4, <1>5 DEF TypeInv

-----------------------------------------------------------------------------
\* The type is kept

\* What is done to a queue.
LEMMA QueueTypes ==
  ASSUME NEW q \in ClientState, NEW tag \in Tags
  PROVE  /\ Shut(q) \in ClientState /\ Detached(q) \in ClientState
         /\ Pushed(q, tag) \in ClientState
<1>1. Shut(q) \in ClientState
  <2>1. <<>> \in Seq(Tags) /\ TRUE \in BOOLEAN /\ FALSE \in BOOLEAN
    OBVIOUS
  <2> QED BY <2>1 DEF Shut, ClientState
<1>2. Detached(q) \in ClientState
  BY DEF Detached, ClientState, Viewers
<1>3. Counted(q, tag) \in Nat
  BY DEF Counted, ClientState
<1>4. [q EXCEPT !.frames = Append(@, tag), !.given = Counted(q, tag),
                !.final = @ \/ tag \in FinalTags] \in ClientState
  <2>1. (q.final \/ tag \in FinalTags) \in BOOLEAN
    OBVIOUS
  <2>2. Append(q.frames, tag) \in Seq(Tags)
    BY DEF ClientState
  <2> QED BY <1>3, <2>1, <2>2 DEF ClientState
<1> QED BY <1>1, <1>2, <1>4 DEF Pushed

\* What is done to the wire when a connection or its queue is closed.
LEMMA HungTypes ==
  ASSUME TypeInv, NEW c \in Conns
  PROVE  /\ \A code \in Codes : Hung(c, code) \in [Conns -> Seq(DownFrames)]
         /\ \A q : Closed(c, q) \in [Conns -> Seq(DownFrames)]
<1>1. ASSUME NEW code \in Codes PROVE Hung(c, code) \in [Conns -> Seq(DownFrames)]
  BY <1>1, FrameTypes DEF Hung, TypeInv, WireType
<1>2. 1006 \in Codes
  BY DEF Codes
<1> QED BY <1>1, <1>2 DEF Closed, TypeInv, WireType

\* Bounds are kept, and nothing but a bound changes with them.
LEMMA BoundTypes ==
  ASSUME TypeInv, UNCHANGED outs \/ (outs < Outputs /\ outs' = outs + 1),
         UNCHANGED bothers \/ Bother
  PROVE  outs' \in 0..Outputs /\ bothers' \in 0..Disturbances
  BY Constants DEF TypeInv, PageType, Bother

\* A step of the worker leaves the page alone; it may note that it has no terminal.
Aside ==
    /\ UNCHANGED <<page, frozen, current, live, why, sock, peer, inbox, outbox>>
    /\ causes' \in {causes, causes \cup {"unavailable"}}

\* They all do.
LEMMA WorkerAside ==
  ASSUME NEW c,
         \/ Authenticate(c) \/ Join(c) \/ Write(c) \/ FinishClose(c) \/ SendReady(c)
         \/ StartViewer(c) \/ TellEnded(c) \/ Input(c) \/ Close(c) \/ RunEnds(c)
         \/ HandshakeEnds(c) \/ OpenFails(c) \/ Output(c) \/ ViewerEnds(c)
         \/ ViewerFails(c)
  PROVE  Aside
<1>1. CASE OpenFails(c)
  BY <1>1 DEF OpenFails, Noted, Aside, pageVars, sockVars
<1>2. CASE ~OpenFails(c)
  <2>1. Steady
    BY <1>2
        DEF Authenticate, Join, Write, FinishClose, SendReady, StartViewer, TellEnded,
            Input, Close, RunEnds, HandshakeEnds, Output, ViewerEnds, ViewerFails
  <2> QED BY <2>1 DEF Steady, Aside, pageVars, sockVars, hist
<1> QED BY <1>1, <1>2

\* What a step of the worker does not touch keeps its type.
LEMMA AsideTypes ==
  ASSUME TypeInv, Aside, UNCHANGED outs \/ (outs < Outputs /\ outs' = outs + 1),
         UNCHANGED bothers \/ Bother
  PROVE  PageType' /\ SockType'
<1>1. PageType'
  BY BoundTypes DEF TypeInv, PageType, Aside, Causes
<1> QED BY <1>1 DEF TypeInv, SockType, Aside

\* The worker's steps.
LEMMA WorkerTypeNext ==
  ASSUME TypeInv, NEW c \in Conns,
         \/ Authenticate(c) \/ Join(c) \/ Write(c) \/ FinishClose(c) \/ SendReady(c)
         \/ StartViewer(c) \/ TellEnded(c) \/ Input(c) \/ Close(c) \/ RunEnds(c)
         \/ HandshakeEnds(c) \/ OpenFails(c) \/ Output(c) \/ ViewerEnds(c)
         \/ ViewerFails(c)
  PROVE  TypeInv'
<1> USE Constants
<1>0. /\ client \in [Conns -> ClientState] /\ client[c] \in ClientState
      /\ up \in [Conns -> Seq(UpFrames)] /\ down \in [Conns -> Seq(DownFrames)]
      /\ handler \in [Conns -> Handlers]
  BY DEF TypeInv, WorkerType, WireType
<1>1. PageType' /\ SockType'
  BY WorkerAside, AsideTypes
      DEF Authenticate, Join, Write, FinishClose, SendReady, StartViewer, TellEnded,
          Input, Close, RunEnds, HandshakeEnds, OpenFails, Output, ViewerEnds,
          ViewerFails, bounds
<1>2. ASSUME NEW code \in Codes, Leave(c, code) PROVE WireType' /\ WorkerType'
  BY <1>0, <1>2, HungTypes, NoneTypes DEF Leave, Return, WireType, WorkerType, Handlers
<1>3. ASSUME Ends(c) PROVE WireType' /\ WorkerType'
  BY <1>0, <1>3, HungTypes, NoneTypes DEF Ends, Return, WireType, WorkerType, Handlers
<1>4. ASSUME NEW tag \in Tags, NEW viewer \in Viewers, Push(c, tag, viewer)
      PROVE  client' \in [Conns -> ClientState] /\ down' \in [Conns -> Seq(DownFrames)]
  <2>1. [Pushed(client[c], tag) EXCEPT !.viewer = viewer] \in ClientState
    BY <1>0, <1>4, QueueTypes DEF ClientState
  <2> QED BY <1>0, <1>4, <2>1, HungTypes DEF Push
<1>5. ASSUME CloseNow(c)
      PROVE  client' \in [Conns -> ClientState] /\ down' \in [Conns -> Seq(DownFrames)]
  <2>1. Shut(client[c]) \in ClientState
    BY <1>0, QueueTypes DEF Tags
  <2> QED BY <1>0, <1>5, <2>1, HungTypes DEF CloseNow
<1>6. CASE Authenticate(c)
  <2>1. CASE handler[c] = "handshake"
    <3>1. /\ handler' = [handler EXCEPT ![c] = "joining"]
          /\ client' = [client EXCEPT ![c].recv = 1]
          /\ up' = [up EXCEPT ![c] = SubSeq(@, 3, Len(@))] /\ UNCHANGED down
      BY <1>6, <2>1 DEF Authenticate
    <3>2. SubSeq(up[c], 3, Len(up[c])) \in Seq(UpFrames)
      BY <1>0
    <3>3. [client[c] EXCEPT !.recv = 1] \in ClientState
      <4>1. 1 \in 0..LastCounter
        OBVIOUS
      <4> QED BY <1>0, <4>1 DEF ClientState
    <3>4. client' = [client EXCEPT ![c] = [client[c] EXCEPT !.recv = 1]]
      BY <1>0, <3>1
    <3>5. client' \in [Conns -> ClientState] /\ handler' \in [Conns -> Handlers]
      BY <1>0, <3>1, <3>3, <3>4 DEF Handlers
    <3> QED BY <1>0, <1>1, <3>1, <3>2, <3>5 DEF TypeInv, WireType, WorkerType
  <2>2. CASE handler[c] = "stranger"
    BY <1>1, <1>2, <1>6, <2>2 DEF Authenticate, PolicyCode, Codes, TypeInv
  <2> QED BY <1>6, <2>1, <2>2 DEF Authenticate
<1>7. CASE Join(c)
  <2>1. CASE Leave(c, BusyCode) \/ Leave(c, PolicyCode)
    BY <1>1, <1>2, <2>1 DEF BusyCode, PolicyCode, Codes, TypeInv
  <2>2. CASE handler' = [handler EXCEPT ![c] = "opening"] /\ UNCHANGED <<wireVars, client>>
    BY <1>0, <1>1, <2>2 DEF TypeInv, WireType, WorkerType, Handlers, wireVars
  <2> QED BY <1>7, <2>1, <2>2 DEF Join
<1>8. CASE Write(c)
  <2>1. CASE CloseNow(c)
    BY <1>0, <1>1, <1>5, <1>8, <2>1 DEF Write, TypeInv, WireType, WorkerType
  <2>2. CASE client[c].send # LastCounter
    <3>1. Head(client[c].frames) \in Tags
      BY <1>0, <1>8 DEF Write, ClientState
    <3>2. Frame(Head(client[c].frames), client[c].send) \in DownFrames
      BY <1>0, <3>1, FrameTypes DEF ClientState
    <3>3. [client[c] EXCEPT !.frames = Tail(@), !.send = @ + 1] \in ClientState
      <4>1. Tail(client[c].frames) \in Seq(Tags)
        BY <1>0, <1>8 DEF Write, ClientState
      <4>2. client[c].send + 1 \in 0..LastCounter
        BY <1>0, <2>2 DEF ClientState
      <4> QED BY <1>0, <4>1, <4>2 DEF ClientState
    <3>4. client' = [client EXCEPT ![c] = [client[c] EXCEPT !.frames = Tail(@), !.send = @ + 1]]
      BY <1>0, <1>8, <2>2 DEF Write, Advanced
    <3>5. down' \in [Conns -> Seq(DownFrames)]
      <4>1. Append(down[c], Frame(Head(client[c].frames), client[c].send)) \in Seq(DownFrames)
        BY <1>0, <3>2
      <4> QED BY <1>0, <1>8, <2>2, <4>1 DEF Write
    <3> QED BY <1>0, <1>1, <1>8, <3>3, <3>4, <3>5
        DEF Write, TypeInv, WireType, WorkerType
  <2> QED BY <1>8, <2>1, <2>2 DEF Write
<1>9. CASE FinishClose(c)
  BY <1>0, <1>1, <1>5, <1>9 DEF FinishClose, TypeInv, WireType, WorkerType
<1>10. CASE SendReady(c)
  BY <1>0, <1>1, <1>4, <1>10
     DEF SendReady, TypeInv, WireType, WorkerType, Handlers, Tags, Viewers
<1>11. CASE StartViewer(c) \/ ViewerEnds(c)
  <2>1. \A v \in Viewers : [client[c] EXCEPT !.viewer = v] \in ClientState
    BY <1>0 DEF ClientState
  <2>2. \E v \in Viewers : client' = [client EXCEPT ![c] = [client[c] EXCEPT !.viewer = v]]
    BY <1>0, <1>11 DEF StartViewer, ViewerEnds, Viewers
  <2>3. client' \in [Conns -> ClientState]
    BY <1>0, <2>1, <2>2
  <2> QED BY <1>0, <1>1, <1>11, <2>3
      DEF StartViewer, ViewerEnds, TypeInv, WireType, WorkerType, Handlers, wireVars
<1>12. CASE TellEnded(c) \/ Output(c)
  BY <1>0, <1>1, <1>4, <1>12
     DEF TellEnded, Output, TypeInv, WireType, WorkerType, Tags, Viewers
<1>13. CASE OpenFails(c)
  BY <1>0, <1>1, <1>4, <1>13
     DEF OpenFails, TypeInv, WireType, WorkerType, Handlers, Tags, FinalTags, Viewers
<1>14. ASSUME \E tag : Serving(c, tag), Opens(c)
       PROVE  /\ [client[c] EXCEPT !.recv = @ + 1] \in ClientState
              /\ Tail(up[c]) \in Seq(UpFrames)
  <2>1. client[c].recv + 1 \in 0..LastCounter
    BY <1>0, <1>14 DEF Opens, ClientState
  <2>2. [client[c] EXCEPT !.recv = @ + 1] \in ClientState
    BY <1>0, <2>1 DEF ClientState
  <2> QED BY <1>0, <1>14, <2>2 DEF Serving, Reads
<1>15. CASE Input(c)
  <2>1. CASE Ends(c)
    BY <1>1, <1>3, <2>1 DEF TypeInv
  <2>2. CASE client[c].viewer # "detached"
    <3>1. client' = [client EXCEPT ![c] = [client[c] EXCEPT !.recv = @ + 1]]
      BY <1>0, <1>15, <2>2 DEF Input
    <3> QED BY <1>0, <1>1, <1>14, <1>15, <2>2, <3>1
        DEF Input, Taken, TypeInv, WireType, WorkerType
  <2> QED BY <1>15, <2>1, <2>2 DEF Input
<1>16. CASE Close(c)
  <2> DEFINE q == [client[c] EXCEPT !.recv = @ + 1,
                                    !.viewer = IF @ = "ended" THEN @ ELSE "none"]
  <2>1. q \in ClientState
    BY <1>0, <1>14, <1>16 DEF Close, ClientState, Viewers
  <2>2. Pushed(q, "close") \in ClientState
    BY <2>1, QueueTypes DEF Tags, FinalTags
  <2>3. /\ client' = [client EXCEPT ![c] = Pushed(q, "close")]
        /\ down' = Closed(c, Pushed(q, "close"))
        /\ handler' = [handler EXCEPT ![c] = "closing"]
        /\ up' = [up EXCEPT ![c] = Tail(@)]
    BY <1>16 DEF Close, Taken
  <2> QED BY <1>0, <1>1, <1>14, <1>16, <2>2, <2>3, HungTypes
      DEF Close, TypeInv, WireType, WorkerType, Handlers
<1>17. CASE RunEnds(c) \/ ViewerFails(c)
  BY <1>1, <1>3, <1>17 DEF RunEnds, ViewerFails, TypeInv
<1>18. CASE HandshakeEnds(c)
  BY <1>1, <1>2, <1>18 DEF HandshakeEnds, LostCode, Codes, TypeInv
<1> QED BY <1>6, <1>7, <1>8, <1>9, <1>10, <1>11, <1>12, <1>13, <1>15, <1>16, <1>17,
     <1>18

\* The steps that set the page's connection, its stages and its frames.
LEMMA OpenTypes ==
  ASSUME TypeInv, NEW c \in Conns,
         NEW s \in [Conns -> {"closed", "connecting", "open", "closing"}],
         Open(c, s)
  PROVE  /\ sock' \in [Conns -> {"closed", "connecting", "open", "closing"}]
         /\ outbox' \in [Conns -> Seq(UpTags)] /\ inbox' \in [Conns -> Seq(PageFrames)]
         /\ down' \in [Conns -> Seq(DownFrames)]
  BY DEF Open, TypeInv, SockType, WireType

\* socket.close() on a socket, or on none.
LEMMA ClosingTypes ==
  ASSUME TypeInv, NEW c
  PROVE  /\ Closing(c) \in [Conns -> {"closed", "connecting", "open", "closing"}]
         /\ Hangup(c) \in [Conns -> Seq(UpFrames)]
<1>1. Closing(c) \in [Conns -> {"closed", "connecting", "open", "closing"}]
  BY DEF Closing, TypeInv, SockType
<1>2. Fin(1006) \in UpFrames
  BY FrameTypes DEF Codes
<1>3. \A d \in Conns : Append(up[d], Fin(1006)) \in Seq(UpFrames)
  BY <1>2 DEF TypeInv, WireType
<1> QED BY <1>1, <1>3 DEF Hangup, TypeInv, WireType

\* What the page loses and keeps when it reconnects.
LEMMA ReplaceTypes ==
  ASSUME TypeInv, NEW c \in Conns, Replace(c)
  PROVE  page' \in PageState /\ SockType' /\ WireType'
<1>1. page' \in PageState
  BY DEF Replace, TypeInv, PageType, PageState
<1>2. \A d \in Conns : [peer[d] EXCEPT !.superseded = TRUE] \in PeerState
  BY DEF TypeInv, SockType, PeerState
<1>3. peer' \in [Conns -> PeerState]
  BY <1>2, NoneTypes DEF Replace, TypeInv, SockType
<1>4. up' \in [Conns -> Seq(UpFrames)]
  BY ClosingTypes DEF Replace
<1>5. Open(c, Closing(page.conn))
  BY DEF Replace
<1> QED BY <1>1, <1>3, <1>4, <1>5, ClosingTypes, OpenTypes DEF SockType, WireType

\* poison.
LEMMA PoisonTypes ==
  ASSUME TypeInv, NEW c \in Conns, Poison(c)
  PROVE  /\ page' \in PageState /\ peer' \in [Conns -> PeerState]
         /\ sock' \in [Conns -> {"closed", "connecting", "open", "closing"}]
         /\ up' \in [Conns -> Seq(UpFrames)] /\ UNCHANGED outbox
         /\ why' \in {why, "poisoned", "stale"} /\ causes' \subseteq Causes
<1>1. page' \in PageState
  <2>1. (page.stopped \/ ~peer[c].superseded) \in BOOLEAN
    OBVIOUS
  <2> QED BY <2>1 DEF Poison, TypeInv, PageType, PageState
<1>2. [peer[c] EXCEPT !.poisoned = TRUE] \in PeerState
  BY DEF TypeInv, SockType, PeerState
<1>3. peer' = [peer EXCEPT ![c] = [peer[c] EXCEPT !.poisoned = TRUE]]
  BY DEF Poison, TypeInv, SockType
<1>4. peer' \in [Conns -> PeerState]
  BY <1>2, <1>3 DEF TypeInv, SockType
<1>5. causes' \subseteq Causes
  BY DEF Poison, Noted, Causes, TypeInv, PageType
<1> QED BY <1>1, <1>4, <1>5, ClosingTypes DEF Poison

\* A frame that is expected.
LEMMA HandleTypes ==
  ASSUME TypeInv, NEW c \in Conns, NEW tag \in Tags, Handle(c, tag),
         peer[c].recv # LastCounter
  PROVE  /\ page' \in PageState /\ peer' \in [Conns -> PeerState]
         /\ sock' \in [Conns -> {"closed", "connecting", "open", "closing"}]
         /\ up' \in [Conns -> Seq(UpFrames)] /\ UNCHANGED outbox
         /\ why' \in {why, "acknowledged", "refused", "ended"} /\ UNCHANGED causes
<1>1. peer' \in [Conns -> PeerState]
  <2> DEFINE p == [peer[c] EXCEPT !.recv = @ + 1, !.auth = @ \/ tag = "ready",
                                  !.got = IF tag = "output" THEN @ + 1 ELSE @]
  <2>1. peer[c].recv + 1 \in 0..LastCounter
    BY Constants DEF TypeInv, SockType, PeerState
  <2>2. (peer[c].auth \/ tag = "ready") \in BOOLEAN
    OBVIOUS
  <2>3. (IF tag = "output" THEN peer[c].got + 1 ELSE peer[c].got) \in Nat
    BY DEF TypeInv, SockType, PeerState
  <2>4. p \in PeerState
    BY <2>1, <2>2, <2>3 DEF TypeInv, SockType, PeerState
  <2>5. peer' = [peer EXCEPT ![c] = p]
    BY DEF Handle, TypeInv, SockType
  <2> HIDE DEF p
  <2> QED BY <2>4, <2>5 DEF TypeInv, SockType
<1>2. (page.stopped \/ tag = "error_stop") \in BOOLEAN
  OBVIOUS
<1>3. UNCHANGED outbox
  BY DEF Handle
<1>4. CASE tag = "close"
  <2>1. /\ page' = [page EXCEPT !.stopped = TRUE, !.shown = None, !.closing = FALSE]
        /\ why' \in {why, "acknowledged"} /\ UNCHANGED <<causes, sock, up>>
    BY <1>4 DEF Handle, Stop
  <2>2. page' \in PageState
    BY <2>1 DEF TypeInv, PageType, PageState
  <2> QED BY <1>1, <1>3, <2>1, <2>2 DEF TypeInv, SockType, WireType
<1>5. CASE tag = "ready" \/ tag = "output"
  <2>1. /\ page' = [page EXCEPT !.shown = c] \/ UNCHANGED page
        /\ UNCHANGED <<why, causes, sock, up>>
    BY <1>5 DEF Handle, hist
  <2>2. page' \in PageState
    BY <2>1 DEF TypeInv, PageType, PageState
  <2> QED BY <1>1, <1>3, <2>1, <2>2 DEF TypeInv, SockType, WireType
<1>6. CASE tag = "error_retry" \/ tag = "error_stop"
  <2>1. /\ page' = [page EXCEPT !.shown = None, !.closing = FALSE,
                                !.stopped = @ \/ tag = "error_stop"]
        /\ sock' = Closing(c) /\ up' = Hangup(c)
        /\ why' \in {why, "refused"} /\ UNCHANGED causes
    BY <1>6 DEF Handle, Stop, hist
  <2>2. page' \in PageState
    BY <1>2, <2>1 DEF TypeInv, PageType, PageState
  <2> QED BY <1>1, <1>3, <2>1, <2>2, ClosingTypes
<1>7. CASE tag = "shutdown"
  <2>1. /\ page' = [page EXCEPT !.stopped = TRUE] /\ sock' = Closing(c) /\ up' = Hangup(c)
        /\ why' \in {why, "ended"} /\ UNCHANGED causes
    BY <1>7 DEF Handle, Stop
  <2>2. page' \in PageState
    BY <2>1 DEF TypeInv, PageType, PageState
  <2> QED BY <1>1, <1>3, <2>1, <2>2, ClosingTypes
<1> QED BY <1>4, <1>5, <1>6, <1>7 DEF Tags, FinalTags

\* A frame that is queued.
LEMMA QueueFrameTypes ==
  ASSUME TypeInv, NEW c \in Conns, NEW tag \in UpTags, QueueFrame(c, tag)
  PROVE  outbox' \in [Conns -> Seq(UpTags)]
  BY DEF QueueFrame, TypeInv, SockType

\* The page's steps.
LEMMA PageTypeNext ==
  ASSUME TypeInv, NEW c \in Conns,
         \/ Connect(c) \/ ReconnectNow(c) \/ Show(c) \/ Refused(c) \/ Deliver(c)
         \/ Receive(c) \/ Send(c) \/ Type(c) \/ CloseSession(c)
         \/ \E code \in Codes : CloseEvent(c, code)
  PROVE  TypeInv'
<1> USE Constants
<1> DEFINE Sockets == {"closed", "connecting", "open", "closing"}
           Reasons == {"none", "rejected", "poisoned", "stale", "acknowledged", "refused",
                       "ended"}
<1>0. /\ page \in PageState /\ sock \in [Conns -> Sockets] /\ peer \in [Conns -> PeerState]
      /\ inbox \in [Conns -> Seq(PageFrames)] /\ outbox \in [Conns -> Seq(UpTags)]
      /\ up \in [Conns -> Seq(UpFrames)] /\ down \in [Conns -> Seq(DownFrames)]
      /\ why \in Reasons /\ causes \subseteq Causes
  BY DEF TypeInv, PageType, SockType, WireType
<1>1. WorkerType'
  <2>1. UNCHANGED <<handler, client>>
    BY DEF Connect, ReconnectNow, Show, Refused, Deliver, Receive, Send, Type,
           CloseSession, CloseEvent, workerVars
  <2> QED BY <2>1 DEF TypeInv, WorkerType
<1>2. outs' \in 0..Outputs /\ bothers' \in 0..Disturbances
  BY BoundTypes
      DEF Connect, ReconnectNow, Show, Refused, Deliver, Receive, Send, Type,
          CloseSession, CloseEvent, bounds
<1>3. frozen' \in BOOLEAN /\ UNCHANGED <<current, live>>
  BY DEF Connect, ReconnectNow, Show, Refused, Deliver, Receive, Send, Type,
         CloseSession, CloseEvent, pageVars, TypeInv, PageType
<1>4. ASSUME page' \in PageState, why' \in Reasons, causes' \subseteq Causes
      PROVE  PageType'
  BY <1>2, <1>3, <1>4 DEF TypeInv, PageType
<1>5. CASE Connect(c)
  <2>1. UNCHANGED <<why, causes>>
    BY <1>5 DEF Connect, hist
  <2>2. CASE page.stopped
    <3>1. page' = [page EXCEPT !.timer = FALSE] /\ UNCHANGED <<sockVars, wireVars>>
      BY <1>5, <2>2 DEF Connect
    <3>2. page' \in PageState
      BY <1>0, <3>1 DEF PageState
    <3> QED BY <1>0, <1>1, <1>4, <2>1, <3>1, <3>2
        DEF sockVars, wireVars, TypeInv, SockType, WireType
  <2>3. CASE ~page.stopped
    <3>1. /\ page' = [page EXCEPT !.timer = FALSE, !.conn = c] /\ Open(c, sock)
          /\ peer' = [peer EXCEPT ![c] = NoPeer] /\ up' = [up EXCEPT ![c] = <<>>]
      BY <1>5, <2>3 DEF Connect
    <3>2. page' \in PageState
      BY <1>0, <3>1 DEF PageState
    <3>3. SockType' /\ WireType'
      BY <1>0, <3>1, OpenTypes, NoneTypes DEF SockType, WireType
    <3> QED BY <1>0, <1>1, <1>4, <2>1, <3>2, <3>3 DEF TypeInv
  <2> QED BY <2>2, <2>3
<1>6. CASE ReconnectNow(c) \/ Show(c)
  <2>1. UNCHANGED <<why, causes>>
    BY <1>6 DEF ReconnectNow, Show, hist
  <2>2. CASE Replace(c)
    BY <1>0, <1>1, <1>4, <2>1, <2>2, ReplaceTypes DEF TypeInv
  <2>3. CASE UNCHANGED <<page, sockVars, wireVars>>
    BY <1>0, <1>1, <1>4, <2>1, <2>3 DEF sockVars, wireVars, TypeInv, SockType, WireType
  <2> QED BY <1>6, <2>2, <2>3 DEF ReconnectNow, Show
<1>7. CASE Refused(c)
  <2>1. page' \in PageState
    <3>1. (~page.stopped) \in BOOLEAN
      OBVIOUS
    <3> QED BY <1>0, <1>7, <3>1 DEF Refused, PageState
  <2>2. SockType' /\ WireType'
    BY <1>0, <1>7 DEF Refused, wireVars, SockType, WireType
  <2>3. UNCHANGED <<why, causes>>
    BY <1>7 DEF Refused, hist
  <2> QED BY <1>0, <1>1, <1>4, <2>1, <2>2, <2>3 DEF TypeInv
<1>8. CASE Deliver(c)
  <2>1. Head(down[c]) \in PageFrames /\ Tail(down[c]) \in Seq(DownFrames)
    <3>1. Head(down[c]) \in DownFrames /\ Tail(down[c]) \in Seq(DownFrames)
      BY <1>0, <1>8 DEF Deliver
    <3> QED BY <1>8, <3>1, FrameTypes DEF Deliver
  <2>2. Append(inbox[c], Head(down[c])) \in Seq(PageFrames)
    BY <1>0, <2>1
  <2>3. inbox' \in [Conns -> Seq(PageFrames)] /\ down' \in [Conns -> Seq(DownFrames)]
    BY <1>0, <1>8, <2>1, <2>2 DEF Deliver
  <2>4. UNCHANGED <<page, sock, peer, outbox, up, why, causes>>
    BY <1>8 DEF Deliver, pageVars, hist
  <2> QED BY <1>0, <1>1, <1>4, <2>3, <2>4 DEF TypeInv, SockType, WireType
<1>9. CASE Receive(c)
  <2> DEFINE f == Head(inbox[c])
  <2>1. inbox' \in [Conns -> Seq(PageFrames)] /\ UNCHANGED down
    <3>1. Tail(inbox[c]) \in Seq(PageFrames)
      BY <1>0, <1>9 DEF Receive
    <3> QED BY <1>0, <1>9, <3>1 DEF Receive
  <2>2. f \in PageFrames
    BY <1>0, <1>9 DEF Receive
  <2>3. CASE UNCHANGED <<page, sock, peer, outbox, up, hist>>
    BY <1>0, <1>1, <1>4, <2>1, <2>3 DEF hist, TypeInv, SockType, WireType
  <2>4. CASE Greet(c)
    <3>1. UNCHANGED <<page, sock, peer, why, causes>> /\ QueueFrame(c, "hello")
      BY <2>4 DEF Greet, hist
    <3>2. up' \in [Conns -> Seq(UpFrames)]
      <4>1. Frame("nonce", 0) \in UpFrames
        BY FrameTypes DEF UpTags
      <4>2. Append(up[c], Frame("nonce", 0)) \in Seq(UpFrames)
        BY <1>0, <4>1
      <4> QED BY <1>0, <2>4, <4>2 DEF Greet
    <3>3. outbox' \in [Conns -> Seq(UpTags)]
      BY <3>1, QueueFrameTypes DEF UpTags
    <3> QED BY <1>0, <1>1, <1>4, <2>1, <3>1, <3>2, <3>3 DEF TypeInv, SockType, WireType
  <2>5. CASE Poison(c)
    BY <1>0, <1>1, <1>4, <2>1, <2>5, PoisonTypes DEF TypeInv, SockType, WireType
  <2>6. CASE f.tag # "nonce" /\ peer[c].recv # LastCounter /\ Handle(c, f.tag)
    <3>1. f.tag \in Tags
      BY <2>2, <2>6, FrameTypes
    <3> HIDE DEF f
    <3> QED BY <1>0, <1>1, <1>4, <2>1, <2>6, <3>1, HandleTypes
        DEF TypeInv, SockType, WireType
  <2> QED BY <1>0, <1>9, <2>3, <2>4, <2>5, <2>6 DEF Receive
<1>10. CASE Send(c)
  <2>1. UNCHANGED <<inbox, down>>
    BY <1>10 DEF Send
  <2>2. Tail(outbox[c]) \in Seq(UpTags) /\ Head(outbox[c]) \in UpTags
    BY <1>0, <1>10 DEF Send
  <2>3. CASE peer[c].poisoned
    <3>1. /\ outbox' = [outbox EXCEPT ![c] = Tail(@)]
          /\ UNCHANGED <<page, sock, peer, up, hist>>
      BY <1>10, <2>3 DEF Send
    <3> QED BY <1>0, <1>1, <1>4, <2>1, <2>2, <3>1 DEF hist, TypeInv, SockType, WireType
  <2>4. CASE Poison(c)
    BY <1>0, <1>1, <1>4, <2>1, <2>4, PoisonTypes DEF TypeInv, SockType, WireType
  <2>5. CASE ~peer[c].poisoned /\ peer[c].send # LastCounter
    <3>1. /\ outbox' = [outbox EXCEPT ![c] = Tail(@)]
          /\ peer' = [peer EXCEPT ![c].send = @ + 1]
          /\ up' = [up EXCEPT ![c] = IF sock[c] = "open"
                                     THEN Append(@, Frame(Head(outbox[c]), peer[c].send))
                                     ELSE @]
          /\ UNCHANGED <<page, sock, hist>>
      BY <1>10, <2>5 DEF Send
    <3>2. peer[c].send \in 0..LastCounter /\ peer[c].send + 1 \in 0..LastCounter
      BY <1>0, <2>5 DEF PeerState
    <3>3. [peer[c] EXCEPT !.send = @ + 1] \in PeerState
      <4>1. peer[c] \in PeerState
        BY <1>0
      <4> QED BY <3>2, <4>1 DEF PeerState
    <3>4. peer' \in [Conns -> PeerState]
      BY <1>0, <3>1, <3>3
    <3>5. Append(up[c], Frame(Head(outbox[c]), peer[c].send)) \in Seq(UpFrames)
      <4>1. Frame(Head(outbox[c]), peer[c].send) \in UpFrames
        BY <2>2, <3>2, FrameTypes
      <4> QED BY <1>0, <4>1
    <3>6. up' \in [Conns -> Seq(UpFrames)]
      BY <1>0, <3>1, <3>5
    <3> QED BY <1>0, <1>1, <1>4, <2>1, <2>2, <3>1, <3>4, <3>6
        DEF hist, TypeInv, SockType, WireType
  <2> QED BY <1>0, <1>10, <2>3, <2>4, <2>5 DEF Send
<1>11. CASE Type(c)
  <2>1. outbox' \in [Conns -> Seq(UpTags)]
    BY <1>11, QueueFrameTypes DEF Type, UpTags
  <2>2. UNCHANGED <<page, sock, peer, inbox, up, down, why, causes>>
    BY <1>11 DEF Type, pageVars, wireVars, hist
  <2> QED BY <1>0, <1>1, <1>4, <2>1, <2>2 DEF TypeInv, SockType, WireType
<1>12. CASE CloseSession(c)
  <2>1. outbox' \in [Conns -> Seq(UpTags)]
    BY <1>12, QueueFrameTypes DEF CloseSession, UpTags
  <2>2. /\ page' = [page EXCEPT !.shown = None, !.closing = TRUE]
        /\ causes' = causes \cup {"asked"}
        /\ UNCHANGED <<sock, peer, inbox, up, down, why>>
    BY <1>12 DEF CloseSession, wireVars, Noted
  <2>3. page' \in PageState
    BY <1>0, <2>2 DEF PageState
  <2>4. causes' \subseteq Causes
    BY <1>0, <2>2 DEF Causes
  <2> QED BY <1>0, <1>1, <1>4, <2>1, <2>2, <2>3, <2>4 DEF TypeInv, SockType, WireType
<1>13. ASSUME NEW code \in Codes, CloseEvent(c, code) PROVE TypeInv'
  <2>1. page' \in PageState /\ why' \in Reasons /\ causes' \subseteq Causes
    <3>1. CASE page.conn # c
      <4>1. UNCHANGED <<page, why, causes>>
        BY <1>13, <3>1 DEF CloseEvent, hist
      <4> QED BY <1>0, <4>1
    <3>2. CASE page.conn = c
      <4>1. /\ page' = [page EXCEPT !.conn = None, !.shown = None, !.closing = FALSE,
                                    !.stopped = @ \/ code = 1008,
                                    !.timer = Reconnects(code)]
            /\ why' = IF why = "none" /\ code = 1008 THEN "rejected" ELSE why
            /\ causes' = Noted("left", inbox[c] # <<>>)
        BY <1>13, <3>2, Zenon DEF CloseEvent
      <4>4. causes' \subseteq Causes
        BY <1>0, <4>1 DEF Noted, Causes
      <4>2. (page.stopped \/ code = 1008) \in BOOLEAN /\ Reconnects(code) \in BOOLEAN
        BY DEF Reconnects
      <4>3. page' \in PageState
        BY <1>0, <4>1, <4>2 DEF PageState
      <4> QED BY <1>0, <4>1, <4>3, <4>4
    <3> QED BY <3>1, <3>2
  <2>2. SockType' /\ WireType'
    <3>1. /\ sock' = [sock EXCEPT ![c] = "closed"] /\ down' = [down EXCEPT ![c] = <<>>]
          /\ outbox' = [outbox EXCEPT ![c] = <<>>]
          /\ peer' = [peer EXCEPT ![c] = IF inbox[c] = <<>> THEN NoPeer ELSE @]
          /\ up' = [up EXCEPT ![c] = IF handler[c] = "gone" THEN <<>> ELSE @]
          /\ UNCHANGED inbox
      BY <1>13 DEF CloseEvent
    <3> QED BY <1>0, <3>1, NoneTypes DEF SockType, WireType
  <2> QED BY <1>1, <1>4, <2>1, <2>2 DEF TypeInv
<1> QED BY <1>5, <1>6, <1>7, <1>8, <1>9, <1>10, <1>11, <1>12, <1>13

\* The type is kept by every step.
LEMMA TypeInvNext == TypeInv /\ [Next]_vars => TypeInv'
<1> SUFFICES ASSUME TypeInv, [Next]_vars PROVE TypeInv'
  OBVIOUS
<1>0. /\ client \in [Conns -> ClientState] /\ handler \in [Conns -> Handlers]
      /\ up \in [Conns -> Seq(UpFrames)] /\ down \in [Conns -> Seq(DownFrames)]
      /\ sock \in [Conns -> {"closed", "connecting", "open", "closing"}]
  BY DEF TypeInv, WorkerType, WireType, SockType
<1>1. ASSUME NEW c \in Conns, Accept(c) PROVE TypeInv'
  <2>1. UNCHANGED <<page, frozen, current, live, outs, bothers, why, causes>>
    BY <1>1 DEF Accept, pageVars, bounds, hist
  <2>2. PageType'
    BY <2>1 DEF TypeInv, PageType
  <2>3. /\ sock' = [sock EXCEPT ![c] = "open"] /\ UNCHANGED <<peer, inbox, outbox, up, client>>
        /\ \E h \in {"handshake", "stranger"} : handler' = [handler EXCEPT ![c] = h]
        /\ down' = [down EXCEPT ![c] = <<Frame("nonce", 0)>>]
    BY <1>1 DEF Accept
  <2>4. <<Frame("nonce", 0)>> \in Seq(DownFrames)
    BY FrameTypes
  <2>5. SockType' /\ WireType' /\ WorkerType'
    BY <2>3, <2>4 DEF TypeInv, SockType, WireType, WorkerType, Handlers
  <2> QED BY <2>2, <2>5 DEF TypeInv
<1>2. ASSUME NEW c \in Conns, Cut(c) PROVE TypeInv'
  <2>1. UNCHANGED <<page, frozen, current, live, outs, why, causes, sock, peer, inbox,
                    outbox, handler, client>>
    BY <1>2 DEF Cut, pageVars, sockVars, hist
  <2>2. PageType'
    BY <1>2, <2>1, BoundTypes DEF Cut, TypeInv, PageType
  <2>3. <<Fin(1006)>> \in Seq(DownFrames) /\ <<Fin(1006)>> \in Seq(UpFrames)
    BY FrameTypes DEF Codes
  <2>4. WireType'
    BY <1>0, <1>2, <2>3 DEF Cut, WireType
  <2> QED BY <2>1, <2>2, <2>4 DEF TypeInv, SockType, WorkerType
<1>3. ASSUME Rotate \/ Shutdown PROVE TypeInv'
  <2>1. UNCHANGED <<page, frozen, outs, bothers, why, causes, sock, peer, inbox, outbox, up,
                    handler>>
    BY <1>3 DEF Rotate, Shutdown, pageVars, sockVars, bounds, hist
  <2>2. PageType'
    BY <1>3, <2>1 DEF Rotate, Shutdown, TypeInv, PageType
  <2>3. client' \in [Conns -> ClientState]
    <3>1. \A c \in Conns : /\ Detached(Shut(client[c])) \in ClientState
                           /\ Pushed(Detached(client[c]), "shutdown") \in ClientState
      <4>1. "shutdown" \in Tags
        BY DEF Tags, FinalTags
      <4> QED BY <1>0, <4>1, QueueTypes
    <3> QED BY <1>0, <1>3, <3>1 DEF Rotate, Shutdown
  <2>4. down' \in [Conns -> Seq(DownFrames)]
    <3>1. \A c \in Conns : Closed(c, client'[c])[c] \in Seq(DownFrames)
      BY HungTypes
    <3> QED BY <1>3, <3>1 DEF Rotate, Shutdown
  <2> QED BY <1>0, <2>1, <2>2, <2>3, <2>4 DEF TypeInv, SockType, WireType, WorkerType
<1>4. CASE Hide
  <2>1. UNCHANGED <<page, current, live, outs, why, causes, sock, peer, inbox, outbox, up,
                    down, handler, client>>
    BY <1>4 DEF Hide, sockVars, wireVars, workerVars, hist
  <2>2. PageType'
    BY <1>4, <2>1, BoundTypes DEF Hide, TypeInv, PageType
  <2> QED BY <2>1, <2>2 DEF TypeInv, SockType, WireType, WorkerType
<1>5. CASE UNCHANGED vars
  BY <1>5
      DEF vars, pageVars, sockVars, wireVars, workerVars, bounds, hist, TypeInv,
          PageType, SockType, WireType, WorkerType
<1> QED BY <1>1, <1>2, <1>3, <1>4, <1>5, PageTypeNext, WorkerTypeNext
    DEF Next, Runs, Failure, Done

-----------------------------------------------------------------------------
\* What a step does to one connection

\* Nothing that matters to the page's connection.
PageSame == /\ page'.conn = page.conn /\ page'.shown = page.shown
            /\ page'.closing = page.closing

\* The counters and the stage of the page's end; it may be poisoned and closed.
PeerSame(d) ==
    /\ peer'[d].auth = peer[d].auth /\ peer'[d].recv = peer[d].recv
    /\ peer'[d].got = peer[d].got /\ peer'[d].superseded = peer[d].superseded
    /\ peer[d].poisoned => peer'[d].poisoned
    /\ sock'[d] \in {sock[d], "closing"}

\* The worker's end is left alone.
WorkerSame(d) == handler'[d] = handler[d] /\ client'[d] = client[d]

\* The page's end is left alone.
Quiet(d) == /\ sock'[d] = sock[d] /\ peer'[d] = peer[d] /\ inbox'[d] = inbox[d]
            /\ outbox'[d] = outbox[d] /\ PageSame

\* The step is about another connection, or only sends.
Bystander(d) ==
    /\ inbox'[d] = inbox[d] /\ down'[d] = down[d] /\ PeerSame(d) /\ WorkerSame(d)
    /\ d \in {page.conn, page'.conn} => PageSame
    /\ outbox[d] = <<>> /\ sock[d] # "open" => outbox'[d] = <<>> /\ peer'[d] = peer[d]

\* The page has left the socket, or it has closed.
Parted(d) ==
    /\ page'.conn # d /\ sock'[d] \notin {"connecting", "open"}
    /\ inbox'[d] = inbox[d] /\ down'[d] \in {down[d], <<>>} /\ WorkerSame(d)
    /\ peer'[d] \in {peer[d], NoPeer, [peer[d] EXCEPT !.superseded = TRUE]}
    /\ inbox[d] # <<>> /\ ~peer'[d].superseded =>
         "left" \in causes' \/ (page.conn # d /\ ~peer[d].superseded)

\* A new connection.
Opened(d) ==
    /\ Unused(d) /\ page'.conn = d /\ page'.shown = None
    /\ sock'[d] = "connecting" /\ peer'[d] = NoPeer
    /\ inbox'[d] = <<>> /\ outbox'[d] = <<>> /\ down'[d] = <<>>
    /\ WorkerSame(d)

\* The message event.
Delivered(d) ==
    /\ sock[d] = "open" /\ down[d] # <<>> /\ Head(down[d]).tag # "fin"
    /\ inbox'[d] = Append(inbox[d], Head(down[d])) /\ down'[d] = Tail(down[d])
    /\ sock'[d] = sock[d] /\ peer'[d] = peer[d] /\ WorkerSame(d) /\ PageSame

\* A frame has no effect, but perhaps to poison the connection.
Dropped(d) ==
    /\ inbox[d] # <<>> /\ inbox'[d] = Tail(inbox[d]) /\ down'[d] = down[d]
    /\ PeerSame(d) /\ WorkerSame(d) /\ PageSame
    /\ page.conn = d /\ ~peer'[d].poisoned => Head(inbox[d]).tag = "nonce"

\* A frame is opened and expected.
Handled(d) ==
    LET f == Head(inbox[d]) IN
    /\ inbox[d] # <<>> /\ inbox'[d] = Tail(inbox[d]) /\ down'[d] = down[d] /\ WorkerSame(d)
    /\ page.conn = d /\ ~peer[d].poisoned
    /\ f.tag \in Tags /\ f.n = peer[d].recv /\ ~Unexpected(d, f.tag)
    /\ peer'[d].recv = peer[d].recv + 1
    /\ peer'[d].auth <=> peer[d].auth \/ f.tag = "ready"
    /\ peer'[d].got = IF f.tag = "output" THEN peer[d].got + 1 ELSE peer[d].got
    /\ sock'[d] \in {sock[d], "closing"}
    /\ page'.conn = d /\ (page'.closing => page.closing)
    /\ f.tag = "output" => PageSame
    /\ f.tag = "ready" => page'.shown = d

\* closeSession.
CloseAsked(d) ==
    /\ page.conn = d /\ page'.conn = d /\ page'.closing /\ "asked" \in causes'
    /\ peer[d].auth
    /\ sock'[d] = sock[d] /\ peer'[d] = peer[d] /\ inbox'[d] = inbox[d]
    /\ down'[d] = down[d] /\ WorkerSame(d)

\* The upgrade, with the server's nonce behind it.
Accepted(d) ==
    /\ sock[d] = "connecting" /\ sock'[d] = "open"
    /\ peer'[d] = peer[d] /\ inbox'[d] = inbox[d] /\ PageSame
    /\ handler'[d] \in {"handshake", "stranger"} /\ client'[d] = client[d]
    /\ handler'[d] = "stranger" => ~current
    /\ down'[d] = <<Frame("nonce", 0)>>

\* The viewer may have output for the page, now or soon.
Watching(d) == client[d].viewer \in {"opening", "open"}

\* The connection is closed on the wire, where that is seen.
HangsUp(d, code) == down'[d] \in {down[d], Append(down[d], Fin(code))}

\* handleWebSocket has returned.
Freed(d) ==
    /\ Quiet(d) /\ handler'[d] = "gone" /\ client'[d] = NoClient
    /\ \E code \in Codes : HangsUp(d, code) /\ (code = 1008 => ~current)

\* The handler goes on.
Proceeds(d) ==
    /\ Quiet(d) /\ "gone" \notin {handler[d], handler'[d]}
    /\ handler'[d] = "stranger" => handler[d] = "stranger"
    /\ handler'[d] \in Greeting => handler[d] \in Greeting /\ client'[d].viewer = "none"
    /\ Watching(d)' => handler'[d] \in {"starting", "serving"}

\* A frame is queued.
Added(d, tag) ==
    /\ Proceeds(d) /\ handler'[d] \notin Greeting
    /\ ~client[d].closed /\ ~client'[d].closed /\ Len(client[d].frames) < QueueLimit
    /\ client'[d].frames = Append(client[d].frames, tag)
    /\ client'[d].send = client[d].send /\ client'[d].given = Counted(client[d], tag)
    /\ down'[d] = down[d]
    /\ tag = "ready" => handler[d] = "opening"
    /\ tag = "output" => Watching(d) /\ outs' = outs + 1
    /\ tag \notin {"ready", "output"} => ~Watching(d)'
    /\ tag = "close" => up[d] # <<>> /\ Head(up[d]).tag = "close"
    /\ tag = "shutdown" => ~live'
    /\ tag = "error_stop" => ~live' \/ "unavailable" \in causes'

\* The queue is closed.
Emptied(d) ==
    /\ Proceeds(d) /\ client'[d].frames = <<>> /\ client'[d].closed
    /\ client'[d].send = client[d].send /\ client'[d].given = client[d].given
    /\ HangsUp(d, 1006) /\ (Watching(d)' => Watching(d))

\* A frame is written, or lost if the page has closed its end.
Written(d) ==
    /\ Proceeds(d) /\ handler'[d] = handler[d]
    /\ client[d].frames # <<>> /\ client'[d].frames = Tail(client[d].frames)
    /\ client[d].send # LastCounter /\ client'[d].send = client[d].send + 1
    /\ client'[d].closed = client[d].closed /\ client'[d].given = client[d].given
    /\ client'[d].viewer = client[d].viewer
    /\ down'[d] = IF sock[d] = "open"
                  THEN Append(down[d], Frame(Head(client[d].frames), client[d].send))
                  ELSE down[d]

\* The queue is left alone.
Tuned(d) ==
    /\ Proceeds(d) /\ client'[d].frames = client[d].frames
    /\ client'[d].closed = client[d].closed
    /\ client'[d].send = client[d].send /\ client'[d].given = client[d].given
    /\ down'[d] = down[d] /\ (Watching(d)' => Watching(d))

\* The network drops the connection.
Severed(d) ==
    /\ Quiet(d) /\ WorkerSame(d) /\ sock[d] = "open" /\ down'[d] = <<Fin(1006)>>

\* Every step is one of these to every connection.
Touched(d) ==
    \/ Bystander(d) \/ Parted(d) \/ Opened(d) \/ Delivered(d) \/ Dropped(d) \/ Handled(d)
    \/ CloseAsked(d) \/ Accepted(d) \/ Freed(d) \/ (\E tag \in Tags : Added(d, tag))
    \/ Emptied(d) \/ Written(d) \/ Tuned(d) \/ Severed(d)

\* What is never taken back.
Monotone ==
    /\ causes \subseteq causes'
    /\ live' => live
    /\ current' => current
    /\ outs' \in {outs, outs + 1}

\* Nothing about d has changed, and the page's connection is another or as before.
LEMMA StillTouched ==
  ASSUME NEW d \in Conns, sock'[d] = sock[d], peer'[d] = peer[d], inbox'[d] = inbox[d],
         outbox'[d] = outbox[d], down'[d] = down[d], handler'[d] = handler[d],
         client'[d] = client[d], d \in {page.conn, page'.conn} => PageSame
  PROVE  Touched(d)
  BY DEF Touched, Bystander, PeerSame, WorkerSame

\* connect makes a new connection and leaves the one before, if there is one.
LEMMA ReplaceTouches ==
  ASSUME TypeInv, PageInv, NEW c \in Conns, NEW d \in Conns, Replace(c),
         UNCHANGED <<handler, client>>
  PROVE  Touched(d)
<1>0. /\ sock \in [Conns -> {"closed", "connecting", "open", "closing"}]
      /\ peer \in [Conns -> PeerState] /\ outbox \in [Conns -> Seq(UpTags)]
      /\ down \in [Conns -> Seq(DownFrames)] /\ page \in PageState
  BY DEF TypeInv, PageType, SockType, WireType
<1>1. /\ Unused(c) /\ UNCHANGED inbox
      /\ sock' = [Closing(page.conn) EXCEPT ![c] = "connecting"]
      /\ outbox' = [outbox EXCEPT ![c] = <<>>] /\ down' = [down EXCEPT ![c] = <<>>]
  BY DEF Replace, Open, Fresh
<1>2. page'.conn = c /\ page'.shown = None
  BY <1>0 DEF Replace, PageState
<1>3. c # page.conn
  BY <1>1, Constants DEF PageInv, Unused
<1>4. CASE d = c
  <2>1. sock'[c] = "connecting" /\ peer'[c] = NoPeer
    BY <1>0, <1>1, <1>3 DEF Replace, Closing
  <2>2. Opened(c)
    BY <1>0, <1>1, <1>2, <2>1 DEF Opened, Unused, WorkerSame
  <2> QED BY <1>4, <2>2 DEF Touched
<1>5. CASE d = page.conn
  <2>1. sock'[d] \notin {"connecting", "open"}
    BY <1>0, <1>1, <1>3, <1>5 DEF Closing
  <2>2. peer'[d] = [peer[d] EXCEPT !.superseded = TRUE]
    BY <1>0, <1>3, <1>5 DEF Replace
  <2>3. peer'[d].superseded
    BY <1>0, <2>2 DEF PeerState
  <2>4. Parted(d)
    BY <1>0, <1>1, <1>2, <1>3, <1>5, <2>1, <2>2, <2>3 DEF Parted, WorkerSame
  <2> QED BY <2>4 DEF Touched
<1>6. CASE d # c /\ d # page.conn
  <2>1. sock'[d] = sock[d]
    BY <1>0, <1>1, <1>6 DEF Closing
  <2>2. peer'[d] = peer[d]
    BY <1>0, <1>6 DEF Replace
  <2> QED BY <1>0, <1>1, <1>2, <1>6, <2>1, <2>2, StillTouched
<1> QED BY <1>4, <1>5, <1>6

\* socket.close() closes no socket but one.
LEMMA ClosingSocket ==
  ASSUME TypeInv, NEW c, NEW d \in Conns
  PROVE  Closing(c)[d] \in {sock[d], "closing"} /\ (d # c => Closing(c)[d] = sock[d])
  BY DEF Closing, TypeInv, SockType

\* poison changes nothing else of a connection.
LEMMA PoisonKeeps ==
  ASSUME TypeInv, NEW c \in Conns, NEW d \in Conns, Poison(c)
  PROVE  /\ PeerSame(d) /\ PageSame /\ peer'[c].poisoned
         /\ d # c => sock'[d] = sock[d] /\ peer'[d] = peer[d]
<1>1. peer' = [peer EXCEPT ![c].poisoned = TRUE] /\ sock' = Closing(c)
  BY DEF Poison
<1>2. PageSame
  BY DEF Poison, PageSame, TypeInv, PageType, PageState
<1>3. d # c => sock'[d] = sock[d] /\ peer'[d] = peer[d]
  BY <1>1, ClosingSocket DEF TypeInv, SockType
<1>4. peer'[c] = [peer[c] EXCEPT !.poisoned = TRUE] /\ peer[c] \in PeerState
  BY <1>1 DEF TypeInv, SockType
<1>5. /\ peer'[c].auth = peer[c].auth /\ peer'[c].recv = peer[c].recv
      /\ peer'[c].got = peer[c].got /\ peer'[c].superseded = peer[c].superseded
      /\ peer'[c].poisoned
  BY <1>4 DEF PeerState
<1>6. sock'[d] \in {sock[d], "closing"}
  BY <1>1, ClosingSocket
<1> QED BY <1>2, <1>3, <1>5, <1>6 DEF PeerSame

\* The steps of receiveMessage.
LEMMA ReceiveTouches ==
  ASSUME TypeInv, NEW c \in Conns, NEW d \in Conns, Receive(c)
  PROVE  Touched(d) /\ causes \subseteq causes'
<1> DEFINE f == Head(inbox[c])
<1>0. /\ sock \in [Conns -> {"closed", "connecting", "open", "closing"}]
      /\ peer \in [Conns -> PeerState] /\ inbox \in [Conns -> Seq(PageFrames)]
      /\ outbox \in [Conns -> Seq(UpTags)] /\ page \in PageState
  BY DEF TypeInv, PageType, SockType
<1>1. /\ inbox[c] # <<>> /\ inbox' = [inbox EXCEPT ![c] = Tail(@)]
      /\ UNCHANGED <<down, handler, client>>
  BY DEF Receive, workerVars
<1>2. f \in PageFrames
  BY <1>0, <1>1
<1>3. ASSUME PeerSame(d), PageSame, outbox'[d] = outbox[d],
             page.conn = c /\ ~peer'[c].poisoned => f.tag = "nonce",
             d # c => sock'[d] = sock[d] /\ peer'[d] = peer[d]
      PROVE  Touched(d)
  <2>1. CASE d = c
    BY <1>0, <1>1, <1>3, <2>1 DEF Touched, Dropped, WorkerSame
  <2>2. CASE d # c
    BY <1>0, <1>1, <1>3, <2>2, StillTouched
  <2> QED BY <2>1, <2>2
<1>4. CASE /\ UNCHANGED <<page, sock, peer, outbox, up, hist>>
           /\ peer[c].poisoned \/ f.tag = "nonce" \/ page.conn # c
  <2>1. PeerSame(d) /\ PageSame /\ causes \subseteq causes'
    BY <1>4 DEF PeerSame, PageSame, hist
  <2> QED BY <1>3, <1>4, <2>1
<1>5. CASE f.tag = "nonce" /\ Greet(c)
  <2>1. /\ UNCHANGED <<page, sock, peer>> /\ (d # c => outbox'[d] = outbox[d])
        /\ causes \subseteq causes'
    BY <1>0, <1>5 DEF Greet, QueueFrame, hist
  <2>2. PeerSame(d) /\ PageSame
    BY <2>1 DEF PeerSame, PageSame
  <2>3. CASE d = c
    BY <1>0, <1>1, <1>5, <2>1, <2>2, <2>3 DEF Touched, Dropped, WorkerSame
  <2>4. CASE d # c
    BY <1>0, <1>1, <2>1, <2>2, <2>4, StillTouched
  <2> QED BY <2>1, <2>3, <2>4
<1>6. CASE Poison(c)
  <2>1. UNCHANGED outbox /\ causes \subseteq causes'
    BY <1>6 DEF Poison, Noted
  <2>2. /\ PeerSame(d) /\ PageSame /\ peer'[c].poisoned
        /\ d # c => sock'[d] = sock[d] /\ peer'[d] = peer[d]
    BY <1>6, PoisonKeeps
  <2> QED BY <1>3, <2>1, <2>2
<1>7. CASE /\ ~peer[c].poisoned /\ page.conn = c /\ f.tag # "nonce" /\ f.n = peer[c].recv
           /\ ~Unexpected(c, f.tag) /\ Handle(c, f.tag)
  <2>1. f.tag \in Tags
    BY <1>2, <1>7, FrameTypes
  <2>2. UNCHANGED <<outbox, causes>>
    BY <1>7, <2>1 DEF Handle, Stop, hist, Tags, FinalTags
  <2>3. sock'[d] \in {sock[d], "closing"} /\ (d # c => sock'[d] = sock[d])
    <3>1. sock' = sock \/ sock' = Closing(c)
      BY <1>7, <2>1 DEF Handle, Tags, FinalTags
    <3> QED BY <3>1, ClosingSocket
  <2>4. d # c => peer'[d] = peer[d]
    BY <1>0, <1>7 DEF Handle
  <2>5. page'.conn = page.conn /\ (page'.closing => page.closing)
    BY <1>0, <1>7, <2>1 DEF Handle, Tags, FinalTags, PageState
  <2>6. f.tag = "output" => PageSame
    BY <1>7 DEF Handle, PageSame
  <2>7. f.tag = "ready" => page'.shown = c
    BY <1>0, <1>7 DEF Handle, PageState
  <2>8. /\ peer'[c].recv = peer[c].recv + 1
        /\ peer'[c].auth <=> peer[c].auth \/ f.tag = "ready"
        /\ peer'[c].got = IF f.tag = "output" THEN peer[c].got + 1 ELSE peer[c].got
    BY <1>0, <1>7 DEF Handle, PeerState
  <2>9. CASE d = c
    BY <1>0, <1>1, <1>7, <2>1, <2>2, <2>3, <2>5, <2>6, <2>7, <2>8, <2>9
       DEF Touched, Handled, WorkerSame
  <2>10. CASE d # c
    BY <1>0, <1>1, <1>7, <2>2, <2>3, <2>4, <2>5, <2>10, StillTouched
  <2> QED BY <2>2, <2>9, <2>10
<1> QED BY <1>0, <1>4, <1>5, <1>6, <1>7 DEF Receive, IsCurrent

\* The page's other steps.
LEMMA PageTouches ==
  ASSUME TypeInv, StageInv, PageInv, NEW c \in Conns, NEW d \in Conns,
         \/ Connect(c) \/ ReconnectNow(c) \/ Show(c) \/ Refused(c) \/ Deliver(c)
         \/ Send(c) \/ Type(c) \/ CloseSession(c)
         \/ \E code \in Codes : CloseEvent(c, code)
  PROVE  Touched(d) /\ causes \subseteq causes'
<1>0. /\ sock \in [Conns -> {"closed", "connecting", "open", "closing"}]
      /\ peer \in [Conns -> PeerState] /\ inbox \in [Conns -> Seq(PageFrames)]
      /\ outbox \in [Conns -> Seq(UpTags)] /\ down \in [Conns -> Seq(DownFrames)]
      /\ page \in PageState
  BY DEF TypeInv, PageType, SockType, WireType
<1>1. UNCHANGED <<handler, client>>
  BY DEF Connect, ReconnectNow, Show, Refused, Deliver, Send, Type, CloseSession,
         CloseEvent, workerVars
<1>2. ASSUME UNCHANGED <<sock, peer, inbox, outbox, down>>, PageSame PROVE Touched(d)
  BY <1>1, <1>2, StillTouched
<1>3. CASE Connect(c)
  <2>1. page.conn = None /\ page.shown = None /\ causes \subseteq causes'
    BY <1>3, Constants DEF Connect, hist, PageInv, TerminalOfConnection
  <2>2. CASE page.stopped
    <3>1. page' = [page EXCEPT !.timer = FALSE] /\ UNCHANGED <<sock, peer, inbox, outbox, down>>
      BY <1>3, <2>2 DEF Connect, sockVars, wireVars
    <3>2. PageSame
      BY <1>0, <3>1 DEF PageSame, PageState
    <3> QED BY <1>2, <2>1, <3>1, <3>2
  <2>3. CASE ~page.stopped
    <3>1. /\ page' = [page EXCEPT !.timer = FALSE, !.conn = c]
          /\ Unused(c) /\ sock' = [sock EXCEPT ![c] = "connecting"]
          /\ outbox' = [outbox EXCEPT ![c] = <<>>] /\ down' = [down EXCEPT ![c] = <<>>]
          /\ peer' = [peer EXCEPT ![c] = NoPeer] /\ UNCHANGED inbox
      BY <1>3, <2>3 DEF Connect, Open, Fresh
    <3>2. page'.conn = c /\ page'.shown = None
      BY <1>0, <2>1, <3>1 DEF PageState
    <3>3. CASE d = c
      <4>1. Opened(c)
        BY <1>0, <1>1, <3>1, <3>2 DEF Opened, Unused, WorkerSame
      <4> QED BY <2>1, <3>3, <4>1 DEF Touched
    <3>4. CASE d # c
      BY <1>0, <1>1, <2>1, <3>1, <3>2, <3>4, StillTouched, Constants
    <3> QED BY <3>3, <3>4
  <2> QED BY <2>2, <2>3
<1>4. CASE ReconnectNow(c) \/ Show(c)
  <2>1. causes \subseteq causes'
    BY <1>4 DEF ReconnectNow, Show, hist
  <2>2. CASE Replace(c)
    BY <1>1, <2>1, <2>2, ReplaceTouches
  <2>3. CASE UNCHANGED <<page, sockVars, wireVars>>
    BY <1>2, <2>1, <2>3 DEF sockVars, wireVars, PageSame
  <2> QED BY <1>4, <2>2, <2>3 DEF ReconnectNow, Show
<1>5. CASE Refused(c)
  <2>1. /\ sock[c] = "connecting" /\ sock' = [sock EXCEPT ![c] = "closed"]
        /\ UNCHANGED <<peer, inbox, outbox, down>> /\ causes \subseteq causes'
    BY <1>5 DEF Refused, wireVars, hist
  <2>2. page'.conn # c /\ (page.conn # c => UNCHANGED page)
    BY <1>0, <1>5, Constants DEF Refused, PageState
  <2>3. page.conn = c => page'.conn = None
    BY <1>0, <1>5 DEF Refused, PageState
  <2>4. CASE d = c
    <3>1. inbox[c] = <<>>
      BY <2>1 DEF StageInv, Staged
    <3>2. Parted(c)
      BY <1>0, <1>1, <2>1, <2>2, <3>1 DEF Parted, WorkerSame
    <3> QED BY <2>1, <2>4, <3>2 DEF Touched
  <2>5. CASE d # c
    <3>1. d \in {page.conn, page'.conn} => PageSame
      BY <2>2, <2>3, <2>5, Constants DEF PageSame
    <3> QED BY <1>0, <1>1, <2>1, <2>5, <3>1, StillTouched
  <2> QED BY <2>4, <2>5
<1>6. CASE Deliver(c)
  <2>1. /\ sock[c] = "open" /\ down[c] # <<>> /\ Head(down[c]).tag # "fin"
        /\ inbox' = [inbox EXCEPT ![c] = Append(@, Head(down[c]))]
        /\ down' = [down EXCEPT ![c] = Tail(@)]
        /\ UNCHANGED <<page, sock, peer, outbox>> /\ causes \subseteq causes'
    BY <1>6 DEF Deliver, pageVars, hist
  <2>2. PageSame
    BY <2>1 DEF PageSame
  <2>3. CASE d = c
    BY <1>0, <1>1, <2>1, <2>2, <2>3 DEF Touched, Delivered, WorkerSame
  <2>4. CASE d # c
    BY <1>0, <1>1, <2>1, <2>2, <2>4, StillTouched
  <2> QED BY <2>3, <2>4
<1>7. CASE Send(c)
  <2>1. outbox[c] # <<>> /\ UNCHANGED <<inbox, down>>
    BY <1>7 DEF Send
  <2>2. /\ PeerSame(d) /\ PageSame /\ causes \subseteq causes'
        /\ d # c => sock'[d] = sock[d] /\ peer'[d] = peer[d] /\ outbox'[d] = outbox[d]
    <3>1. CASE peer[c].poisoned
      <4>1. outbox' = [outbox EXCEPT ![c] = Tail(@)] /\ UNCHANGED <<page, sock, peer, hist>>
        BY <1>7, <3>1 DEF Send
      <4> QED BY <1>0, <4>1 DEF PeerSame, PageSame, hist
    <3>2. CASE Poison(c)
      <4>1. UNCHANGED outbox /\ causes \subseteq causes'
        BY <3>2 DEF Poison, Noted
      <4> QED BY <3>2, <4>1, PoisonKeeps
    <3>3. CASE ~peer[c].poisoned /\ peer[c].send # LastCounter
      <4>1. /\ outbox' = [outbox EXCEPT ![c] = Tail(@)] /\ UNCHANGED <<page, sock, hist>>
            /\ peer' = [peer EXCEPT ![c].send = @ + 1]
        BY <1>7, <3>3 DEF Send
      <4>2. peer[d] \in PeerState
        BY <1>0
      <4> QED BY <1>0, <4>1, <4>2 DEF PeerSame, PageSame, hist, PeerState
    <3> QED BY <1>7, <3>1, <3>2, <3>3 DEF Send
  <2>3. CASE d = c
    BY <1>1, <2>1, <2>2, <2>3 DEF Touched, Bystander, WorkerSame
  <2>4. CASE d # c
    BY <1>1, <2>1, <2>2, <2>4, StillTouched
  <2> QED BY <2>2, <2>3, <2>4
<1>8. CASE Type(c)
  <2>1. /\ UNCHANGED <<page, sock, peer, inbox, down>> /\ causes \subseteq causes'
        /\ QueueFrame(c, "input")
    BY <1>8 DEF Type, pageVars, wireVars, hist
  <2>2. PeerSame(d) /\ PageSame
    BY <2>1 DEF PeerSame, PageSame
  <2>3. outbox[d] = <<>> /\ sock[d] # "open" => outbox'[d] = <<>> /\ peer'[d] = peer[d]
    BY <1>0, <2>1 DEF QueueFrame
  <2> QED BY <1>1, <2>1, <2>2, <2>3 DEF Touched, Bystander, WorkerSame
<1>9. CASE CloseSession(c)
  <2>1. /\ page.conn = c /\ peer[c].auth /\ causes' = causes \cup {"asked"}
        /\ page' = [page EXCEPT !.shown = None, !.closing = TRUE]
        /\ UNCHANGED <<sock, peer, inbox, down>> /\ QueueFrame(c, "close")
    BY <1>9 DEF CloseSession, wireVars, Noted
  <2>2. page'.conn = c /\ page'.closing
    BY <1>0, <2>1 DEF PageState
  <2>3. CASE d = c
    BY <1>1, <2>1, <2>2, <2>3 DEF Touched, CloseAsked, WorkerSame
  <2>4. CASE d # c
    <3>1. outbox'[d] = outbox[d]
      BY <1>0, <2>1, <2>4 DEF QueueFrame
    <3> QED BY <1>1, <2>1, <2>2, <2>4, <3>1, StillTouched
  <2> QED BY <2>3, <2>4
<1>10. ASSUME NEW code \in Codes, CloseEvent(c, code) PROVE Touched(d) /\ causes \subseteq causes'
  <2>1. /\ sock' = [sock EXCEPT ![c] = "closed"] /\ down' = [down EXCEPT ![c] = <<>>]
        /\ outbox' = [outbox EXCEPT ![c] = <<>>] /\ UNCHANGED inbox
        /\ peer' = [peer EXCEPT ![c] = IF inbox[c] = <<>> THEN NoPeer ELSE @]
    BY <1>10 DEF CloseEvent
  <2>2. page.conn # c => UNCHANGED <<page, causes>>
    BY <1>10 DEF CloseEvent, hist
  <2>3. page.conn = c =>
            page'.conn = None /\ causes' = IF inbox[c] # <<>> THEN causes \cup {"left"} ELSE causes
    <3>1. ASSUME page.conn = c
          PROVE  /\ page' = [page EXCEPT !.conn = None, !.shown = None, !.closing = FALSE,
                                         !.stopped = @ \/ code = 1008,
                                         !.timer = Reconnects(code)]
                 /\ causes' = Noted("left", inbox[c] # <<>>)
      BY <1>10, <3>1, Zenon DEF CloseEvent
    <3>2. ASSUME page.conn = c PROVE page'.conn = None
      BY <1>0, <3>1, <3>2 DEF PageState
    <3> QED BY <3>1, <3>2 DEF Noted
  <2>4. causes \subseteq causes'
    BY <2>2, <2>3
  <2>5. page'.conn # c
    BY <2>2, <2>3, Constants
  <2>6. CASE d = c
    <3>1. down'[c] = <<>> /\ peer'[c] \in {peer[c], NoPeer} /\ sock'[c] = "closed"
      BY <1>0, <2>1
    <3>2. inbox[c] # <<>> /\ ~peer'[c].superseded =>
             "left" \in causes' \/ (page.conn # c /\ ~peer[c].superseded)
      BY <1>0, <2>1, <2>2, <2>3
    <3>3. Parted(c)
      BY <1>1, <2>1, <2>5, <3>1, <3>2 DEF Parted, WorkerSame
    <3> QED BY <2>4, <2>6, <3>3 DEF Touched
  <2>7. CASE d # c
    <3>1. d \in {page.conn, page'.conn} => PageSame
      BY <2>2, <2>3, <2>7, Constants DEF PageSame
    <3> QED BY <1>0, <1>1, <2>1, <2>4, <2>7, <3>1, StillTouched
  <2> QED BY <2>6, <2>7
<1> QED BY <1>3, <1>4, <1>5, <1>6, <1>7, <1>8, <1>9, <1>10

\* outboundQueue.push, case by case.
LEMMA PushCases ==
  ASSUME NEW q \in ClientState, NEW tag \in Tags
  PROVE  /\ Pushed(q, tag).viewer = q.viewer /\ Pushed(q, tag).send = q.send
         /\ \/ q.closed /\ Pushed(q, tag) = q
            \/ /\ ~q.closed /\ Pushed(q, tag).closed /\ Pushed(q, tag).frames = <<>>
               /\ Pushed(q, tag).given = q.given
            \/ /\ ~q.closed /\ ~Pushed(q, tag).closed /\ Len(q.frames) < QueueLimit
               /\ Pushed(q, tag).frames = Append(q.frames, tag)
               /\ Pushed(q, tag).given = Counted(q, tag)
<1>1. CASE q.closed
  BY <1>1 DEF Pushed
<1>2. CASE ~q.closed /\ Full(q)
  BY <1>2 DEF Pushed, Shut, ClientState
<1>3. CASE ~q.closed /\ ~Full(q)
  <2>1. Pushed(q, tag) = [q EXCEPT !.frames = Append(@, tag), !.given = Counted(q, tag),
                                   !.final = @ \/ tag \in FinalTags]
    BY <1>3 DEF Pushed
  <2>2. Len(q.frames) < QueueLimit
    BY <1>3, Constants DEF Full, ClientState
  <2> QED BY <1>3, <2>1, <2>2 DEF ClientState
<1> QED BY <1>1, <1>2, <1>3

\* What closing a queue does to the wire.
LEMMA ClosedWire ==
  ASSUME TypeInv, NEW c \in Conns, NEW q, NEW d \in Conns
  PROVE  /\ Closed(c, q)[c] \in {down[c], Append(down[c], Fin(1006))}
         /\ ~q.closed \/ client[c].closed => Closed(c, q) = down
         /\ d # c => Closed(c, q)[d] = down[d]
  BY DEF Closed, Hung, TypeInv, WireType

\* The handler goes on: the queue c had becomes q, and the wire what that makes of it.
LEMMA QueueTouches ==
  ASSUME TypeInv, StageInv, NEW c \in Conns, NEW q \in ClientState, NEW tag \in Tags,
         Quiet(c), "gone" \notin {handler[c], handler'[c]},
         handler'[c] \notin Greeting,
         q.frames = client[c].frames, q.closed = client[c].closed, q.send = client[c].send,
         q.given = client[c].given,
         \E v \in Viewers : client'[c] = [Pushed(q, tag) EXCEPT !.viewer = v],
         down'[c] = Closed(c, Pushed(q, tag))[c],
         Watching(c)' => Watching(c) \/ (tag = "ready" /\ ~client[c].closed),
         Watching(c)' => handler'[c] \in {"starting", "serving"},
         tag = "ready" => handler[c] = "opening",
         tag = "output" => Watching(c) /\ outs' = outs + 1,
         tag \notin {"ready", "output"} => ~Watching(c)',
         tag = "close" => up[c] # <<>> /\ Head(up[c]).tag = "close",
         tag = "shutdown" => ~live',
         tag = "error_stop" =>
             ~live' \/ "unavailable" \in causes' \/ client[c].closed
  PROVE  Touched(c)
<1> DEFINE p == Pushed(q, tag)
<1>0. p \in ClientState /\ client[c] \in ClientState
  BY QueueTypes DEF TypeInv, WorkerType
<1>1. /\ client'[c].frames = p.frames /\ client'[c].closed = p.closed
      /\ client'[c].send = p.send /\ client'[c].given = p.given
  BY <1>0 DEF ClientState
<1>2. Proceeds(c)
  BY DEF Proceeds, Greeting
<1>3. CASE q.closed /\ p = q
  <2>0. client[c].closed
    BY <1>3
  <2>1. down'[c] = down[c]
    <3>1. Closed(c, p) = down
      BY <2>0, ClosedWire
    <3> QED BY <3>1
  <2>2. Watching(c)' => Watching(c)
    BY <1>3
  <2>3. /\ client'[c].frames = client[c].frames /\ client'[c].closed = client[c].closed
        /\ client'[c].send = client[c].send /\ client'[c].given = client[c].given
    <3> HIDE DEF p
    <3>1. /\ p.frames = q.frames /\ p.closed = q.closed
          /\ p.send = q.send /\ p.given = q.given
      BY <1>3
    <3> QED BY <1>1, <3>1
  <2>4. Tuned(c)
    BY <1>2, <2>1, <2>2, <2>3 DEF Tuned
  <2> QED BY <2>4 DEF Touched
<1>4. CASE ~q.closed /\ p.closed /\ p.frames = <<>> /\ p.given = q.given
  <2>1. Watching(c)' => Watching(c)
    <3>1. CASE tag = "ready"
      <4>1. q.frames = <<>>
        BY <3>1 DEF StageInv, Staged, Greeting
      <4>2. ~Full(q)
        BY <4>1, Constants DEF Full
      <4>3. p.closed = q.closed
        BY <1>0, <1>4, <4>2 DEF Pushed, ClientState
      <4> QED BY <1>4, <4>3
    <3> QED BY <3>1
  <2>2. HangsUp(c, 1006)
    BY ClosedWire DEF HangsUp
  <2>3. p.send = q.send
    BY PushCases
  <2>4. Emptied(c)
    BY <1>1, <1>2, <1>4, <2>1, <2>2, <2>3 DEF Emptied
  <2> QED BY <2>4 DEF Touched
<1>5. CASE /\ ~q.closed /\ ~p.closed /\ Len(q.frames) < QueueLimit
           /\ p.frames = Append(q.frames, tag) /\ p.given = Counted(q, tag)
  <2>1. down'[c] = down[c]
    BY <1>5, ClosedWire
  <2>2. Counted(q, tag) = Counted(client[c], tag)
    BY DEF Counted
  <2>3. p.send = q.send
    BY PushCases
  <2>4. Added(c, tag)
    BY <1>1, <1>2, <1>5, <2>1, <2>2, <2>3 DEF Added
  <2> QED BY <2>4 DEF Touched
<1> QED BY <1>3, <1>4, <1>5, PushCases

\* The worker's steps on a connection.
LEMMA WorkerTouches ==
  ASSUME TypeInv, StageInv, NEW c \in Conns,
         \/ Authenticate(c) \/ Join(c) \/ Write(c) \/ FinishClose(c) \/ SendReady(c)
         \/ StartViewer(c) \/ TellEnded(c) \/ Input(c) \/ Close(c) \/ RunEnds(c)
         \/ HandshakeEnds(c) \/ OpenFails(c) \/ Output(c) \/ ViewerEnds(c)
         \/ ViewerFails(c)
  PROVE  Touched(c)
<1>0. /\ client \in [Conns -> ClientState] /\ client[c] \in ClientState
      /\ down \in [Conns -> Seq(DownFrames)] /\ handler \in [Conns -> Handlers]
  BY DEF TypeInv, WorkerType, WireType
<1>1. Quiet(c)
  BY WorkerAside DEF Aside, Quiet, PageSame
<1>2. handler[c] = "gone" => client[c].viewer = "none" /\ client[c].frames = <<>>
                             /\ ~client[c].final
  BY DEF StageInv, Staged, NoClient
<1>3. ASSUME NEW code \in Codes, Leave(c, code), code = 1008 => ~current PROVE Touched(c)
  <2>1. Freed(c)
    BY <1>0, <1>1, <1>3 DEF Leave, Return, Hung, Freed, HangsUp
  <2> QED BY <2>1 DEF Touched
<1>4. ASSUME Ends(c) PROVE Touched(c)
  <2>1. handler'[c] = "gone" /\ client'[c] = NoClient /\ down' = Closed(c, Shut(client[c]))
    BY <1>0, <1>4 DEF Ends, Return
  <2>2. HangsUp(c, 1006)
    BY <2>1, ClosedWire DEF HangsUp
  <2>3. Freed(c)
    BY <1>1, <2>1, <2>2 DEF Freed, Codes
  <2> QED BY <2>3 DEF Touched
<1>5. ASSUME CloseNow(c), handler' = handler, handler[c] # "gone" PROVE Touched(c)
  <2>1. client'[c] = Shut(client[c]) /\ down' = Closed(c, Shut(client[c]))
    BY <1>0, <1>5 DEF CloseNow
  <2>2. /\ client'[c].frames = <<>> /\ client'[c].closed
        /\ client'[c].send = client[c].send /\ client'[c].given = client[c].given
        /\ client'[c].viewer = client[c].viewer
    BY <1>0, <2>1 DEF Shut, ClientState
  <2>3. HangsUp(c, 1006)
    BY <2>1, ClosedWire DEF HangsUp
  <2>4. Proceeds(c)
    BY <1>1, <1>5, <2>2 DEF Proceeds, StageInv, Staged, Watching
  <2>5. Emptied(c)
    BY <2>2, <2>3, <2>4 DEF Emptied, Watching
  <2> QED BY <2>5 DEF Touched
<1>6. CASE Authenticate(c)
  <2>1. CASE handler[c] = "handshake"
    <3>1. /\ handler' = [handler EXCEPT ![c] = "joining"] /\ UNCHANGED down
          /\ client' = [client EXCEPT ![c].recv = 1]
      BY <1>6, <2>1 DEF Authenticate
    <3>2. client'[c] = [client[c] EXCEPT !.recv = 1] /\ handler'[c] = "joining"
      BY <1>0, <3>1
    <3>3. /\ client'[c].frames = client[c].frames /\ client'[c].closed = client[c].closed
          /\ client'[c].send = client[c].send /\ client'[c].given = client[c].given
          /\ client'[c].viewer = client[c].viewer
      BY <1>0, <3>2 DEF ClientState
    <3>4. client[c].viewer = "none"
      BY <2>1 DEF StageInv, Staged, Greeting
    <3>5. Tuned(c)
      BY <1>1, <2>1, <3>1, <3>2, <3>3, <3>4 DEF Tuned, Proceeds, Greeting, Watching
    <3> QED BY <3>5 DEF Touched
  <2>2. CASE handler[c] = "stranger"
    <3>1. Leave(c, 1008)
      BY <1>6, <2>2 DEF Authenticate, PolicyCode
    <3> QED BY <1>3, <2>2, <3>1 DEF Codes, StageInv, Staged
  <2> QED BY <1>6, <2>1, <2>2 DEF Authenticate
<1>7. CASE Join(c)
  <2>1. CASE Leave(c, 1013) \/ (Leave(c, 1008) /\ ~current)
    BY <1>3, <2>1 DEF Codes
  <2>2. CASE handler' = [handler EXCEPT ![c] = "opening"] /\ UNCHANGED <<wireVars, client>>
    <3>1. handler'[c] = "opening" /\ client'[c] = client[c] /\ down'[c] = down[c]
          /\ handler[c] = "joining"
      BY <1>0, <1>7, <2>2 DEF Join, wireVars
    <3>2. client[c].viewer = "none"
      BY <3>1 DEF StageInv, Staged, Greeting
    <3>3. Tuned(c)
      BY <1>1, <3>1, <3>2 DEF Tuned, Proceeds, Greeting, Watching
    <3> QED BY <3>3 DEF Touched
  <2> QED BY <1>7, <2>1, <2>2 DEF Join, BusyCode, PolicyCode
<1>8. CASE Write(c)
  <2>1. handler' = handler /\ handler[c] # "gone" /\ client[c].frames # <<>>
    BY <1>2, <1>8 DEF Write
  <2>2. CASE CloseNow(c)
    BY <1>5, <2>1, <2>2
  <2>3. CASE client[c].send # LastCounter
    <3>1. /\ client' = [client EXCEPT ![c].frames = Tail(@), ![c].send = @ + 1]
          /\ down' = [down EXCEPT ![c] =
                        IF sock[c] = "open"
                        THEN Append(@, Frame(Head(client[c].frames), client[c].send))
                        ELSE @]
      BY <1>8, <2>3 DEF Write, Advanced
    <3>2. client'[c] = [client[c] EXCEPT !.frames = Tail(@), !.send = @ + 1]
      BY <1>0, <3>1
    <3>3. /\ client'[c].frames = Tail(client[c].frames)
          /\ client'[c].closed = client[c].closed
          /\ client'[c].send = client[c].send + 1 /\ client'[c].given = client[c].given
          /\ client'[c].viewer = client[c].viewer
      BY <1>0, <3>2 DEF ClientState
    <3>4. Proceeds(c)
      BY <1>1, <2>1, <3>3 DEF Proceeds, StageInv, Staged, Watching
    <3>5. Written(c)
      BY <1>0, <2>1, <2>3, <3>1, <3>3, <3>4 DEF Written
    <3> QED BY <3>5 DEF Touched
  <2> QED BY <1>8, <2>2, <2>3 DEF Write
<1>9. CASE FinishClose(c)
  BY <1>2, <1>5, <1>9 DEF FinishClose
<1>10. CASE SendReady(c)
  <2>1. handler[c] = "opening" /\ ~client[c].closed /\ handler'[c] = "starting"
    BY <1>0, <1>10 DEF SendReady
  <2>2. PICK tag \in {"ready"} :
             /\ client'[c] = [Pushed(client[c], tag) EXCEPT !.viewer = "opening"]
             /\ down'[c] = Closed(c, Pushed(client[c], tag))[c]
    BY <1>0, <1>10 DEF SendReady, Push
  <2>3. tag \in Tags /\ "opening" \in Viewers
    BY DEF Tags, Viewers
  <2>4. handler'[c] \notin Greeting /\ "gone" \notin {handler[c], handler'[c]}
    BY <2>1 DEF Greeting
  <2>5. tag = "ready" /\ tag \notin {"output", "close", "shutdown", "error_stop"}
    OBVIOUS
  <2>6. \E v \in Viewers : client'[c] = [Pushed(client[c], tag) EXCEPT !.viewer = v]
    BY <2>2, <2>3
  <2>7. /\ Watching(c)' => Watching(c) \/ (tag = "ready" /\ ~client[c].closed)
        /\ Watching(c)' => handler'[c] \in {"starting", "serving"}
        /\ tag = "ready" => handler[c] = "opening"
        /\ tag = "output" => Watching(c) /\ outs' = outs + 1
        /\ tag \notin {"ready", "output"} => ~Watching(c)'
        /\ tag = "close" => up[c] # <<>> /\ Head(up[c]).tag = "close"
        /\ tag = "shutdown" => ~live'
        /\ tag = "error_stop" => ~live' \/ "unavailable" \in causes' \/ client[c].closed
    BY <2>1, <2>5
  <2>8. client[c] \in ClientState /\ down'[c] = Closed(c, Pushed(client[c], tag))[c]
    BY <1>0, <2>2
  <2> QED BY <1>1, <2>3, <2>4, <2>6, <2>7, <2>8, QueueTouches
<1>11. CASE StartViewer(c) \/ ViewerEnds(c) \/ (Input(c) /\ client[c].viewer # "detached")
  <2>1. /\ down'[c] = down[c] /\ handler'[c] \in {"serving", handler[c]}
        /\ handler[c] \in {"starting", "serving"}
        /\ \/ /\ handler[c] = "starting" /\ client[c].viewer = "opening"
              /\ client' = [client EXCEPT ![c].viewer = "open"]
           \/ client' = [client EXCEPT ![c].viewer = "ended"]
           \/ client' = [client EXCEPT ![c].recv = @ + 1]
    BY <1>0, <1>11 DEF StartViewer, ViewerEnds, Input, Serving, wireVars
  <2>2. /\ client'[c].frames = client[c].frames /\ client'[c].closed = client[c].closed
        /\ client'[c].send = client[c].send /\ client'[c].given = client[c].given
        /\ (client'[c].viewer \in {"open", "opening"} => client[c].viewer \in {"open", "opening"})
    BY <1>0, <2>1 DEF ClientState
  <2>3. Tuned(c)
    BY <1>1, <2>1, <2>2 DEF Tuned, Proceeds, Greeting, Watching
  <2> QED BY <2>3 DEF Touched
<1>12. CASE TellEnded(c) \/ OpenFails(c)
  <2>1. PICK tag \in {"error_retry", "error_stop"} :
             /\ client'[c] = [Pushed(client[c], tag) EXCEPT !.viewer = "none"]
             /\ down'[c] = Closed(c, Pushed(client[c], tag))[c]
             /\ tag = "error_stop" =>
                  ~live' \/ "unavailable" \in causes' \/ client[c].closed
    <3>1. CASE TellEnded(c)
      BY <1>0, <3>1 DEF TellEnded, Push
    <3>2. CASE OpenFails(c)
      <4>1. live \in BOOLEAN /\ client[c].closed \in BOOLEAN
        BY <1>0 DEF TypeInv, PageType, ClientState
      <4>2. ~live' \/ "unavailable" \in causes' \/ client[c].closed
        BY <3>2, <4>1 DEF OpenFails, Noted
      <4> QED BY <1>0, <3>2, <4>2 DEF OpenFails, Push
    <3> QED BY <1>12, <3>1, <3>2
  <2>2. handler'[c] \notin Greeting /\ handler[c] # "gone"
    BY <1>0, <1>2, <1>12 DEF TellEnded, OpenFails, StageInv, Staged, Greeting
  <2>3. tag \in Tags /\ "none" \in Viewers
    BY DEF Tags, FinalTags, Viewers
  <2>4. ~Watching(c)'
    BY <1>0, <2>1, <2>3, QueueTypes DEF Watching, ClientState
  <2>5. "gone" \notin {handler[c], handler'[c]}
    BY <2>2 DEF Greeting
  <2>6. tag \notin {"ready", "output", "close", "shutdown"}
    OBVIOUS
  <2>7. \E v \in Viewers : client'[c] = [Pushed(client[c], tag) EXCEPT !.viewer = v]
    BY <2>1, <2>3
  <2> QED BY <1>0, <1>1, <2>1, <2>2, <2>3, <2>4, <2>5, <2>6, <2>7, QueueTouches
<1>13. CASE Output(c)
  <2>1. /\ client[c].viewer = "open" /\ outs' = outs + 1 /\ handler' = handler
        /\ client'[c] = [Pushed(client[c], "output") EXCEPT !.viewer = "open"]
        /\ down'[c] = Closed(c, Pushed(client[c], "output"))[c]
    BY <1>0, <1>13 DEF Output, Push
  <2>2. Watching(c) /\ handler[c] \in {"starting", "serving"}
    BY <2>1 DEF Watching, StageInv, Staged
  <2>3. "output" \in Tags /\ "open" \in Viewers
    BY DEF Tags, Viewers
  <2> QED BY <1>0, <1>1, <2>1, <2>2, <2>3, QueueTouches DEF Greeting
<1>14. CASE Input(c) /\ client[c].viewer = "detached"
  BY <1>4, <1>14 DEF Input
<1>15. CASE Close(c)
  <2> DEFINE q == [client[c] EXCEPT !.recv = @ + 1,
                                    !.viewer = IF @ = "ended" THEN @ ELSE "none"]
  <2>1. /\ client'[c] = Pushed(q, "close") /\ down'[c] = Closed(c, Pushed(q, "close"))[c]
        /\ handler[c] = "serving" /\ handler'[c] = "closing"
        /\ up[c] # <<>> /\ Head(up[c]).tag = "close" /\ client[c].recv # LastCounter
    BY <1>0, <1>15 DEF Close, Serving, Reads, Opens
  <2>2. q \in ClientState
    <3>1. client[c].recv + 1 \in 0..LastCounter
      BY <1>0, <2>1, Constants DEF ClientState
    <3> QED BY <1>0, <3>1 DEF ClientState, Viewers
  <2>3. /\ q.frames = client[c].frames /\ q.closed = client[c].closed
        /\ q.send = client[c].send /\ q.given = client[c].given
        /\ q.viewer \in {"none", "ended"}
    BY <1>0 DEF ClientState, Viewers
  <2> HIDE DEF q
  <2>4. "close" \in Tags /\ Pushed(q, "close") \in ClientState
    BY <2>2, QueueTypes DEF Tags, FinalTags
  <2>5. Pushed(q, "close").viewer = q.viewer
    BY <2>2, <2>4, PushCases
  <2>6. client'[c] = [Pushed(q, "close") EXCEPT !.viewer = q.viewer] /\ q.viewer \in Viewers
    BY <2>1, <2>3, <2>4, <2>5 DEF ClientState, Viewers
  <2>7. ~Watching(c)'
    BY <2>1, <2>3, <2>5 DEF Watching
  <2> QED BY <1>1, <2>1, <2>2, <2>3, <2>4, <2>6, <2>7, QueueTouches DEF Greeting
<1>16. CASE RunEnds(c) \/ ViewerFails(c)
  BY <1>4, <1>16 DEF RunEnds, ViewerFails
<1>17. CASE HandshakeEnds(c)
  BY <1>3, <1>17 DEF HandshakeEnds, LostCode, Codes
<1> QED BY <1>6, <1>7, <1>8, <1>9, <1>10, <1>11, <1>12, <1>13, <1>14, <1>15, <1>16,
     <1>17

\* They touch no other connection.
LEMMA WorkerTouchesOne ==
  ASSUME TypeInv, NEW c \in Conns, NEW d \in Conns, d # c,
         \/ Authenticate(c) \/ Join(c) \/ Write(c) \/ FinishClose(c) \/ SendReady(c)
         \/ StartViewer(c) \/ TellEnded(c) \/ Input(c) \/ Close(c) \/ RunEnds(c)
         \/ HandshakeEnds(c) \/ OpenFails(c) \/ Output(c) \/ ViewerEnds(c)
         \/ ViewerFails(c)
  PROVE  Touched(d)
<1>0. /\ client \in [Conns -> ClientState] /\ handler \in [Conns -> Handlers]
      /\ down \in [Conns -> Seq(DownFrames)]
  BY DEF TypeInv, WorkerType, WireType
<1>1. UNCHANGED <<page, sock, peer, inbox, outbox>>
  BY WorkerAside DEF Aside
<1>2. \A q : Closed(c, q)[d] = down[d]
  BY ClosedWire
<1>3. \A code : Hung(c, code)[d] = down[d]
  BY <1>0 DEF Hung
<1>4. ASSUME Ends(c) \/ \E code : Leave(c, code)
      PROVE  handler'[d] = handler[d] /\ client'[d] = client[d] /\ down'[d] = down[d]
  BY <1>0, <1>2, <1>3, <1>4 DEF Ends, Leave, Return
<1>5. ASSUME CloseNow(c) \/ \E tag, v : Push(c, tag, v)
      PROVE  client'[d] = client[d] /\ down'[d] = down[d]
  BY <1>0, <1>2, <1>5 DEF CloseNow, Push
<1>6. handler'[d] = handler[d] /\ client'[d] = client[d] /\ down'[d] = down[d]
  <2>1. CASE Authenticate(c) \/ Join(c) \/ HandshakeEnds(c)
    BY <1>0, <1>4, <2>1 DEF Authenticate, Join, HandshakeEnds, wireVars
  <2>2. CASE Write(c) \/ FinishClose(c)
    BY <1>0, <1>5, <2>2 DEF Write, FinishClose
  <2>3. CASE SendReady(c) \/ TellEnded(c) \/ OpenFails(c) \/ Output(c)
    BY <1>0, <1>5, <2>3 DEF SendReady, TellEnded, OpenFails, Output
  <2>4. CASE StartViewer(c) \/ ViewerEnds(c)
    BY <1>0, <2>4 DEF StartViewer, ViewerEnds, wireVars
  <2>5. CASE Input(c) \/ RunEnds(c) \/ ViewerFails(c)
    BY <1>0, <1>4, <2>5 DEF Input, RunEnds, ViewerFails
  <2>6. CASE Close(c)
    BY <1>0, <1>2, <2>6 DEF Close
  <2> QED BY <2>1, <2>2, <2>3, <2>4, <2>5, <2>6
<1>7. PageSame
  BY <1>1 DEF PageSame
<1> QED BY <1>1, <1>6, <1>7, StillTouched

\* A rotation closes the queues of those it cuts off.
LEMMA RotateTouches ==
  ASSUME TypeInv, StageInv, NEW d \in Conns, Rotate
  PROVE  Touched(d)
<1>0. client[d] \in ClientState /\ Shut(client[d]) \in ClientState /\ PageSame
  BY QueueTypes DEF TypeInv, WorkerType, Rotate, pageVars, PageSame, Tags
<1>1. /\ UNCHANGED <<page, sock, peer, inbox, outbox, handler>>
      /\ client'[d] = IF d \in Registered THEN Detached(Shut(client[d])) ELSE client[d]
      /\ down'[d] = Closed(d, client'[d])[d]
  BY DEF Rotate, pageVars, sockVars
<1>2. CASE d \notin Registered
  <2>1. down'[d] = down[d]
    BY <1>1, <1>2, ClosedWire
  <2> QED BY <1>0, <1>1, <1>2, <2>1, StillTouched
<1>3. CASE d \in Registered
  <2>1. /\ client'[d].frames = <<>> /\ client'[d].closed
        /\ client'[d].send = client[d].send /\ client'[d].given = client[d].given
        /\ client[d].viewer = "none" => client'[d].viewer = "none"
        /\ client'[d].viewer \notin {"opening", "open"}
    BY <1>0, <1>1, <1>3 DEF Detached, Shut, ClientState
  <2>2. handler[d] # "gone"
    BY <1>3 DEF Registered
  <2>3. HangsUp(d, 1006)
    BY <1>1, ClosedWire DEF HangsUp
  <2>4. Proceeds(d)
    BY <1>0, <1>1, <2>1, <2>2 DEF Proceeds, Quiet, Watching, StageInv, Staged
  <2>5. Emptied(d)
    BY <2>1, <2>3, <2>4 DEF Emptied, Watching
  <2> QED BY <2>5 DEF Touched
<1> QED BY <1>2, <1>3

\* The shutdown queues a frame for every client.
LEMMA ShutdownTouches ==
  ASSUME TypeInv, StageInv, NEW d \in Conns, Shutdown
  PROVE  Touched(d)
<1> DEFINE q == Detached(client[d])
<1>0. /\ client[d] \in ClientState /\ q \in ClientState /\ "shutdown" \in Tags
      /\ Pushed(q, "shutdown") \in ClientState
  BY QueueTypes DEF TypeInv, WorkerType, Tags, FinalTags
<1>1. /\ UNCHANGED <<page, sock, peer, inbox, outbox, handler>> /\ ~live'
      /\ client'[d] = IF d \in Clients THEN Pushed(q, "shutdown") ELSE client[d]
      /\ down'[d] = Closed(d, client'[d])[d]
  BY DEF Shutdown, pageVars, sockVars
<1>2. PageSame
  BY <1>1 DEF PageSame
<1>3. CASE d \notin Clients
  <2>1. down'[d] = down[d]
    BY <1>1, <1>3, ClosedWire
  <2> QED BY <1>1, <1>2, <1>3, <2>1, StillTouched
<1>4. CASE d \in Clients
  <2>1. /\ q.frames = client[d].frames /\ q.closed = client[d].closed
        /\ q.send = client[d].send /\ q.given = client[d].given
        /\ q.viewer \notin {"opening", "open"} /\ q.viewer \in Viewers
    BY <1>0 DEF Detached, ClientState, Viewers
  <2>2. handler'[d] = handler[d] /\ handler[d] \notin Greeting /\ handler[d] # "gone"
    BY <1>1, <1>4 DEF Clients, Greeting
  <2> HIDE DEF q
  <2>3. client'[d] = Pushed(q, "shutdown") /\ Pushed(q, "shutdown").viewer = q.viewer
    BY <1>0, <1>1, <1>4, PushCases
  <2>4. client'[d] = [Pushed(q, "shutdown") EXCEPT !.viewer = q.viewer]
    BY <1>0, <2>3 DEF ClientState
  <2>5. \E v \in Viewers : client'[d] = [Pushed(q, "shutdown") EXCEPT !.viewer = v]
    BY <2>1, <2>4
  <2>6. ~Watching(d)'
    BY <2>1, <2>3 DEF Watching
  <2>7. Quiet(d) /\ "gone" \notin {handler[d], handler'[d]}
    BY <1>1, <1>2, <2>2 DEF Quiet
  <2>8. down'[d] = Closed(d, Pushed(q, "shutdown"))[d]
    BY <1>1, <2>3
  <2> QED BY <1>0, <1>1, <2>1, <2>2, <2>5, <2>6, <2>7, <2>8, QueueTouches
<1> QED BY <1>3, <1>4

\* Every step, for every connection.
LEMMA StepTouches ==
  ASSUME TypeInv, StageInv, PageInv, [Next]_vars
  PROVE  Monotone /\ \A d \in Conns : Touched(d)
<1>1. ASSUME NEW c \in Conns, Accept(c), NEW d \in Conns PROVE Touched(d)
  <2>1. /\ sock[c] = "connecting" /\ sock' = [sock EXCEPT ![c] = "open"]
        /\ UNCHANGED <<page, peer, inbox, outbox, client>>
        /\ handler' = [handler EXCEPT ![c] = IF current THEN "handshake" ELSE "stranger"]
        /\ down' = [down EXCEPT ![c] = <<Frame("nonce", 0)>>]
    BY <1>1 DEF Accept, pageVars
  <2>2. PageSame
    BY <2>1 DEF PageSame
  <2>3. CASE d = c
    BY <2>1, <2>2, <2>3
       DEF Touched, Accepted, TypeInv, SockType, WireType, WorkerType
  <2>4. CASE d # c
    BY <2>1, <2>2, <2>4, StillTouched DEF TypeInv, SockType, WireType, WorkerType
  <2> QED BY <2>3, <2>4
<1>2. ASSUME NEW c \in Conns, Cut(c), NEW d \in Conns PROVE Touched(d)
  <2>1. /\ sock[c] = "open" /\ UNCHANGED <<page, sock, peer, inbox, outbox, handler, client>>
        /\ down' = [down EXCEPT ![c] = <<Fin(1006)>>]
    BY <1>2 DEF Cut, pageVars, sockVars
  <2>2. PageSame
    BY <2>1 DEF PageSame
  <2>3. CASE d = c
    BY <2>1, <2>2, <2>3 DEF Touched, Severed, Quiet, WorkerSame, TypeInv, WireType
  <2>4. CASE d # c
    BY <2>1, <2>2, <2>4, StillTouched DEF TypeInv, WireType
  <2> QED BY <2>3, <2>4
<1>3. ASSUME Hide \/ UNCHANGED vars, NEW d \in Conns PROVE Touched(d)
  <2>1. UNCHANGED <<page, sock, peer, inbox, outbox, down, handler, client>>
    BY <1>3 DEF Hide, vars, pageVars, sockVars, wireVars, workerVars
  <2> QED BY <2>1, StillTouched DEF PageSame
<1>4. ASSUME NEW d \in Conns PROVE Touched(d)
  BY <1>1, <1>2, <1>3, RotateTouches, ShutdownTouches, PageTouches, ReceiveTouches,
     WorkerTouches, WorkerTouchesOne
     DEF Next, Runs, Failure, Done
<1> DEFINE Works(c) == \/ Authenticate(c) \/ Join(c) \/ Write(c) \/ FinishClose(c)
                       \/ SendReady(c) \/ StartViewer(c) \/ TellEnded(c) \/ Input(c)
                       \/ Close(c) \/ RunEnds(c) \/ HandshakeEnds(c) \/ OpenFails(c)
                       \/ Output(c) \/ ViewerEnds(c) \/ ViewerFails(c)
           Browses(c) == \/ Connect(c) \/ ReconnectNow(c) \/ Show(c) \/ Refused(c)
                         \/ Deliver(c) \/ Send(c) \/ Type(c) \/ CloseSession(c)
                         \/ \E code \in Codes : CloseEvent(c, code)
<1>5. ASSUME NEW c \in Conns, Works(c) PROVE Monotone
  <2>1. Aside
    BY <1>5, WorkerAside
  <2>2. outs' \in {outs, outs + 1}
    BY <1>5
        DEF Authenticate, Join, Write, FinishClose, SendReady, StartViewer, TellEnded,
            Input, Close, RunEnds, HandshakeEnds, OpenFails, Output, ViewerEnds,
            ViewerFails, bounds
  <2> QED BY <2>1, <2>2 DEF Aside, Monotone
<1>6. ASSUME NEW c \in Conns, Browses(c) \/ Receive(c) PROVE Monotone
  <2>1. UNCHANGED <<live, current, outs>>
    BY <1>6
        DEF Connect, ReconnectNow, Show, Refused, Deliver, Send, Receive, Type,
            CloseSession, CloseEvent, bounds
  <2>2. causes \subseteq causes'
    BY <1>6, PageTouches, ReceiveTouches
  <2> QED BY <2>1, <2>2 DEF Monotone
<1>7. ASSUME \/ \E c \in Conns : Accept(c) \/ Cut(c)
             \/ Hide \/ Rotate \/ Shutdown \/ UNCHANGED vars
      PROVE  Monotone
  <2>1. UNCHANGED <<causes, outs>> /\ (live' => live) /\ (current' => current)
    BY <1>7 DEF Accept, Cut, Hide, Rotate, Shutdown, vars, bounds, hist
  <2> QED BY <2>1 DEF Monotone
<1>8. Monotone
  BY <1>5, <1>6, <1>7 DEF Next, Runs, Failure, Done
<1> QED BY <1>4, <1>8

\* A connection keeps to its stage.
LEMMA StageNext ==
  ASSUME TypeInv, TypeInv', StageInv, Monotone, \A d \in Conns : Touched(d)
  PROVE  StageInv'
<1> SUFFICES ASSUME NEW c \in Conns PROVE Staged(c)'
  BY DEF StageInv
<1>0. Staged(c) /\ Touched(c) /\ client[c] \in ClientState /\ client'[c] \in ClientState
  BY DEF StageInv, TypeInv, WorkerType
<1>1. CASE Bystander(c)
  BY <1>0, <1>1 DEF Bystander, PeerSame, WorkerSame, Staged, Monotone
<1>2. CASE Parted(c)
  BY <1>0, <1>2 DEF Parted, WorkerSame, Staged, Monotone
<1>3. CASE Opened(c)
  BY <1>0, <1>3 DEF Opened, Unused, WorkerSame, Staged, Monotone
<1>4. CASE Delivered(c) \/ Dropped(c) \/ Handled(c)
  BY <1>0, <1>4 DEF Delivered, Dropped, Handled, PeerSame, WorkerSame, Staged, Monotone
<1>5. CASE CloseAsked(c)
  BY <1>0, <1>5 DEF CloseAsked, WorkerSame, Staged, Monotone, NoPeer
<1>6. CASE Accepted(c)
  <2>1. client'[c] = NoClient
    BY <1>0, <1>6 DEF Accepted, Staged
  <2> QED BY <1>6, <2>1, Constants DEF Accepted, Staged, NoClient, Monotone
<1>7. CASE Freed(c)
  BY <1>0, <1>7, Constants DEF Freed, Quiet, Staged, NoClient
<1>8. ASSUME NEW tag \in Tags, Added(c, tag) PROVE Staged(c)'
  <2>1. Len(client'[c].frames) <= QueueLimit
    <3>1. Len(Append(client[c].frames, tag)) = Len(client[c].frames) + 1
      BY <1>0 DEF ClientState
    <3>2. Len(client[c].frames) \in Nat
      BY <1>0 DEF ClientState
    <3> QED BY <1>8, <3>1, <3>2, Constants DEF Added
  <2> QED BY <1>0, <1>8, <2>1
      DEF Added, Proceeds, Quiet, Staged, Watching, Greeting, Monotone
<1>9. CASE Emptied(c)
  BY <1>0, <1>9, Constants DEF Emptied, Proceeds, Quiet, Staged, Watching, Monotone
<1>10. CASE Written(c)
  <2>1. Len(client'[c].frames) <= QueueLimit
    BY <1>0, <1>10, Constants DEF Written, Staged, ClientState
  <2> QED BY <1>0, <1>10, <2>1
      DEF Written, Proceeds, Quiet, Staged, Watching, Monotone
<1>11. CASE Tuned(c)
  BY <1>0, <1>11 DEF Tuned, Proceeds, Quiet, Staged, Watching, Monotone
<1>12. CASE Severed(c)
  BY <1>0, <1>12 DEF Severed, Quiet, WorkerSame, Staged, Monotone
<1> QED BY <1>0, <1>1, <1>2, <1>3, <1>4, <1>5, <1>6, <1>7, <1>8, <1>9, <1>10, <1>11,
     <1>12
    DEF Touched

\* The page's connection exists, and its terminal belongs to it, after every step.
LEMMA PageInvNext ==
  ASSUME TypeInv, StageInv, PageInv, [Next]_vars
  PROVE  PageInv'
<1> USE Constants
<1>0. /\ sock \in [Conns -> {"closed", "connecting", "open", "closing"}]
      /\ peer \in [Conns -> PeerState] /\ page \in PageState
  BY DEF TypeInv, PageType, SockType
<1>1. CASE /\ UNCHANGED <<page, peer>>
           /\ \A d \in Conns : sock[d] # "closed" => sock'[d] # "closed"
  BY <1>0, <1>1 DEF PageInv, TerminalOfConnection, PageState
<1>2. ASSUME NEW c \in Conns, NEW s, Open(c, s), page'.conn = c, page'.shown = None,
             ~page'.timer,
             \A d \in Conns : peer'[d].auth => peer[d].auth /\ peer'[d].recv = peer[d].recv,
             s \in [Conns -> {"closed", "connecting", "open", "closing"}]
      PROVE  PageInv'
  <2>1. sock'[c] = "connecting"
    BY <1>2 DEF Open
  <2> QED BY <1>2, <2>1 DEF PageInv, TerminalOfConnection
<1>3. ASSUME NEW c \in Conns, Replace(c) PROVE PageInv'
  <2>1. page'.conn = c /\ page'.shown = None /\ ~page'.timer
    BY <1>0, <1>3 DEF Replace, PageState
  <2>2. \A d \in Conns : peer'[d].auth => peer[d].auth /\ peer'[d].recv = peer[d].recv
    BY <1>0, <1>3 DEF Replace, NoPeer, PeerState
  <2>3. Open(c, Closing(page.conn))
    BY <1>3 DEF Replace
  <2> QED BY <1>2, <2>1, <2>2, <2>3, ClosingTypes
<1>4. ASSUME NEW c \in Conns, Connect(c) PROVE PageInv'
  <2>1. page.conn = None /\ page.shown = None
    BY <1>4 DEF Connect, PageInv, TerminalOfConnection
  <2>2. CASE page.stopped
    <3>1. page' = [page EXCEPT !.timer = FALSE] /\ UNCHANGED <<peer, sock>>
      BY <1>4, <2>2 DEF Connect, sockVars
    <3> QED BY <1>0, <2>1, <3>1 DEF PageInv, TerminalOfConnection, PageState
  <2>3. CASE ~page.stopped
    <3>1. /\ page' = [page EXCEPT !.timer = FALSE, !.conn = c] /\ Open(c, sock)
          /\ peer' = [peer EXCEPT ![c] = NoPeer]
      BY <1>4, <2>3 DEF Connect
    <3>2. page'.conn = c /\ page'.shown = None /\ ~page'.timer
      BY <1>0, <2>1, <3>1 DEF PageState
    <3>3. \A d \in Conns : peer'[d].auth => peer[d].auth /\ peer'[d].recv = peer[d].recv
      BY <1>0, <3>1 DEF NoPeer, PeerState
    <3> QED BY <1>0, <1>2, <3>1, <3>2, <3>3
  <2> QED BY <2>2, <2>3
<1>5. ASSUME NEW c \in Conns, NEW code \in Codes, CloseEvent(c, code) PROVE PageInv'
  <2>1. /\ sock' = [sock EXCEPT ![c] = "closed"]
        /\ peer' = [peer EXCEPT ![c] = IF inbox[c] = <<>> THEN NoPeer ELSE @]
    BY <1>5 DEF CloseEvent
  <2>2. /\ \A d \in Conns : peer'[d].auth => peer[d].auth /\ peer'[d].recv = peer[d].recv
        /\ \A d \in Conns : d # c => peer'[d] = peer[d] /\ sock'[d] = sock[d]
    BY <1>0, <2>1 DEF NoPeer
  <2>3. CASE page.conn # c
    <3>1. UNCHANGED page
      BY <1>5, <2>3 DEF CloseEvent
    <3> QED BY <1>0, <2>2, <2>3, <3>1 DEF PageInv, TerminalOfConnection, PageState
  <2>4. CASE page.conn = c
    <3>1. page' = [page EXCEPT !.conn = None, !.shown = None, !.closing = FALSE,
                               !.stopped = @ \/ code = 1008, !.timer = Reconnects(code)]
      BY <1>5, <2>4, Zenon DEF CloseEvent
    <3>2. page'.conn = None /\ page'.shown = None
      BY <1>0, <3>1 DEF PageState
    <3> QED BY <2>2, <3>2 DEF PageInv, TerminalOfConnection
  <2> QED BY <2>3, <2>4
<1>6. ASSUME NEW c \in Conns, Refused(c) PROVE PageInv'
  <2>1. sock[c] = "connecting" /\ sock' = [sock EXCEPT ![c] = "closed"] /\ UNCHANGED peer
    BY <1>6 DEF Refused
  <2>2. ~peer[c].auth
    BY <2>1 DEF StageInv, Staged, NoPeer
  <2>3. CASE page.conn # c
    <3>1. UNCHANGED page
      BY <1>6, <2>3 DEF Refused
    <3> QED BY <1>0, <2>1, <2>3, <3>1 DEF PageInv, TerminalOfConnection, PageState
  <2>4. CASE page.conn = c
    <3>1. page' = [page EXCEPT !.conn = None, !.timer = ~page.stopped]
      BY <1>6, <2>4 DEF Refused
    <3>2. page'.conn = None /\ page'.shown = None
      BY <1>0, <2>2, <2>4, <3>1 DEF PageState, PageInv, TerminalOfConnection
    <3> QED BY <2>1, <3>2 DEF PageInv, TerminalOfConnection
  <2> QED BY <2>3, <2>4
<1>7. ASSUME NEW c \in Conns, Poison(c) PROVE PageInv'
  <2>1. PageSame /\ page'.timer = page.timer
    BY <1>0, <1>7, PoisonKeeps DEF Poison, PageState
  <2>2. \A d \in Conns : PeerSame(d)
    BY <1>7, PoisonKeeps
  <2> QED BY <1>0, <2>1, <2>2
      DEF PageInv, TerminalOfConnection, PageSame, PeerSame, PageState
<1>8. ASSUME NEW c \in Conns, Receive(c) PROVE PageInv'
  <2> DEFINE f == Head(inbox[c])
  <2>1. CASE UNCHANGED <<page, sock, peer>>
    BY <1>1, <2>1
  <2>2. CASE page.conn = c /\ Handle(c, f.tag) /\ f.tag # "nonce"
    <3>1. f.tag \in Tags
      BY <1>8, <2>2, FrameTypes DEF Receive, TypeInv, SockType
    <3>2. /\ page'.conn = c /\ page'.timer = page.timer
          /\ page'.shown \in {None, page.shown} \/ (f.tag = "ready" /\ page'.shown = c)
      BY <1>0, <2>2, <3>1 DEF Handle, Tags, FinalTags, PageState
    <3>3. /\ peer'[c].recv = peer[c].recv + 1
          /\ peer[c].auth \/ f.tag = "ready" => peer'[c].auth
          /\ \A d \in Conns : d # c => peer'[d] = peer[d]
      BY <1>0, <2>2 DEF Handle, PeerState
    <3>4. sock'[c] \in {sock[c], "closing"}
      <4>1. sock' = sock \/ sock' = Closing(c)
        BY <2>2, <3>1 DEF Handle, Tags, FinalTags
      <4> QED BY <4>1, ClosingSocket
    <3>5. peer'[c].recv > 0
      BY <1>0, <3>3 DEF PeerState
    <3> QED BY <2>2, <3>2, <3>3, <3>4, <3>5 DEF PageInv, TerminalOfConnection
  <2> QED BY <1>7, <1>8, <2>1, <2>2 DEF Receive, Greet, IsCurrent
<1>9. ASSUME NEW c \in Conns, Send(c) PROVE PageInv'
  <2>1. CASE Poison(c)
    BY <1>7, <2>1
  <2>2. CASE UNCHANGED <<page, sock>> /\ peer' \in {peer, [peer EXCEPT ![c].send = @ + 1]}
    <3>1. \A d \in Conns : peer'[d].auth = peer[d].auth /\ peer'[d].recv = peer[d].recv
      BY <1>0, <2>2 DEF PeerState
    <3> QED BY <1>0, <2>2, <3>1 DEF PageInv, TerminalOfConnection, PageState
  <2>3. peer[c].poisoned \in BOOLEAN
    BY <1>0 DEF PeerState
  <2> QED BY <1>9, <2>1, <2>2, <2>3 DEF Send
<1>10. ASSUME NEW c \in Conns, CloseSession(c) PROVE PageInv'
  <2>1. page' = [page EXCEPT !.shown = None, !.closing = TRUE] /\ UNCHANGED <<sock, peer>>
    BY <1>10 DEF CloseSession
  <2> QED BY <1>0, <2>1 DEF PageInv, TerminalOfConnection, PageState
<1>11. ASSUME NEW c \in Conns, Accept(c) PROVE PageInv'
  BY <1>0, <1>1, <1>11 DEF Accept, pageVars
<1>12. CASE UNCHANGED <<page, sock, peer>>
  BY <1>1, <1>12
<1>13. ASSUME NEW c \in Conns,
              \/ Authenticate(c) \/ Join(c) \/ Write(c) \/ FinishClose(c) \/ SendReady(c)
              \/ StartViewer(c) \/ TellEnded(c) \/ Input(c) \/ Close(c) \/ RunEnds(c)
              \/ HandshakeEnds(c) \/ OpenFails(c) \/ Output(c) \/ ViewerEnds(c)
              \/ ViewerFails(c) \/ Cut(c) \/ Deliver(c) \/ Type(c)
       PROVE  PageInv'
  <2>1. CASE Cut(c) \/ Deliver(c) \/ Type(c)
    BY <1>12, <2>1 DEF Cut, Deliver, Type, pageVars, sockVars
  <2>2. CASE ~(Cut(c) \/ Deliver(c) \/ Type(c))
    BY <1>12, <1>13, <2>2, WorkerAside DEF Aside
  <2> QED BY <2>1, <2>2
<1>14. ASSUME NEW c \in Conns, ReconnectNow(c) \/ Show(c) PROVE PageInv'
  BY <1>3, <1>12, <1>14 DEF ReconnectNow, Show, sockVars
<1>15. CASE Hide \/ Rotate \/ Shutdown \/ UNCHANGED vars
  BY <1>12, <1>15 DEF Hide, Rotate, Shutdown, vars, pageVars, sockVars
<1> QED BY <1>4, <1>5, <1>6, <1>8, <1>9, <1>10, <1>11, <1>13, <1>14, <1>15
    DEF Next, Runs, Failure, Done

\* The part of the invariant the others rest on.
BaseInv == TypeInv /\ StageInv /\ PageInv

\* It is kept.
LEMMA BaseNext == BaseInv /\ [Next]_vars => BaseInv'
  BY TypeInvNext, PageInvNext, StepTouches, StageNext DEF BaseInv

\* What the page shows belongs to its current connection (receiveMessage, detachConnection,
\* the close listener): a frame whose decryption ends after the page has moved on does not
\* revive a terminal.
THEOREM TerminalAlwaysOfConnection == Spec => []TerminalOfConnection
<1>1. Init => BaseInv
  BY BaseInit DEF BaseInv
<1>2. BaseInv => TerminalOfConnection
  BY DEF BaseInv, PageInv
<1> QED BY <1>1, <1>2, BaseNext, PTL DEF Spec

-----------------------------------------------------------------------------
\* The counters stay in step

\* The server's nonce comes first and is not counted.
Nonces(c) ==
    IF \/ inbox[c] # <<>> /\ inbox[c][1].tag = "nonce"
       \/ inbox[c] = <<>> /\ down[c] # <<>> /\ down[c][1].tag = "nonce"
    THEN 1 ELSE 0

\* The frame f at place i is sealed with the counter the page will try when it is there.
InStep(c, f, i) == f.tag \in Tags /\ f.n + Nonces(c) + 1 = peer[c].recv + i

\* The connection whose frames the page opens.
Following(c) == page.conn = c /\ ~peer[c].poisoned

\* The network does not close the connection behind these frames.
NoFin(s) == \A i \in DOMAIN s : s[i].tag # "fin"

\* The worker still writes to it, and the network brings it.
Flowing(c) ==
    /\ Following(c) /\ sock[c] = "open" /\ NoFin(down[c])
    /\ handler[c] # "gone" /\ ~client[c].closed

\* What has arrived is in step; what will arrive before the connection is closed is; and
\* the worker's next counter follows.
Stepped(c) ==
    /\ Following(c) =>
         /\ \A i \in DOMAIN inbox[c] : i > Nonces(c) => InStep(c, inbox[c][i], i)
         /\ sock[c] = "open" => \A i \in DOMAIN down[c] :
              (\A j \in 1..i : down[c][j].tag # "fin") /\ i + Len(inbox[c]) > Nonces(c) =>
                  InStep(c, down[c][i], i + Len(inbox[c]))
    /\ Flowing(c) =>
         client[c].send + Nonces(c) = peer[c].recv + Len(inbox[c]) + Len(down[c])

\* ... for every connection.
StepInv == \A c \in Conns : Stepped(c)

\* One frame more at the end of a sequence.
LEMMA AppendFacts ==
  ASSUME NEW S, NEW s \in Seq(S), NEW e \in S
  PROVE  /\ Append(s, e) \in Seq(S) /\ Append(s, e) # <<>>
         /\ Len(Append(s, e)) = Len(s) + 1 /\ Len(s) \in Nat
         /\ DOMAIN s = 1..Len(s) /\ DOMAIN Append(s, e) = 1..(Len(s) + 1)
         /\ \A i \in 1..Len(s) : Append(s, e)[i] = s[i]
         /\ Append(s, e)[Len(s) + 1] = e
  OBVIOUS

\* One frame less at the beginning.
LEMMA TailFacts ==
  ASSUME NEW S, NEW s \in Seq(S), s # <<>>
  PROVE  /\ Tail(s) \in Seq(S) /\ Len(s) \in Nat /\ Len(s) >= 1
         /\ Len(Tail(s)) = Len(s) - 1
         /\ DOMAIN s = 1..Len(s) /\ DOMAIN Tail(s) = 1..(Len(s) - 1)
         /\ \A i \in 1..(Len(s) - 1) : Tail(s)[i] = s[i + 1]
         /\ Head(s) = s[1] /\ s[1] \in S
  OBVIOUS

\* A sequence by its length and its domain.
LEMMA SeqFacts ==
  ASSUME NEW S, NEW s \in Seq(S)
  PROVE  /\ Len(s) \in Nat /\ DOMAIN s = 1..Len(s) /\ (s = <<>> <=> Len(s) = 0)
         /\ \A i \in 1..Len(s) : s[i] \in S
  OBVIOUS

\* Frames that stay where they are stay in step.
LEMMA StillStepped ==
  ASSUME NEW c \in Conns, Stepped(c), inbox'[c] = inbox[c], down'[c] = down[c],
         peer'[c].recv = peer[c].recv, Following(c)' => Following(c),
         sock'[c] = "open" => sock[c] = "open",
         Flowing(c)' => Flowing(c) /\ client'[c].send = client[c].send
  PROVE  Stepped(c)'
<1>1. Nonces(c)' = Nonces(c)
  BY DEF Nonces
<1> QED BY <1>1 DEF Stepped, InStep

\* The counters stay in step.
LEMMA SteppedNext ==
  ASSUME TypeInv, TypeInv', StageInv, NEW c \in Conns, Touched(c), Stepped(c)
  PROVE  Stepped(c)'
<1>0. /\ inbox[c] \in Seq(PageFrames) /\ down[c] \in Seq(DownFrames)
      /\ inbox'[c] \in Seq(PageFrames) /\ down'[c] \in Seq(DownFrames)
      /\ peer[c] \in PeerState /\ peer'[c] \in PeerState /\ client[c] \in ClientState
  BY DEF TypeInv, SockType, WireType, WorkerType
<1>n. peer[c].recv \in Nat /\ peer'[c].recv \in Nat /\ client[c].send \in Nat
  <2>1. peer[c].recv \in 0..LastCounter /\ peer'[c].recv \in 0..LastCounter
    BY <1>0 DEF PeerState
  <2>2. client[c].send \in 0..LastCounter
    BY <1>0 DEF ClientState
  <2> QED BY <2>1, <2>2, Constants
<1>s. Staged(c)
  BY DEF StageInv
<1> DEFINE s  == client[c].send   r  == peer[c].recv   i0 == Len(inbox[c])
           s2 == client'[c].send  r2 == peer'[c].recv  i2 == Len(inbox'[c])
           d0 == Len(down[c])     n0 == Nonces(c)
           d2 == Len(down'[c])    n2 == Nonces(c)'
<1> HIDE DEF s, r, i0, s2, r2, i2, d0, n0, d2, n2
<1>1. CASE Bystander(c)
  <2>1. Following(c)' => Following(c)
    BY <1>1 DEF Bystander, Following, PeerSame, PageSame
  <2>2. Flowing(c)' => Flowing(c)
    BY <1>1, <2>1 DEF Bystander, Flowing, PeerSame, WorkerSame
  <2> QED BY <1>1, <2>1, <2>2, StillStepped DEF Bystander, PeerSame, WorkerSame
<1>2. CASE Parted(c)
  BY <1>2 DEF Parted, Stepped, Following, Flowing
<1>3. CASE Opened(c)
  BY <1>3 DEF Opened, Stepped, Following, Flowing, Nonces
<1>4. CASE Delivered(c)
  <2>1. /\ sock[c] = "open" /\ down[c] # <<>> /\ Head(down[c]).tag # "fin"
        /\ inbox'[c] = Append(inbox[c], Head(down[c])) /\ down'[c] = Tail(down[c])
        /\ sock'[c] = sock[c] /\ peer'[c] = peer[c] /\ handler'[c] = handler[c]
        /\ client'[c] = client[c] /\ page'.conn = page.conn
    BY <1>4 DEF Delivered, WorkerSame, PageSame
  <2>2. /\ Len(down[c]) \in Nat /\ Len(down[c]) >= 1 /\ Len(down'[c]) = Len(down[c]) - 1
        /\ DOMAIN down[c] = 1..Len(down[c]) /\ DOMAIN down'[c] = 1..(Len(down[c]) - 1)
        /\ \A i \in 1..(Len(down[c]) - 1) : down'[c][i] = down[c][i + 1]
        /\ Head(down[c]) = down[c][1] /\ down[c][1] \in PageFrames
    BY <1>0, <2>1, TailFacts, FrameTypes
  <2>3. /\ Len(inbox[c]) \in Nat /\ Len(inbox'[c]) = Len(inbox[c]) + 1
        /\ DOMAIN inbox[c] = 1..Len(inbox[c]) /\ DOMAIN inbox'[c] = 1..(Len(inbox[c]) + 1)
        /\ \A i \in 1..Len(inbox[c]) : inbox'[c][i] = inbox[c][i]
        /\ inbox'[c][Len(inbox[c]) + 1] = down[c][1] /\ inbox'[c] # <<>>
        /\ inbox[c] = <<>> <=> Len(inbox[c]) = 0
    BY <1>0, <2>1, <2>2, AppendFacts, SeqFacts
  <2>4. Nonces(c)' = Nonces(c) /\ Nonces(c) \in {0, 1}
    BY <2>1, <2>2, <2>3 DEF Nonces
  <2>l. /\ Len(down[c]) \in Nat /\ Len(down'[c]) = Len(down[c]) - 1
        /\ Len(inbox[c]) \in Nat /\ Len(inbox'[c]) = Len(inbox[c]) + 1
    BY <2>2, <2>3
  <2>5. Following(c)' => Following(c)
    BY <2>1 DEF Following
  <2> DEFINE Step(f, i) == f.tag \in Tags /\ f.n + Nonces(c)' + 1 = peer'[c].recv + i
  <2>6. \A i : \A f : Step(f, i) <=> InStep(c, f, i)
    BY <2>1, <2>4 DEF InStep
  <2> HIDE DEF Step
  <2>7. ASSUME Following(c), NEW i \in DOMAIN inbox'[c], i > Nonces(c)
        PROVE  InStep(c, inbox'[c][i], i)
    <3>1. CASE i \in DOMAIN inbox[c]
      BY <2>3, <2>7, <3>1 DEF Stepped
    <3>2. CASE i = Len(inbox[c]) + 1
      <4>1. 1 \in DOMAIN down[c] /\ \A j \in 1..1 : down[c][j].tag # "fin"
        BY <2>1, <2>2
      <4>2. InStep(c, down[c][1], 1 + Len(inbox[c]))
        BY <2>1, <2>3, <2>7, <3>2, <4>1 DEF Stepped
      <4> QED BY <2>3, <3>2, <4>2
    <3> QED BY <2>3, <2>7, <3>1, <3>2
  <2>8. ASSUME Following(c), NEW i \in DOMAIN down'[c],
               \A j \in 1..i : down'[c][j].tag # "fin", i + Len(inbox'[c]) > Nonces(c)
        PROVE  InStep(c, down'[c][i], i + Len(inbox'[c]))
    <3>1. i + 1 \in DOMAIN down[c] /\ down'[c][i] = down[c][i + 1]
      BY <2>2, <2>8
    <3>2. ASSUME NEW j \in 1..(i + 1) PROVE down[c][j].tag # "fin"
      <4>1. CASE j = 1
        BY <2>1, <2>2, <4>1
      <4>2. CASE j # 1
        <5>1. j - 1 \in 1..i /\ j - 1 \in 1..(Len(down[c]) - 1) /\ (j - 1) + 1 = j
          BY <2>2, <2>8, <4>2
        <5> QED BY <2>2, <2>8, <5>1
      <4> QED BY <4>1, <4>2
    <3>3. (i + 1) + Len(inbox[c]) = i + Len(inbox'[c])
      <4>1. i \in Nat
        BY <2>2, <2>8
      <4> QED BY <2>l, <4>1
    <3> QED BY <2>1, <2>8, <3>1, <3>2, <3>3 DEF Stepped
  <2>9. NoFin(down'[c]) => NoFin(down[c])
    <3> SUFFICES ASSUME NoFin(down'[c]), NEW j \in DOMAIN down[c] PROVE down[c][j].tag # "fin"
      BY DEF NoFin
    <3>1. CASE j = 1
      BY <2>1, <2>2, <3>1
    <3>2. CASE j # 1
      <4>1. j - 1 \in 1..(Len(down[c]) - 1) /\ (j - 1) + 1 = j
        BY <2>2, <3>2
      <4> QED BY <2>2, <4>1 DEF NoFin
    <3> QED BY <3>1, <3>2
  <2>10. Flowing(c)' => Flowing(c)
    BY <2>1, <2>5, <2>9 DEF Flowing
  <2>11. Flowing(c)' =>
           client'[c].send + Nonces(c)' = peer'[c].recv + Len(inbox'[c]) + Len(down'[c])
    <3>1. Flowing(c)' =>
            client[c].send + Nonces(c) = peer[c].recv + Len(inbox[c]) + Len(down[c])
      BY <2>10 DEF Stepped
    <3>2. r2 = r /\ s2 = s /\ d2 = d0 - 1 /\ i2 = i0 + 1 /\ n2 = n0
      BY <2>1, <2>l, <2>4 DEF r, s, d0, i0, n0, r2, s2, d2, i2, n2
    <3>3. {s, r, d0, i0, n0} \subseteq Nat
      BY <1>n, <2>l, <2>4 DEF s, r, d0, i0, n0
    <3>4. s + n0 = r + i0 + d0 => s2 + n2 = r2 + i2 + d2
      BY <3>2, <3>3
    <3> QED BY <3>1, <3>4 DEF r, s, d0, i0, n0, r2, s2, d2, i2, n2
  <2>12. Following(c)' =>
           /\ \A i \in DOMAIN inbox'[c] : i > Nonces(c)' => Step(inbox'[c][i], i)
           /\ sock'[c] = "open" => \A i \in DOMAIN down'[c] :
                (\A j \in 1..i : down'[c][j].tag # "fin") /\ i + Len(inbox'[c]) > Nonces(c)' =>
                    Step(down'[c][i], i + Len(inbox'[c]))
    BY <2>4, <2>5, <2>6, <2>7, <2>8
  <2> QED BY <2>11, <2>12 DEF Stepped, InStep, Step
<1>5. CASE Dropped(c) \/ Handled(c)
  <2>1. /\ inbox[c] # <<>> /\ inbox'[c] = Tail(inbox[c]) /\ down'[c] = down[c]
        /\ handler'[c] = handler[c] /\ client'[c] = client[c] /\ page'.conn = page.conn
        /\ sock'[c] \in {sock[c], "closing"}
    BY <1>5 DEF Dropped, Handled, PeerSame, WorkerSame, PageSame
  <2>2. /\ Len(inbox[c]) \in Nat /\ Len(inbox[c]) >= 1 /\ Len(inbox'[c]) = Len(inbox[c]) - 1
        /\ DOMAIN inbox[c] = 1..Len(inbox[c]) /\ DOMAIN inbox'[c] = 1..(Len(inbox[c]) - 1)
        /\ \A i \in 1..(Len(inbox[c]) - 1) : inbox'[c][i] = inbox[c][i + 1]
        /\ Head(inbox[c]) = inbox[c][1]
        /\ inbox'[c] = <<>> <=> Len(inbox[c]) = 1
    <3>1. inbox'[c] = <<>> <=> Len(inbox'[c]) = 0
      BY <1>0, SeqFacts
    <3> QED BY <1>0, <2>1, <3>1, TailFacts
  <2>3. /\ Len(down[c]) \in Nat /\ DOMAIN down[c] = 1..Len(down[c])
        /\ down[c] = <<>> <=> Len(down[c]) = 0
    BY <1>0, SeqFacts
  <2>4. Following(c)' => Following(c)
    <3>1. peer[c].poisoned => ~Following(c)'
      BY <1>5 DEF Dropped, Handled, Following, PeerSame
    <3> QED BY <2>1, <3>1 DEF Following
  <2>5. Flowing(c)' => Flowing(c)
    BY <2>1, <2>4 DEF Flowing
  <2>6. ASSUME Following(c)' PROVE peer'[c].recv + Nonces(c) = peer[c].recv + 1
    <3>1. CASE Dropped(c)
      <4>1. inbox[c][1].tag = "nonce" /\ peer'[c].recv = peer[c].recv
        BY <2>1, <2>2, <2>6, <3>1 DEF Dropped, PeerSame, Following
      <4> QED BY <1>n, <2>1, <4>1 DEF Nonces
    <3>2. CASE Handled(c)
      <4>1. inbox[c][1].tag # "nonce" /\ peer'[c].recv = peer[c].recv + 1
        BY <2>2, <3>2 DEF Handled, Tags, FinalTags
      <4> QED BY <1>n, <2>1, <4>1 DEF Nonces
    <3> QED BY <1>5, <3>1, <3>2
  <2>7. Nonces(c) \in {0, 1}
    BY DEF Nonces
  <2>8. ASSUME Following(c), inbox'[c] # <<>> \/ sock[c] = "open" PROVE Nonces(c)' = 0
    <3>1. ASSUME NEW f, NEW i, InStep(c, f, i) PROVE f.tag # "nonce"
      BY <3>1 DEF InStep, Tags, FinalTags
    <3>2. CASE inbox'[c] # <<>>
      <4>1. 2 \in DOMAIN inbox[c] /\ inbox'[c][1] = inbox[c][2] /\ 2 > Nonces(c)
        BY <2>2, <2>7, <3>2
      <4> QED BY <2>8, <3>1, <3>2, <4>1 DEF Stepped, Nonces
    <3>3. CASE inbox'[c] = <<>> /\ down[c] # <<>>
      <4>1. 1 \in DOMAIN down[c] /\ 1 + Len(inbox[c]) > Nonces(c)
        BY <2>2, <2>3, <2>7, <3>3
      <4>2. CASE down[c][1].tag = "fin"
        BY <2>1, <3>3, <4>2 DEF Nonces
      <4>3. CASE down[c][1].tag # "fin"
        <5>1. \A j \in 1..1 : down[c][j].tag # "fin"
          BY <4>3
        <5>2. InStep(c, down[c][1], 1 + Len(inbox[c]))
          BY <2>8, <3>3, <4>1, <5>1 DEF Stepped
        <5>3. down[c][1].tag # "nonce"
          BY <3>1, <5>2
        <5> QED BY <2>1, <3>3, <5>3 DEF Nonces
      <4> QED BY <4>2, <4>3
    <3>4. CASE inbox'[c] = <<>> /\ down[c] = <<>>
      BY <2>1, <3>4 DEF Nonces
    <3> QED BY <3>2, <3>3, <3>4
  <2> DEFINE Step(f, i) == f.tag \in Tags /\ f.n + Nonces(c)' + 1 = peer'[c].recv + i
  <2>9. ASSUME NEW i \in Nat, NEW f, f.n \in Nat, Following(c)', Nonces(c)' = 0,
               InStep(c, f, i + 1)
        PROVE  Step(f, i)
    <3>1. r2 + n0 = r + 1 /\ n2 = 0 /\ f.tag \in Tags /\ f.n + n0 + 1 = r + (i + 1)
      BY <2>6, <2>9 DEF InStep, r, r2, n0, n2
    <3>2. r \in Nat /\ r2 \in Nat /\ n0 \in {0, 1}
      BY <1>n, <2>7 DEF r, r2, n0
    <3>3. f.n + n2 + 1 = r2 + i
      BY <2>9, <3>1, <3>2
    <3> QED BY <3>1, <3>3 DEF r2, n2
  <2> HIDE DEF Step
  <2>10. ASSUME Following(c)', NEW i \in DOMAIN inbox'[c] PROVE Step(inbox'[c][i], i)
    <3>1. inbox'[c] # <<>> /\ i \in Nat /\ i + 1 \in DOMAIN inbox[c] /\ i + 1 > Nonces(c)
      BY <2>2, <2>7, <2>10
    <3>2. InStep(c, inbox[c][i + 1], i + 1)
      BY <2>4, <2>10, <3>1 DEF Stepped
    <3>3. inbox'[c][i] = inbox[c][i + 1] /\ inbox[c][i + 1].n \in Nat
      BY <1>0, <2>2, <2>10, <3>1, SeqFacts, FrameTypes
    <3> QED BY <2>4, <2>8, <2>9, <2>10, <3>1, <3>2, <3>3
  <2>11. ASSUME Following(c)', sock'[c] = "open", NEW i \in DOMAIN down[c],
                \A j \in 1..i : down[c][j].tag # "fin"
         PROVE  Step(down[c][i], i + Len(inbox'[c]))
    <3>1. i + Len(inbox[c]) > Nonces(c) /\ i + Len(inbox'[c]) \in Nat
      BY <2>2, <2>3, <2>7, <2>11
    <3>2. InStep(c, down[c][i], i + Len(inbox[c]))
      BY <2>1, <2>4, <2>11, <3>1 DEF Stepped
    <3>3. i + Len(inbox[c]) = (i + Len(inbox'[c])) + 1
      BY <2>2, <2>3, <2>11
    <3>4. down[c][i].n \in Nat
      BY <1>0, <2>3, <2>11, SeqFacts, FrameTypes
    <3> QED BY <2>1, <2>4, <2>8, <2>9, <2>11, <3>1, <3>2, <3>3, <3>4
  <2>12. ASSUME Flowing(c)'
         PROVE  client'[c].send + Nonces(c)' = peer'[c].recv + Len(inbox'[c]) + Len(down'[c])
    <3>1. Following(c)' /\ Following(c) /\ sock[c] = "open" /\ Nonces(c)' = 0
      BY <2>1, <2>4, <2>8, <2>12 DEF Flowing
    <3>2. client[c].send + Nonces(c) = peer[c].recv + Len(inbox[c]) + Len(down[c])
      BY <2>5, <2>12 DEF Stepped
    <3>3. /\ Len(inbox[c]) \in Nat /\ Len(inbox'[c]) = Len(inbox[c]) - 1
          /\ Len(down[c]) \in Nat /\ Len(down'[c]) = Len(down[c])
          /\ client'[c].send = client[c].send
      BY <2>1, <2>2, <2>3
    <3>4. peer'[c].recv + Nonces(c) = peer[c].recv + 1
      BY <2>6, <3>1
    <3>5. s2 = s /\ i2 = i0 - 1 /\ d2 = d0 /\ r2 + n0 = r + 1 /\ n2 = 0 /\ s + n0 = r + i0 + d0
      BY <3>1, <3>2, <3>3, <3>4 DEF r, s, d0, i0, n0, r2, s2, d2, i2, n2
    <3>6. {s, r, d0, i0, n0, r2} \subseteq Nat
      BY <1>n, <2>7, <3>3 DEF s, r, r2, d0, i0, n0
    <3>7. s2 + n2 = r2 + i2 + d2
      BY <3>5, <3>6
    <3> QED BY <3>7 DEF r2, s2, d2, i2, n2
  <2>13. Following(c)' =>
           /\ \A i \in DOMAIN inbox'[c] : i > Nonces(c)' => Step(inbox'[c][i], i)
           /\ sock'[c] = "open" => \A i \in DOMAIN down'[c] :
                (\A j \in 1..i : down'[c][j].tag # "fin") /\ i + Len(inbox'[c]) > Nonces(c)' =>
                    Step(down'[c][i], i + Len(inbox'[c]))
    BY <2>1, <2>10, <2>11
  <2> QED BY <2>12, <2>13 DEF Stepped, InStep, Step
<1>6. CASE CloseAsked(c)
  <2>1. (Following(c)' => Following(c)) /\ (Flowing(c)' => Flowing(c))
    BY <1>6 DEF CloseAsked, Following, Flowing, WorkerSame
  <2> QED BY <1>6, <2>1, StillStepped DEF CloseAsked, WorkerSame
<1>7. CASE Accepted(c)
  <2>1. /\ inbox'[c] = <<>> /\ down'[c] = <<Frame("nonce", 0)>> /\ peer'[c].recv = 0
        /\ client'[c].send = 0
    BY <1>7, <1>s DEF Accepted, Staged, NoPeer, NoClient
  <2>2. Nonces(c)' = 1
    BY <2>1 DEF Nonces, Frame
  <2>3. Len(inbox'[c]) = 0 /\ Len(down'[c]) = 1 /\ DOMAIN inbox'[c] = {} /\ DOMAIN down'[c] = {1}
    BY <2>1
  <2> QED BY <2>1, <2>2, <2>3 DEF Stepped
<1>8. CASE Severed(c)
  <2>1. /\ inbox'[c] = inbox[c] /\ peer'[c] = peer[c] /\ page'.conn = page.conn
        /\ down'[c] = <<Fin(1006)>>
    BY <1>8 DEF Severed, Quiet, PageSame
  <2>2. DOMAIN down'[c] = {1} /\ down'[c][1].tag = "fin"
    BY <2>1 DEF Fin
  <2>3. ~Flowing(c)' /\ (Following(c)' => Following(c))
    BY <2>1, <2>2 DEF Flowing, NoFin, Following
  <2>4. inbox[c] # <<>> => Nonces(c)' = Nonces(c)
    BY <2>1 DEF Nonces
  <2>5. \A i \in DOMAIN inbox[c] : inbox[c] # <<>>
    BY <1>0
  <2> QED BY <2>1, <2>2, <2>3, <2>4, <2>5 DEF Stepped, InStep
<1>9. ASSUME Quiet(c), NEW code \in Codes, HangsUp(c, code),
             handler'[c] = "gone" \/ client'[c].closed
      PROVE  Stepped(c)'
  <2>1. /\ inbox'[c] = inbox[c] /\ peer'[c] = peer[c] /\ page'.conn = page.conn
        /\ sock'[c] = sock[c] /\ down'[c] \in {down[c], Append(down[c], Fin(code))}
    BY <1>9 DEF Quiet, PageSame, HangsUp
  <2>2. ~Flowing(c)' /\ (Following(c)' => Following(c))
    BY <1>9, <2>1 DEF Flowing, Following
  <2>3. CASE down'[c] = down[c]
    BY <2>1, <2>2, <2>3, StillStepped
  <2>4. CASE down'[c] = Append(down[c], Fin(code))
    <3>1. /\ Len(down[c]) \in Nat /\ DOMAIN down[c] = 1..Len(down[c])
          /\ DOMAIN down'[c] = 1..(Len(down[c]) + 1) /\ down'[c] # <<>>
          /\ \A i \in 1..Len(down[c]) : down'[c][i] = down[c][i]
          /\ down'[c][Len(down[c]) + 1].tag = "fin"
          /\ down[c] = <<>> <=> Len(down[c]) = 0
      BY <1>0, <2>4, AppendFacts, SeqFacts, FrameTypes DEF Fin
    <3>2. Nonces(c)' = Nonces(c)
      BY <2>1, <3>1 DEF Nonces
    <3>3. \A f : \A i : InStep(c, f, i)' <=> InStep(c, f, i)
      BY <2>1, <3>2 DEF InStep
    <3>4. ASSUME Following(c), sock[c] = "open", NEW i \in DOMAIN down'[c],
                 \A j \in 1..i : down'[c][j].tag # "fin", i + Len(inbox[c]) > Nonces(c)
          PROVE  InStep(c, down'[c][i], i + Len(inbox[c]))
      <4>1. i \in DOMAIN down[c] /\ down'[c][i] = down[c][i]
        BY <3>1, <3>4
      <4>2. \A j \in 1..i : down[c][j].tag # "fin"
        BY <3>1, <3>4, <4>1
      <4> QED BY <3>4, <4>1, <4>2 DEF Stepped
    <3> QED BY <2>1, <2>2, <3>2, <3>3, <3>4 DEF Stepped
  <2> QED BY <2>1, <2>3, <2>4
<1>10. CASE Freed(c) \/ Emptied(c)
  BY <1>9, <1>10 DEF Freed, Emptied, Proceeds, Codes
<1>11. CASE Tuned(c) \/ \E tag \in Tags : Added(c, tag)
  <2>1. /\ Quiet(c) /\ down'[c] = down[c] /\ client'[c].send = client[c].send
        /\ handler[c] # "gone" /\ (client[c].closed => client'[c].closed)
    BY <1>11 DEF Tuned, Added, Proceeds
  <2>2. (Following(c)' => Following(c)) /\ (Flowing(c)' => Flowing(c))
    BY <2>1 DEF Quiet, PageSame, Following, Flowing
  <2> QED BY <2>1, <2>2, StillStepped DEF Quiet
<1>12. CASE Written(c)
  <2>1. /\ Quiet(c) /\ handler[c] # "gone" /\ client[c].frames # <<>> /\ ~client[c].closed
        /\ client'[c].send = client[c].send + 1
    BY <1>12, <1>s DEF Written, Proceeds, Staged
  <2>2. /\ inbox'[c] = inbox[c] /\ peer'[c] = peer[c] /\ page'.conn = page.conn
        /\ sock'[c] = sock[c]
    BY <2>1 DEF Quiet, PageSame
  <2>3. Following(c)' => Following(c)
    BY <2>2 DEF Following
  <2>4. CASE sock[c] # "open"
    <3>1. ~Flowing(c)' /\ down'[c] = down[c]
      BY <1>12, <2>2, <2>4 DEF Written, Flowing
    <3> QED BY <2>2, <2>3, <2>4, <3>1, StillStepped
  <2>5. CASE sock[c] = "open"
    <3> DEFINE e == Frame(Head(client[c].frames), client[c].send)
    <3>1. down'[c] = Append(down[c], e)
      BY <1>12, <2>5 DEF Written
    <3>2. Head(client[c].frames) \in Tags /\ client[c].send \in 0..LastCounter
      BY <1>0, <2>1 DEF ClientState
    <3>3. e \in DownFrames /\ e.tag \in Tags /\ e.n = client[c].send
      BY <3>2, FrameTypes DEF Frame
    <3> HIDE DEF e
    <3>4. e.tag # "nonce" /\ e.tag # "fin"
      BY <3>3 DEF Tags, FinalTags
    <3>5. /\ Len(down[c]) \in Nat /\ DOMAIN down[c] = 1..Len(down[c])
          /\ DOMAIN down'[c] = 1..(Len(down[c]) + 1) /\ down'[c] # <<>>
          /\ \A i \in 1..Len(down[c]) : down'[c][i] = down[c][i]
          /\ down'[c][Len(down[c]) + 1] = e /\ Len(down'[c]) = Len(down[c]) + 1
          /\ down[c] = <<>> <=> Len(down[c]) = 0
      BY <1>0, <3>1, <3>3, AppendFacts, SeqFacts
    <3>6. Nonces(c)' = Nonces(c) /\ Nonces(c) \in {0, 1}
      BY <2>2, <3>4, <3>5 DEF Nonces
    <3>7. \A f : \A i : InStep(c, f, i)' <=> InStep(c, f, i)
      BY <2>2, <3>6 DEF InStep
    <3>8. (\A j \in 1..Len(down[c]) : down'[c][j].tag # "fin") => NoFin(down[c])
      BY <3>5 DEF NoFin
    <3>9. Len(inbox[c]) \in Nat
      BY <1>0
    <3>10. ASSUME Following(c), NEW i \in DOMAIN down'[c],
                 \A j \in 1..i : down'[c][j].tag # "fin", i + Len(inbox[c]) > Nonces(c)
          PROVE  InStep(c, down'[c][i], i + Len(inbox[c]))
      <4>1. CASE i \in DOMAIN down[c]
        <5>1. \A j \in 1..i : down[c][j].tag # "fin"
          BY <3>5, <3>10, <4>1
        <5> QED BY <2>5, <3>5, <3>10, <4>1, <5>1 DEF Stepped
      <4>2. CASE i = Len(down[c]) + 1
        <5>1. NoFin(down[c])
          BY <3>5, <3>8, <3>10, <4>2
        <5>2. client[c].send + Nonces(c) = peer[c].recv + Len(inbox[c]) + Len(down[c])
          BY <2>1, <2>5, <3>10, <5>1 DEF Stepped, Flowing
        <5>3. /\ Len(down[c]) \in Nat /\ down'[c][i] = e /\ Nonces(c) \in {0, 1}
              /\ e.tag \in Tags /\ e.n = client[c].send
          BY <3>3, <3>5, <3>6, <4>2
        <5>4. client[c].send + Nonces(c) + 1 = peer[c].recv + (i + Len(inbox[c]))
          <6>1. {s, r, d0, i0, n0} \subseteq Nat
            BY <1>n, <3>9, <5>3 DEF s, r, d0, i0, n0
          <6>2. s + n0 = r + i0 + d0 /\ i = d0 + 1
            BY <4>2, <5>2 DEF s, r, d0, i0, n0
          <6>3. s + n0 + 1 = r + (i + i0)
            BY <6>1, <6>2
          <6> QED BY <6>3 DEF s, r, d0, i0, n0
        <5> QED BY <5>3, <5>4 DEF InStep
      <4> QED BY <3>5, <3>10, <4>1, <4>2
    <3>11. ASSUME Flowing(c)'
           PROVE  client'[c].send + Nonces(c) = peer[c].recv + Len(inbox[c]) + Len(down'[c])
      <4>1. NoFin(down[c])
        <5>1. \A j \in DOMAIN down'[c] : down'[c][j].tag # "fin"
          BY <3>11 DEF Flowing, NoFin
        <5> QED BY <3>5, <3>8, <5>1
      <4>2. Flowing(c)
        BY <2>1, <2>3, <2>5, <3>11, <4>1 DEF Flowing
      <4>3. client[c].send + Nonces(c) = peer[c].recv + Len(inbox[c]) + Len(down[c])
        BY <4>2 DEF Stepped
      <4>4. /\ client'[c].send = client[c].send + 1 /\ Len(down[c]) \in Nat
            /\ Len(down'[c]) = Len(down[c]) + 1 /\ Nonces(c) \in {0, 1}
        BY <2>1, <3>5, <3>6
      <4>5. {s, r, d0, i0, n0} \subseteq Nat
        BY <1>n, <3>9, <4>4 DEF s, r, d0, i0, n0
      <4>6. s + n0 = r + i0 + d0 /\ s2 = s + 1 /\ d2 = d0 + 1
        BY <4>3, <4>4 DEF s, r, d0, i0, n0, s2, d2
      <4>7. s2 + n0 = r + i0 + d2
        BY <4>5, <4>6
      <4> QED BY <4>7 DEF s2, n0, r, i0, d2
    <3> QED BY <2>2, <2>3, <2>5, <3>6, <3>7, <3>10, <3>11 DEF Stepped
  <2> QED BY <2>4, <2>5
<1> QED BY <1>1, <1>2, <1>3, <1>4, <1>5, <1>6, <1>7, <1>8, <1>10, <1>11, <1>12
    DEF Touched

\* A step of the system keeps the counters in step.
LEMMA StepInvNext == BaseInv /\ StepInv /\ [Next]_vars => StepInv'
  BY BaseNext, StepTouches, SteppedNext DEF BaseInv, StepInv

\* There is no connection at first.
LEMMA StepInit == Init => StepInv
  BY Constants DEF Init, StepInv, Stepped, Following, Flowing

\* One sequence after another.
LEMMA ConcatFacts ==
  ASSUME NEW S, NEW s \in Seq(S), NEW t \in Seq(S)
  PROVE  /\ s \o t \in Seq(S) /\ Len(s \o t) = Len(s) + Len(t)
         /\ \A j \in 1..Len(s) : (s \o t)[j] = s[j]
         /\ \A j \in 1..Len(t) : (s \o t)[j + Len(s)] = t[j]
<1>1. s \o t \in Seq(S) /\ Len(s \o t) = Len(s) + Len(t)
  OBVIOUS
<1>2. \A j \in 1..Len(s) : (s \o t)[j] = s[j]
  OBVIOUS
<1>3. ASSUME NEW j \in 1..Len(t) PROVE (s \o t)[j + Len(s)] = t[j]
  <2>1. /\ Len(s) \in Nat /\ Len(t) \in Nat /\ j \in Nat
        /\ j + Len(s) \in 1..(Len(s) + Len(t)) /\ j + Len(s) > Len(s)
        /\ (j + Len(s)) - Len(s) = j
    OBVIOUS
  <2> QED BY <2>1
<1> QED BY <1>1, <1>2, <1>3

\* The frames that wait are the ones that have arrived, then the ones on their way.
LEMMA SteppedPending ==
  ASSUME TypeInv, NEW c \in Conns, Stepped(c), Sound(c), NEW i \in DOMAIN Pending(c)
  PROVE  Pending(c)[i].tag \in Tags /\ Pending(c)[i].n = peer[c].recv + i - 1
<1> DEFINE s == inbox[c] \o down[c]
           a == Len(inbox[c])
           b == Len(down[c])
           k == i + Nonces(c)
<1>1. /\ inbox[c] \in Seq(PageFrames) /\ down[c] \in Seq(DownFrames)
      /\ inbox[c] \in Seq(DownFrames) /\ peer[c] \in PeerState
  <2>1. PageFrames \subseteq DownFrames
    BY FrameTypes
  <2>2. inbox[c] \in Seq(PageFrames) /\ down[c] \in Seq(DownFrames) /\ peer[c] \in PeerState
    BY DEF TypeInv, SockType, WireType
  <2>3. inbox[c] \in Seq(DownFrames)
    BY <2>1, <2>2
  <2> QED BY <2>2, <2>3
<1>2. /\ a \in Nat /\ b \in Nat /\ DOMAIN inbox[c] = 1..a /\ DOMAIN down[c] = 1..b
      /\ (inbox[c] = <<>> <=> a = 0) /\ (down[c] = <<>> <=> b = 0)
  BY <1>1, SeqFacts
<1>3. /\ s \in Seq(DownFrames) /\ Len(s) = a + b
      /\ \A j \in 1..a : s[j] = inbox[c][j]
      /\ \A j \in 1..b : s[j + a] = down[c][j]
  <2>1. s \in Seq(DownFrames) /\ Len(s) = a + b
    BY <1>1, ConcatFacts
  <2>2. \A j \in 1..a : s[j] = inbox[c][j]
    BY <1>1, ConcatFacts
  <2>3. ASSUME NEW j \in 1..b PROVE s[j + a] = down[c][j]
    <3> HIDE DEF a, b, s
    <3>1. j \in Nat /\ j + a \in 1..(a + b) /\ j + a > a /\ (j + a) - a = j
      BY <1>2
    <3> QED BY <1>1, <1>2, <3>1 DEF a, b, s
  <2> QED BY <2>1, <2>2, <2>3
<1> HIDE DEF a, b, s
<1>4. DOMAIN s = 1..(a + b) /\ (s = <<>> <=> a + b = 0)
  BY <1>3, SeqFacts
<1>5. Nonces(c) = IF s # <<>> /\ s[1].tag = "nonce" THEN 1 ELSE 0
  <2>1. CASE a # 0
    <3>1. s # <<>> /\ inbox[c] # <<>> /\ s[1] = inbox[c][1]
      BY <1>2, <1>3, <1>4, <2>1
    <3> QED BY <3>1 DEF Nonces
  <2>2. CASE a = 0 /\ b # 0
    <3>1. s # <<>> /\ inbox[c] = <<>> /\ down[c] # <<>> /\ s[1] = down[c][1]
      <4>1. 1 \in 1..b /\ 1 + a = 1
        BY <1>2, <2>2
      <4> QED BY <1>2, <1>3, <1>4, <2>2, <4>1
    <3> QED BY <3>1 DEF Nonces
  <2>3. CASE a = 0 /\ b = 0
    <3>1. s = <<>> /\ inbox[c] = <<>> /\ down[c] = <<>>
      BY <1>2, <1>4, <2>3
    <3> QED BY <3>1 DEF Nonces
  <2> QED BY <1>2, <2>1, <2>2, <2>3
<1>6. Pending(c) = IF Nonces(c) = 1 THEN Tail(s) ELSE s
  <2>1. Pending(c) = IF s # <<>> /\ s[1].tag = "nonce" THEN Tail(s) ELSE s
    BY DEF Pending, s
  <2>2. CASE s # <<>> /\ s[1].tag = "nonce"
    BY <1>5, <2>1, <2>2
  <2>3. CASE ~(s # <<>> /\ s[1].tag = "nonce")
    <3>1. Pending(c) = s
      BY <2>1, <2>3
    <3>2. Nonces(c) # 1
      BY <1>5, <2>3
    <3> QED BY <3>1, <3>2
  <2> QED BY <2>2, <2>3
<1>7. /\ i \in Nat /\ i >= 1 /\ Nonces(c) \in {0, 1} /\ k \in 1..(a + b)
      /\ Pending(c)[i] = s[k]
  <2>1. CASE Nonces(c) = 0
    <3>1. Pending(c) = s
      BY <1>6, <2>1
    <3>2. i \in 1..(a + b)
      BY <1>4, <3>1
    <3>3. i \in Nat /\ i >= 1 /\ k = i
      BY <1>2, <2>1, <3>2
    <3> QED BY <2>1, <3>1, <3>2, <3>3
  <2>2. CASE Nonces(c) = 1
    <3>1. s # <<>> /\ Pending(c) = Tail(s) /\ k = i + 1
      BY <1>5, <1>6, <2>2
    <3>2. DOMAIN Tail(s) = 1..(Len(s) - 1) /\ \A j \in 1..(Len(s) - 1) : Tail(s)[j] = s[j + 1]
      BY <1>3, <3>1, TailFacts
    <3> QED BY <1>2, <1>3, <2>2, <3>1, <3>2
  <2>3. Nonces(c) \in {0, 1}
    BY DEF Nonces
  <2> QED BY <2>1, <2>2, <2>3
<1> HIDE DEF k
<1>8. InStep(c, s[k], k)
  <2>1. k > Nonces(c)
    BY <1>7 DEF k
  <2>2. CASE k \in 1..a
    BY <1>2, <1>3, <2>1, <2>2 DEF Stepped, Sound, Following
  <2>3. CASE k \notin 1..a
    <3>1. k - a \in 1..b /\ (k - a) + a = k
      BY <1>2, <1>7, <2>3
    <3>2. s[k] = down[c][k - a]
      BY <1>3, <3>1
    <3>3. \A j \in 1..(k - a) : down[c][j].tag # "fin"
      BY <1>2, <1>7, <3>1 DEF Sound
    <3>4. k - a \in DOMAIN down[c] /\ (k - a) + Len(inbox[c]) = k
      BY <1>2, <3>1 DEF a
    <3>5. InStep(c, down[c][k - a], (k - a) + Len(inbox[c]))
      BY <2>1, <3>3, <3>4 DEF Stepped, Sound, Following
    <3> QED BY <3>2, <3>4, <3>5
  <2> QED BY <2>2, <2>3
<1>9. s[k].tag \in Tags /\ s[k].n + Nonces(c) + 1 = peer[c].recv + k
  BY <1>8 DEF InStep
<1>10. s[k].n \in Nat /\ peer[c].recv \in Nat
  <2>1. s[k].n \in Nat
    BY <1>3, <1>7, FrameTypes
  <2>2. peer[c].recv \in 0..LastCounter
    BY <1>1 DEF PeerState
  <2> QED BY <2>1, <2>2, Constants
<1>11. s[k].n = peer[c].recv + i - 1
  <2> DEFINE x == s[k].n
             r == peer[c].recv
             n == Nonces(c)
  <2>1. x \in Nat /\ r \in Nat /\ n \in {0, 1} /\ i \in Nat /\ x + n + 1 = r + (i + n)
    BY <1>7, <1>9, <1>10 DEF k
  <2> HIDE DEF x, r, n
  <2>2. x = r + i - 1
    BY <2>1
  <2> QED BY <2>2 DEF x, r
<1> QED BY <1>7, <1>9, <1>11

\* Sealer and decryptFrame stay in step (cipher.go, wrap-mirror.js): the frames that wait for
\* the page carry, in order and without a gap or a repetition, the counters it will try.
THEOREM CountersAlwaysInStep == Spec => []CountersInStep
<1>1. Init => BaseInv /\ StepInv
  BY BaseInit, StepInit DEF BaseInv
<1>2. BaseInv /\ StepInv /\ [Next]_vars => (BaseInv /\ StepInv)'
  BY BaseNext, StepInvNext
<1>3. BaseInv /\ StepInv => CountersInStep
  BY SteppedPending DEF CountersInStep, BaseInv, StepInv
<1> QED BY <1>1, <1>2, <1>3, PTL DEF Spec

-----------------------------------------------------------------------------
\* Terminal output is counted

\* Positions of a sequence can be counted.
LEMMA PositionsFinite ==
  ASSUME NEW n \in Nat, NEW A \in SUBSET (1..n)
  PROVE  IsFiniteSet(A) /\ Cardinality(A) \in Nat
<1>1. IsFiniteSet(1..n)
  BY FS_Interval
<1>2. IsFiniteSet(A)
  BY <1>1, FS_Subset
<1> QED BY <1>2, FS_CardinalityType

\* The positions A of a sequence are the positions B of its tail, moved by one, and
\* perhaps the first.
LEMMA PositionsShift ==
  ASSUME NEW n \in Nat, NEW A \in SUBSET (1..n), NEW B \in SUBSET (1..(n - 1)), n >= 1,
         \A i \in 1..(n - 1) : i \in B <=> i + 1 \in A
  PROVE  Cardinality(A) = IF 1 \in A THEN Cardinality(B) + 1 ELSE Cardinality(B)
<1> DEFINE f == [i \in B |-> i + 1]
<1>1. IsFiniteSet(B) /\ Cardinality(B) \in Nat /\ IsFiniteSet(A) /\ Cardinality(A) \in Nat
  <2>1. n - 1 \in Nat
    OBVIOUS
  <2> QED BY <2>1, PositionsFinite
<1>2. f \in [B -> A \ {1}]
  OBVIOUS
<1>3. ASSUME NEW x \in B, NEW y \in B, f[x] = f[y] PROVE x = y
  BY <1>3
<1>4. ASSUME NEW y \in A \ {1} PROVE \E x \in B : f[x] = y
  <2>1. y - 1 \in 1..(n - 1) /\ (y - 1) + 1 = y
    OBVIOUS
  <2>2. y - 1 \in B
    BY <2>1
  <2> QED BY <2>1, <2>2
<1>5. f \in Bijection(B, A \ {1})
  BY <1>2, <1>3, <1>4 DEF Bijection, Injection, Surjection, IsInjective
<1>6. Cardinality(A \ {1}) = Cardinality(B)
  BY <1>1, <1>5, FS_Bijection DEF ExistsBijection
<1>7. Cardinality(A \ {1}) = IF 1 \in A THEN Cardinality(A) - 1 ELSE Cardinality(A)
  BY <1>1, FS_RemoveElement
<1> QED BY <1>1, <1>6, <1>7

\* A sequence has grown at its end by what is, or is not, counted.
LEMMA PositionsGrow ==
  ASSUME NEW n \in Nat, NEW A \in SUBSET (1..(n + 1)), NEW B \in SUBSET (1..n),
         \A i \in 1..n : i \in B <=> i \in A
  PROVE  Cardinality(A) = IF n + 1 \in A THEN Cardinality(B) + 1 ELSE Cardinality(B)
<1>1. IsFiniteSet(B)
  BY PositionsFinite
<1>2. n + 1 \notin B
  OBVIOUS
<1>3. CASE n + 1 \in A
  <2>1. A = B \cup {n + 1}
    <3>1. \A i \in 1..(n + 1) : i \in 1..n \/ i = n + 1
      OBVIOUS
    <3> QED BY <1>3, <3>1
  <2> QED BY <1>1, <1>2, <1>3, <2>1, FS_AddElement
<1>4. CASE n + 1 \notin A
  <2>1. A = B
    <3>1. \A i \in 1..(n + 1) : i \in 1..n \/ i = n + 1
      OBVIOUS
    <3> QED BY <1>4, <3>1
  <2> QED BY <1>4, <2>1
<1> QED BY <1>3, <1>4

\* The outputs among frames: none, one more, one less.
LEMMA FrameCounts ==
  /\ OutputFrames(<<>>) = 0
  /\ \A S : \A s \in Seq(S) : OutputFrames(s) \in Nat
  /\ \A S : \A s \in Seq(S), e \in S :
       OutputFrames(Append(s, e)) = IF e.tag = "output" THEN OutputFrames(s) + 1
                                    ELSE OutputFrames(s)
  /\ \A S : \A s \in Seq(S) : s # <<>> =>
       OutputFrames(s) = IF Head(s).tag = "output" THEN OutputFrames(Tail(s)) + 1
                         ELSE OutputFrames(Tail(s))
<1> DEFINE At(s) == {i \in DOMAIN s : s[i].tag = "output"}
<1>1. OutputFrames(<<>>) = 0
  <2>1. At(<<>>) = {}
    OBVIOUS
  <2> QED BY <2>1, FS_EmptySet DEF OutputFrames
<1>2. ASSUME NEW S, NEW s \in Seq(S) PROVE OutputFrames(s) \in Nat
  <2>1. Len(s) \in Nat /\ At(s) \in SUBSET (1..Len(s))
    BY SeqFacts
  <2> QED BY <2>1, PositionsFinite DEF OutputFrames
<1>3. ASSUME NEW S, NEW s \in Seq(S), NEW e \in S
      PROVE  OutputFrames(Append(s, e)) = IF e.tag = "output" THEN OutputFrames(s) + 1
                                          ELSE OutputFrames(s)
  <2> DEFINE n == Len(s)
             A == At(Append(s, e))
             B == At(s)
  <2>1. /\ n \in Nat /\ DOMAIN s = 1..n /\ DOMAIN Append(s, e) = 1..(n + 1)
        /\ \A i \in 1..n : Append(s, e)[i] = s[i]
        /\ Append(s, e)[n + 1] = e
    BY AppendFacts
  <2>2. /\ A \in SUBSET (1..(n + 1)) /\ B \in SUBSET (1..n)
        /\ \A i \in 1..n : i \in B <=> i \in A
        /\ n + 1 \in A <=> e.tag = "output"
    <3> HIDE DEF n
    <3> QED BY <2>1
  <2> HIDE DEF n, A, B
  <2>3. Cardinality(A) = IF n + 1 \in A THEN Cardinality(B) + 1 ELSE Cardinality(B)
    BY <2>1, <2>2, PositionsGrow
  <2> QED BY <2>2, <2>3 DEF OutputFrames, A, B
<1>4. ASSUME NEW S, NEW s \in Seq(S), s # <<>>
      PROVE  OutputFrames(s) = IF Head(s).tag = "output" THEN OutputFrames(Tail(s)) + 1
                               ELSE OutputFrames(Tail(s))
  <2> DEFINE n == Len(s)
             A == At(s)
             B == At(Tail(s))
  <2>1. /\ n \in Nat /\ n >= 1 /\ DOMAIN s = 1..n /\ DOMAIN Tail(s) = 1..(n - 1)
        /\ \A i \in 1..(n - 1) : Tail(s)[i] = s[i + 1]
        /\ Head(s) = s[1]
    BY <1>4, TailFacts
  <2>2. /\ A \in SUBSET (1..n) /\ B \in SUBSET (1..(n - 1))
        /\ \A i \in 1..(n - 1) : i \in B <=> i + 1 \in A
        /\ 1 \in A <=> Head(s).tag = "output"
    <3> HIDE DEF n
    <3> QED BY <2>1
  <2> HIDE DEF n, A, B
  <2>3. Cardinality(A) = IF 1 \in A THEN Cardinality(B) + 1 ELSE Cardinality(B)
    BY <2>1, <2>2, PositionsShift
  <2> QED BY <2>2, <2>3 DEF OutputFrames, A, B
<1> QED BY <1>1, <1>2, <1>3, <1>4

\* The outputs in a queue: none, one more, one less.
LEMMA TagCounts ==
  /\ OutputTags(<<>>) = 0
  /\ \A S : \A s \in Seq(S) : OutputTags(s) \in Nat
  /\ \A S : \A s \in Seq(S), e \in S :
       OutputTags(Append(s, e)) = IF e = "output" THEN OutputTags(s) + 1 ELSE OutputTags(s)
  /\ \A S : \A s \in Seq(S) : s # <<>> =>
       OutputTags(s) = IF Head(s) = "output" THEN OutputTags(Tail(s)) + 1
                       ELSE OutputTags(Tail(s))
<1> DEFINE At(s) == {i \in DOMAIN s : s[i] = "output"}
<1>1. OutputTags(<<>>) = 0
  <2>1. At(<<>>) = {}
    OBVIOUS
  <2> QED BY <2>1, FS_EmptySet DEF OutputTags
<1>2. ASSUME NEW S, NEW s \in Seq(S) PROVE OutputTags(s) \in Nat
  <2>1. Len(s) \in Nat /\ At(s) \in SUBSET (1..Len(s))
    BY SeqFacts
  <2> QED BY <2>1, PositionsFinite DEF OutputTags
<1>3. ASSUME NEW S, NEW s \in Seq(S), NEW e \in S
      PROVE  OutputTags(Append(s, e)) = IF e = "output" THEN OutputTags(s) + 1
                                        ELSE OutputTags(s)
  <2> DEFINE n == Len(s)
             A == At(Append(s, e))
             B == At(s)
  <2>1. /\ n \in Nat /\ DOMAIN s = 1..n /\ DOMAIN Append(s, e) = 1..(n + 1)
        /\ \A i \in 1..n : Append(s, e)[i] = s[i]
        /\ Append(s, e)[n + 1] = e
    BY AppendFacts
  <2>2. /\ A \in SUBSET (1..(n + 1)) /\ B \in SUBSET (1..n)
        /\ \A i \in 1..n : i \in B <=> i \in A
        /\ n + 1 \in A <=> e = "output"
    <3> HIDE DEF n
    <3> QED BY <2>1
  <2> HIDE DEF n, A, B
  <2>3. Cardinality(A) = IF n + 1 \in A THEN Cardinality(B) + 1 ELSE Cardinality(B)
    BY <2>1, <2>2, PositionsGrow
  <2> QED BY <2>2, <2>3 DEF OutputTags, A, B
<1>4. ASSUME NEW S, NEW s \in Seq(S), s # <<>>
      PROVE  OutputTags(s) = IF Head(s) = "output" THEN OutputTags(Tail(s)) + 1
                             ELSE OutputTags(Tail(s))
  <2> DEFINE n == Len(s)
             A == At(s)
             B == At(Tail(s))
  <2>1. /\ n \in Nat /\ n >= 1 /\ DOMAIN s = 1..n /\ DOMAIN Tail(s) = 1..(n - 1)
        /\ \A i \in 1..(n - 1) : Tail(s)[i] = s[i + 1]
        /\ Head(s) = s[1]
    BY <1>4, TailFacts
  <2>2. /\ A \in SUBSET (1..n) /\ B \in SUBSET (1..(n - 1))
        /\ \A i \in 1..(n - 1) : i \in B <=> i + 1 \in A
        /\ 1 \in A <=> Head(s) = "output"
    <3> HIDE DEF n
    <3> QED BY <2>1
  <2> HIDE DEF n, A, B
  <2>3. Cardinality(A) = IF 1 \in A THEN Cardinality(B) + 1 ELSE Cardinality(B)
    BY <2>1, <2>2, PositionsShift
  <2> QED BY <2>2, <2>3 DEF OutputTags, A, B
<1> QED BY <1>1, <1>2, <1>3, <1>4

\* The outputs of a connection that were shown, or will be if nothing breaks.
Shown(c) == peer[c].got + OutputFrames(inbox[c]) + OutputFrames(down[c])
            + OutputTags(client[c].frames)

\* They are outputs of the terminal, and all of those that were pushed to a connection
\* that still flows.
Tallied(c) ==
    /\ Shown(c) <= outs /\ client[c].given <= outs
    /\ Flowing(c) => client[c].given = Shown(c)

\* ... for every connection.
TallyInv == \A c \in Conns : Tallied(c)

\* A connection flows from the moment it is accepted, and not again once it has stopped.
LEMMA FlowBack ==
  ASSUME TypeInv, StageInv, NEW c \in Conns, Touched(c), Flowing(c)'
  PROVE  Flowing(c) \/ Accepted(c)
<1>0. down[c] \in Seq(DownFrames) /\ Staged(c)
  BY DEF TypeInv, WireType, StageInv
<1>1. CASE Bystander(c)
  BY <1>1 DEF Bystander, Flowing, Following, PeerSame, WorkerSame, PageSame
<1>2. CASE Parted(c) \/ Opened(c)
  BY <1>2 DEF Parted, Opened, Flowing, Following
<1>3. CASE Delivered(c)
  <2>1. NoFin(down[c])
    <3>1. /\ Head(down[c]).tag # "fin" /\ down'[c] = Tail(down[c]) /\ NoFin(down'[c])
          /\ down[c] # <<>>
      BY <1>3 DEF Delivered, Flowing
    <3>2. /\ Len(down[c]) \in Nat /\ DOMAIN down[c] = 1..Len(down[c])
          /\ DOMAIN down'[c] = 1..(Len(down[c]) - 1) /\ Head(down[c]) = down[c][1]
          /\ \A i \in 1..(Len(down[c]) - 1) : down'[c][i] = down[c][i + 1]
      BY <1>0, <3>1, TailFacts
    <3> SUFFICES ASSUME NEW j \in DOMAIN down[c] PROVE down[c][j].tag # "fin"
      BY DEF NoFin
    <3>3. CASE j = 1
      BY <3>1, <3>2, <3>3
    <3>4. CASE j # 1
      <4>1. j - 1 \in 1..(Len(down[c]) - 1) /\ (j - 1) + 1 = j
        BY <3>2, <3>4
      <4> QED BY <3>1, <3>2, <4>1 DEF NoFin
    <3> QED BY <3>3, <3>4
  <2> QED BY <1>3, <2>1 DEF Delivered, Flowing, Following, WorkerSame, PageSame
<1>4. CASE Dropped(c) \/ Handled(c) \/ CloseAsked(c)
  BY <1>4
      DEF Dropped, Handled, CloseAsked, Flowing, Following, PeerSame, WorkerSame,
          PageSame
<1>5. CASE Freed(c) \/ Emptied(c)
  BY <1>5 DEF Freed, Emptied, Flowing
<1>6. CASE Severed(c)
  <2>1. 1 \in DOMAIN down'[c] /\ down'[c][1].tag = "fin"
    BY <1>6 DEF Severed, Fin
  <2> QED BY <2>1 DEF Flowing, NoFin
<1>7. CASE Tuned(c) \/ \E tag \in Tags : Added(c, tag)
  BY <1>7 DEF Tuned, Added, Proceeds, Quiet, Flowing, Following, PageSame
<1>8. CASE Written(c)
  <2>1. /\ Quiet(c) /\ handler[c] # "gone" /\ ~client[c].closed
        /\ sock[c] = "open" /\ NoFin(down'[c])
    BY <1>8 DEF Written, Proceeds, Quiet, Flowing
  <2>2. down'[c] = Append(down[c], Frame(Head(client[c].frames), client[c].send))
    BY <1>8, <2>1 DEF Written
  <2>3. NoFin(down[c])
    BY <1>0, <2>1, <2>2 DEF NoFin
  <2> QED BY <2>1, <2>3 DEF Quiet, PageSame, Flowing, Following
<1> QED BY <1>1, <1>2, <1>3, <1>4, <1>5, <1>6, <1>7, <1>8 DEF Touched

\* The output of a connection stays accounted for.
LEMMA TalliedNext ==
  ASSUME TypeInv, TypeInv', StageInv, Monotone, NEW c \in Conns, Touched(c), Tallied(c)
  PROVE  Tallied(c)'
<1> DEFINE g  == peer[c].got        i0 == OutputFrames(inbox[c])
           g2 == peer'[c].got       i2 == OutputFrames(inbox'[c])
           d0 == OutputFrames(down[c])   q0 == OutputTags(client[c].frames)
           d2 == OutputFrames(down'[c])  q2 == OutputTags(client'[c].frames)
           v  == client[c].given
           v2 == client'[c].given
<1> HIDE DEF g, g2, i0, i2, d0, d2, q0, q2, v, v2
<1>0. /\ inbox[c] \in Seq(PageFrames) /\ down[c] \in Seq(DownFrames)
      /\ inbox'[c] \in Seq(PageFrames) /\ down'[c] \in Seq(DownFrames)
      /\ peer[c] \in PeerState /\ peer'[c] \in PeerState
      /\ client[c] \in ClientState /\ client'[c] \in ClientState
      /\ outs \in Nat /\ outs' \in Nat
  BY Constants DEF TypeInv, PageType, SockType, WireType, WorkerType
<1>m. outs \in Nat /\ outs' \in Nat
  BY <1>0
<1>s. Staged(c)
  BY DEF StageInv
<1>n. /\ g \in Nat /\ i0 \in Nat /\ d0 \in Nat /\ q0 \in Nat /\ v \in Nat
      /\ g2 \in Nat /\ i2 \in Nat /\ d2 \in Nat /\ q2 \in Nat /\ v2 \in Nat
  <2>1. g \in Nat /\ g2 \in Nat
    BY <1>0 DEF g, g2, PeerState
  <2>2. i0 \in Nat /\ i2 \in Nat /\ d0 \in Nat /\ d2 \in Nat
    BY <1>0, FrameCounts DEF i0, i2, d0, d2
  <2>3. q0 \in Nat /\ q2 \in Nat
    BY <1>0, TagCounts DEF q0, q2, ClientState
  <2>4. v \in Nat /\ v2 \in Nat
    BY <1>0 DEF v, v2, ClientState
  <2> QED BY <2>1, <2>2, <2>3, <2>4
<1>t. /\ g + i0 + d0 + q0 <= outs /\ v <= outs
      /\ Flowing(c) => v = g + i0 + d0 + q0
  BY DEF Tallied, Shown, g, i0, d0, q0, v
<1>o. outs <= outs'
  BY <1>0 DEF Monotone
<1>a. ASSUME /\ g2 + i2 + d2 + q2 <= outs' /\ v2 <= outs'
             /\ Flowing(c)' => v2 = g2 + i2 + d2 + q2
      PROVE  Tallied(c)'
  BY <1>a DEF Tallied, Shown, g2, i2, d2, q2, v2
<1>b. ASSUME g2 + i2 + d2 + q2 <= g + i0 + d0 + q0, v2 <= v,
             Flowing(c)' => v2 = v /\ g2 + i2 + d2 + q2 = g + i0 + d0 + q0, ~Accepted(c)
      PROVE  Tallied(c)'
  <2>1. g2 + i2 + d2 + q2 <= outs' /\ v2 <= outs'
    BY <1>b, <1>n, <1>0, <1>t, <1>o
  <2>2. Flowing(c)' => v2 = g2 + i2 + d2 + q2
    BY <1>b, <1>t, FlowBack
  <2> QED BY <1>a, <2>1, <2>2
<1>1. CASE Accepted(c)
  <2>1. /\ inbox'[c] = <<>> /\ down'[c] = Append(<<>>, Frame("nonce", 0))
        /\ client'[c].frames = <<>> /\ client'[c].given = 0 /\ peer'[c].got = 0
    BY <1>1, <1>s DEF Accepted, Staged, NoPeer, NoClient
  <2>2. Frame("nonce", 0) \in DownFrames /\ Frame("nonce", 0).tag # "output"
    BY FrameTypes DEF Frame
  <2>3. OutputFrames(Append(<<>>, Frame("nonce", 0))) = 0
    <3>1. <<>> \in Seq(DownFrames)
      OBVIOUS
    <3> QED BY <2>2, <3>1, FrameCounts
  <2>4. g2 = 0 /\ i2 = 0 /\ d2 = 0 /\ q2 = 0 /\ v2 = 0
    BY <2>1, <2>3, FrameCounts, TagCounts DEF g2, i2, d2, q2, v2
  <2> QED BY <1>0, <1>a, <2>4
<1>2. CASE ~Accepted(c) /\ (Bystander(c) \/ CloseAsked(c) \/ Tuned(c))
  <2>1. /\ inbox'[c] = inbox[c] /\ down'[c] = down[c] /\ peer'[c].got = peer[c].got
        /\ client'[c].frames = client[c].frames /\ client'[c].given = client[c].given
    BY <1>2 DEF Bystander, CloseAsked, Tuned, Proceeds, Quiet, PeerSame, WorkerSame
  <2>2. g2 = g /\ i2 = i0 /\ d2 = d0 /\ q2 = q0 /\ v2 = v
    BY <2>1 DEF g, i0, d0, q0, v, g2, i2, d2, q2, v2
  <2> QED BY <1>2, <1>b, <1>n, <2>2
<1>3. CASE ~Accepted(c) /\ Parted(c)
  <2>1. ~Flowing(c)' /\ i2 = i0 /\ q2 = q0 /\ v2 = v
    BY <1>3 DEF Parted, WorkerSame, Flowing, Following, i0, i2, q0, q2, v, v2
  <2>2. d2 \in {d0, 0}
    BY <1>3, FrameCounts DEF Parted, d0, d2
  <2>3. g2 \in {g, 0}
    BY <1>0, <1>3 DEF Parted, g, g2, NoPeer, PeerState
  <2> QED BY <1>3, <1>b, <1>n, <2>1, <2>2, <2>3
<1>4. CASE ~Accepted(c) /\ Opened(c)
  <2>1. ~Flowing(c)' /\ i2 = 0 /\ d2 = 0 /\ g2 = 0
    BY <1>4, FrameCounts DEF Opened, Flowing, NoPeer, i2, d2, g2
  <2>2. q2 = q0 /\ v2 = v
    BY <1>4 DEF Opened, WorkerSame, q0, q2, v, v2
  <2> QED BY <1>4, <1>b, <1>n, <2>1, <2>2
<1>5. CASE ~Accepted(c) /\ Delivered(c)
  <2>1. /\ down[c] # <<>> /\ inbox'[c] = Append(inbox[c], Head(down[c]))
        /\ down'[c] = Tail(down[c]) /\ Head(down[c]).tag # "fin"
        /\ g2 = g /\ q2 = q0 /\ v2 = v
    BY <1>5 DEF Delivered, WorkerSame, g, g2, q0, q2, v, v2
  <2>2. Head(down[c]) \in PageFrames
    BY <1>0, <2>1, FrameTypes
  <2>3. d0 = IF Head(down[c]).tag = "output" THEN d2 + 1 ELSE d2
    BY <1>0, <2>1, FrameCounts DEF d0, d2
  <2>4. i2 = IF Head(down[c]).tag = "output" THEN i0 + 1 ELSE i0
    BY <1>0, <2>1, <2>2, FrameCounts DEF i0, i2
  <2>5. g2 + i2 + d2 + q2 = g + i0 + d0 + q0
    <3>1. g2 = g /\ q2 = q0
      BY <2>1
    <3>2. i2 + d2 = i0 + d0
      <4>1. \/ d0 = d2 + 1 /\ i2 = i0 + 1
            \/ d0 = d2 /\ i2 = i0
        BY <2>3, <2>4
      <4> QED BY <1>n, <4>1
    <3> QED BY <1>n, <3>1, <3>2
  <2> QED BY <1>5, <1>b, <1>n, <2>1, <2>5
<1>6. CASE ~Accepted(c) /\ (Dropped(c) \/ Handled(c))
  <2>1. /\ inbox[c] # <<>> /\ inbox'[c] = Tail(inbox[c])
        /\ d2 = d0 /\ q2 = q0 /\ v2 = v
    BY <1>6 DEF Dropped, Handled, WorkerSame, d0, d2, q0, q2, v, v2
  <2>2. i0 = IF Head(inbox[c]).tag = "output" THEN i2 + 1 ELSE i2
    BY <1>0, <2>1, FrameCounts DEF i0, i2
  <2>3. CASE Dropped(c)
    <3>1. g2 = g
      BY <2>3 DEF Dropped, PeerSame, g, g2
    <3>2. Flowing(c)' => Head(inbox[c]).tag = "nonce"
      BY <2>3 DEF Dropped, PageSame, Flowing, Following
    <3> QED BY <1>6, <1>b, <1>n, <2>1, <2>2, <3>1, <3>2
  <2>4. CASE Handled(c)
    <3>1. g2 = IF Head(inbox[c]).tag = "output" THEN g + 1 ELSE g
      BY <2>4 DEF Handled, g, g2
    <3>2. g2 + i2 + d2 + q2 = g + i0 + d0 + q0
      BY <1>n, <2>1, <2>2, <3>1
    <3> QED BY <1>6, <1>b, <1>n, <2>1, <3>2
  <2> QED BY <1>6, <2>3, <2>4
<1>7. ASSUME NEW code \in Codes, HangsUp(c, code) PROVE d2 = d0
  <2>1. Fin(code) \in DownFrames /\ Fin(code).tag # "output"
    BY FrameTypes DEF Fin
  <2> QED BY <1>0, <1>7, <2>1, FrameCounts DEF HangsUp, d0, d2
<1>8. CASE ~Accepted(c) /\ (Freed(c) \/ Emptied(c))
  <2>1. /\ Quiet(c) /\ ~Flowing(c)' /\ d2 = d0
        /\ client'[c].frames = <<>> /\ client'[c].given \in {0, client[c].given}
    BY <1>7, <1>8 DEF Freed, Emptied, Proceeds, Flowing, NoClient, Codes
  <2>2. g2 = g /\ i2 = i0 /\ q2 = 0 /\ v2 \in {0, v}
    BY <2>1, TagCounts DEF Quiet, g, g2, i0, i2, q2, v, v2
  <2> QED BY <1>8, <1>b, <1>n, <2>1, <2>2
<1>9. ASSUME ~Accepted(c), NEW tag \in Tags, Added(c, tag) PROVE Tallied(c)'
  <2>1. g2 = g /\ i2 = i0 /\ d2 = d0
    BY <1>9 DEF Added, Proceeds, Quiet, g, g2, i0, i2, d0, d2
  <2>2. v2 = IF tag = "output" THEN v + 1 ELSE v
    BY <1>9 DEF Added, Counted, v, v2
  <2>3. q2 = IF tag = "output" THEN q0 + 1 ELSE q0
    BY <1>0, <1>9, TagCounts DEF Added, ClientState, q0, q2
  <2>4. CASE tag # "output"
    BY <1>9, <1>b, <1>n, <2>1, <2>2, <2>3, <2>4
  <2>5. CASE tag = "output"
    <3>1. outs' = outs + 1
      BY <1>9, <2>5 DEF Added
    <3>2. g2 + i2 + d2 + q2 <= outs' /\ v2 <= outs'
      <4>1. v2 = v + 1 /\ q2 = q0 + 1
        BY <2>2, <2>3, <2>5
      <4> QED BY <1>m, <1>n, <1>t, <2>1, <3>1, <4>1
    <3>3. Flowing(c)' => v2 = g2 + i2 + d2 + q2
      <4>1. Flowing(c)' => v = g + i0 + d0 + q0
        BY <1>9, <1>t, FlowBack
      <4> QED BY <1>n, <2>1, <2>2, <2>3, <2>5, <4>1
    <3> QED BY <1>a, <3>2, <3>3
  <2> QED BY <2>4, <2>5
<1>10. CASE ~Accepted(c) /\ Written(c)
  <2> DEFINE f == Head(client[c].frames)
  <2>1. /\ client[c].frames # <<>> /\ client'[c].frames = Tail(client[c].frames)
        /\ g2 = g /\ i2 = i0 /\ v2 = v
    BY <1>10 DEF Written, Proceeds, Quiet, g, g2, i0, i2, v, v2
  <2>2. q0 = IF f = "output" THEN q2 + 1 ELSE q2
    BY <1>0, <2>1, TagCounts DEF ClientState, q0, q2
  <2>3. CASE sock[c] # "open"
    <3>1. d2 = d0 /\ ~Flowing(c)'
      BY <1>10, <2>3 DEF Written, Proceeds, Quiet, Flowing, d0, d2
    <3> QED BY <1>10, <1>b, <1>n, <2>1, <2>2, <3>1
  <2>4. CASE sock[c] = "open"
    <3>1. Frame(f, client[c].send) \in DownFrames /\ Frame(f, client[c].send).tag = f
      <4>1. f \in Tags /\ client[c].send \in 0..LastCounter
        BY <1>0, <2>1 DEF ClientState
      <4> QED BY <4>1, FrameTypes DEF Frame
    <3>2. d2 = IF f = "output" THEN d0 + 1 ELSE d0
      <4>1. down'[c] = Append(down[c], Frame(f, client[c].send))
        BY <1>10, <2>4 DEF Written
      <4> QED BY <1>0, <3>1, <4>1, FrameCounts DEF d0, d2
    <3>3. g2 + i2 + d2 + q2 = g + i0 + d0 + q0
      BY <1>n, <2>1, <2>2, <3>2
    <3> QED BY <1>10, <1>b, <1>n, <2>1, <3>3
  <2> QED BY <2>3, <2>4
<1>11. CASE ~Accepted(c) /\ Severed(c)
  <2>1. /\ ~Flowing(c)' /\ g2 = g /\ i2 = i0 /\ q2 = q0 /\ v2 = v
    <3>1. 1 \in DOMAIN down'[c] /\ down'[c][1].tag = "fin"
      BY <1>11 DEF Severed, Fin
    <3> QED BY <1>11, <3>1
        DEF Severed, Quiet, WorkerSame, Flowing, NoFin, g, g2, i0, i2, q0, q2, v, v2
  <2>2. d2 = 0
    <3>1. down'[c] = Append(<<>>, Fin(1006)) /\ Fin(1006).tag # "output"
      BY <1>11 DEF Severed, Fin
    <3>2. Fin(1006) \in DownFrames /\ <<>> \in Seq(DownFrames)
      BY FrameTypes DEF Codes
    <3>3. ASSUME NEW e \in DownFrames, e.tag # "output"
          PROVE  OutputFrames(Append(<<>>, e)) = 0
      <4>1. \A s \in Seq(DownFrames) : OutputFrames(Append(s, e)) = OutputFrames(s)
        BY <3>3, FrameCounts
      <4> QED BY <3>2, <4>1, FrameCounts
    <3> QED BY <3>1, <3>2, <3>3 DEF d2
  <2> QED BY <1>11, <1>b, <1>n, <2>1, <2>2
<1> QED BY <1>1, <1>2, <1>3, <1>4, <1>5, <1>6, <1>8, <1>9, <1>10, <1>11 DEF Touched

\* A step of the system keeps the output accounted for.
LEMMA TallyNext == BaseInv /\ TallyInv /\ [Next]_vars => TallyInv'
  BY BaseNext, StepTouches, TalliedNext DEF BaseInv, TallyInv

\* There is no output at first.
LEMMA TallyInit == Init => TallyInv
<1> SUFFICES ASSUME Init, NEW c \in Conns PROVE Tallied(c)
  BY DEF TallyInv
<1>1. /\ peer[c].got = 0 /\ inbox[c] = <<>> /\ down[c] = <<>> /\ client[c].frames = <<>>
      /\ client[c].given = 0 /\ outs = 0
  BY DEF Init, NoPeer, NoClient
<1>2. OutputFrames(inbox[c]) = 0 /\ OutputFrames(down[c]) = 0 /\ OutputTags(client[c].frames) = 0
  BY <1>1, FrameCounts, TagCounts
<1>3. Shown(c) = 0
  BY <1>1, <1>2 DEF Shown
<1> QED BY <1>1, <1>3 DEF Tallied

\* Terminal output has no holes (outboundQueue.push, writeLoop): everything pushed to a
\* connection whose queue is open is queued, on its way or shown.
THEOREM OutputNeverHasHoles == Spec => []OutputHasNoHoles
<1>1. Init => BaseInv /\ TallyInv
  BY BaseInit, TallyInit DEF BaseInv
<1>2. BaseInv /\ TallyInv /\ [Next]_vars => (BaseInv /\ TallyInv)'
  BY BaseNext, TallyNext
<1>3. TallyInv => OutputHasNoHoles
  <2> SUFFICES ASSUME TallyInv, NEW c \in Conns, Sound(c), ~client[c].closed,
                      handler[c] = "serving"
               PROVE  client[c].given = Shown(c)
    BY DEF OutputHasNoHoles, Shown
  <2>1. Flowing(c)
    BY DEF Sound, Flowing, Following, NoFin
  <2> QED BY <2>1 DEF TallyInv, Tallied
<1> QED BY <1>1, <1>2, <1>3, PTL DEF Spec

\* The state has its type: the queue keeps to MaxClientQueueBytes, no counter passes its
\* last value (Seal, Open, encryptFrame, decryptFrame), and no output is shown twice.
THEOREM ChannelTypeCorrect == Spec => []TypeOK
<1>1. Init => BaseInv /\ TallyInv
  BY BaseInit, TallyInit DEF BaseInv
<1>2. BaseInv /\ TallyInv /\ [Next]_vars => (BaseInv /\ TallyInv)'
  BY BaseNext, TallyNext
<1>3. BaseInv /\ TallyInv => TypeOK
  <2> SUFFICES ASSUME BaseInv, TallyInv PROVE TypeOK
    OBVIOUS
  <2>0. TypeInv /\ StageInv
    BY DEF BaseInv
  <2>1. /\ page \in PageState /\ {frozen, current, live} \subseteq BOOLEAN
        /\ causes \subseteq Causes
        /\ outs \in 0..Outputs /\ bothers \in 0..Disturbances
        /\ why \in {"none", "rejected", "poisoned", "stale", "acknowledged", "refused", "ended"}
    BY <2>0 DEF TypeInv, PageType
  <2>2. /\ sock \in [Conns -> {"closed", "connecting", "open", "closing"}]
        /\ handler \in [Conns -> Handlers]
    BY <2>0 DEF TypeInv, SockType, WorkerType
  <2>3. ASSUME NEW c \in Conns
        PROVE  peer[c].got \in 0..Outputs /\ client[c].given \in 0..Outputs
    <3> DEFINE g == peer[c].got
               i == OutputFrames(inbox[c])
               d == OutputFrames(down[c])
               q == OutputTags(client[c].frames)
               v == client[c].given
    <3>1. g \in Nat /\ v \in Nat
      BY <2>0 DEF TypeInv, SockType, WorkerType, PeerState, ClientState
    <3>2. i \in Nat /\ d \in Nat
      BY <2>0, FrameCounts DEF TypeInv, SockType, WireType
    <3>3. q \in Nat
      <4>1. client[c].frames \in Seq(Tags)
        BY <2>0 DEF TypeInv, WorkerType, ClientState
      <4> QED BY <4>1, TagCounts
    <3>4. g + i + d + q <= outs /\ v <= outs
      BY DEF TallyInv, Tallied, Shown
    <3> HIDE DEF g, i, d, q, v
    <3>5. g \in 0..Outputs /\ v \in 0..Outputs
      BY <2>1, <3>1, <3>2, <3>3, <3>4, Constants
    <3> QED BY <3>5 DEF g, v
  <2>4. peer \in [Conns -> [auth : BOOLEAN, poisoned : BOOLEAN, superseded : BOOLEAN,
                            send : 0..LastCounter, recv : 0..LastCounter, got : 0..Outputs]]
    <3>1. peer \in [Conns -> PeerState]
      BY <2>0 DEF TypeInv, SockType
    <3>2. ASSUME NEW c \in Conns
          PROVE  peer[c] \in [auth : BOOLEAN, poisoned : BOOLEAN, superseded : BOOLEAN,
                              send : 0..LastCounter, recv : 0..LastCounter, got : 0..Outputs]
      <4>1. peer[c] \in PeerState /\ peer[c].got \in 0..Outputs
        BY <2>3, <3>1
      <4> QED BY <4>1 DEF PeerState
    <3> QED BY <3>1, <3>2
  <2>5. ASSUME NEW c \in Conns
        PROVE  /\ inbox[c] \in Seq(DownFrames) /\ down[c] \in Seq(DownFrames)
               /\ outbox[c] \in Seq(UpTags) /\ up[c] \in Seq(UpFrames)
    <3>1. /\ inbox[c] \in Seq(PageFrames) /\ down[c] \in Seq(DownFrames)
          /\ outbox[c] \in Seq(UpTags) /\ up[c] \in Seq(UpFrames)
      BY <2>0 DEF TypeInv, SockType, WireType
    <3>2. PageFrames \subseteq DownFrames
      BY FrameTypes
    <3>3. inbox[c] \in Seq(DownFrames)
      BY <3>1, <3>2
    <3> QED BY <3>1, <3>3
  <2>6. ASSUME NEW c \in Conns
        PROVE  /\ client[c].frames \in Seq(Tags) /\ Len(client[c].frames) <= QueueLimit
               /\ {client[c].closed, client[c].final} \subseteq BOOLEAN
               /\ {client[c].send, client[c].recv} \subseteq 0..LastCounter
               /\ client[c].viewer \in Viewers
    <3>1. client[c] \in ClientState
      BY <2>0 DEF TypeInv, WorkerType
    <3>2. Len(client[c].frames) <= QueueLimit
      BY <2>0 DEF StageInv, Staged
    <3> QED BY <3>1, <3>2 DEF ClientState
  <2> QED BY <2>1, <2>2, <2>3, <2>4, <2>5, <2>6
      DEF TypeOK, PageState, Handlers, UpFrames, Viewers
<1> QED BY <1>1, <1>2, <1>3, PTL DEF Spec

-----------------------------------------------------------------------------
\* Nobody but the user asks to close, and nobody but the worker ends

\* Frames to the worker that are not a request to close.
Harmless == {f \in UpFrames : f.tag # "close"}

\* The user has asked to close, or no request to close is under way.
Asked ==
    \/ "asked" \in causes
    \/ /\ ~page.closing
       /\ outbox \in [Conns -> Seq(UpTags \ {"close"})]
       /\ up \in [Conns -> Seq(Harmless)]

\* Only the page's connection, or one it has replaced, has frames still to encrypt.
Muted == \A c \in Conns : outbox[c] # <<>> => page.conn = c \/ peer[c].superseded

\* No frame tag is under way to the page of connection c.
Calm(c, tag) ==
    /\ inbox[c] \in Seq({f \in PageFrames : f.tag # tag})
    /\ down[c] \in Seq({f \in DownFrames : f.tag # tag})
    /\ client[c].frames \in Seq(Tags \ {tag})

\* Why a connection may have what stops the page.
Caused(c) ==
    /\ sock[c] \in {"connecting", "open"} => page.conn = c
    /\ inbox[c] # <<>> /\ ~peer[c].superseded /\ page.conn # c => "left" \in causes
    /\ "asked" \in causes \/ Calm(c, "close")
    /\ live => Calm(c, "shutdown")
    /\ ~live \/ "unavailable" \in causes \/ Calm(c, "error_stop")
    /\ current => down[c] \in Seq(DownFrames \ {Fin(1008)})

\* What stops the page has its cause, on every connection.
CauseInv == Asked /\ Muted /\ \A c \in Conns : Caused(c)

\* What is queued and sent without asking to close.
LEMMA HarmlessFrames ==
  /\ Fin(1006) \in Harmless /\ Frame("nonce", 0) \in Harmless
  /\ \A tag \in UpTags \ {"close"}, n \in 0..LastCounter : Frame(tag, n) \in Harmless
<1>1. Fin(1006) \in UpFrames /\ Fin(1006).tag # "close"
  BY FrameTypes DEF Fin, Codes
<1>2. 0 \in 0..LastCounter /\ "nonce" \in UpTags \ {"close"}
  BY Constants DEF UpTags
<1>3. \A tag \in UpTags \ {"close"}, n \in 0..LastCounter :
         Frame(tag, n) \in UpFrames /\ Frame(tag, n).tag # "close"
  BY FrameTypes DEF Frame
<1> QED BY <1>1, <1>2, <1>3 DEF Harmless

\* Only closeSession asks to close.
LEMMA AskedNext ==
  ASSUME TypeInv, Asked, Monotone, [Next]_vars
  PROVE  Asked'
<1> DEFINE Q == UpTags \ {"close"}
           Still == /\ ~page'.closing /\ outbox' \in [Conns -> Seq(Q)]
                    /\ up' \in [Conns -> Seq(Harmless)]
<1> SUFFICES ASSUME "asked" \notin causes, "asked" \notin causes' PROVE Still
  BY DEF Asked, Monotone
<1>0. /\ ~page.closing /\ outbox \in [Conns -> Seq(Q)] /\ up \in [Conns -> Seq(Harmless)]
      /\ page \in PageState /\ peer \in [Conns -> PeerState]
  BY DEF Asked, TypeInv, PageType, SockType
<1>1. ASSUME NEW c PROVE Hangup(c) \in [Conns -> Seq(Harmless)]
  BY <1>0, HarmlessFrames DEF Hangup
<1>2. ASSUME UNCHANGED <<page, outbox>>,
             UNCHANGED up \/ \E c \in Conns : \E s \in Seq(Harmless) : up' = [up EXCEPT ![c] = s]
      PROVE  Still
  BY <1>0, <1>2
<1>3. ASSUME NEW c \in Conns,
             \/ Authenticate(c) \/ Join(c) \/ Write(c) \/ FinishClose(c) \/ SendReady(c)
             \/ StartViewer(c) \/ TellEnded(c) \/ Input(c) \/ Close(c) \/ RunEnds(c)
             \/ HandshakeEnds(c) \/ OpenFails(c) \/ Output(c) \/ ViewerEnds(c)
             \/ ViewerFails(c)
      PROVE  Still
  <2>1. UNCHANGED <<page, outbox>>
    BY <1>3, WorkerAside DEF Aside
  <2>2. \/ UNCHANGED up
        \/ up' = [up EXCEPT ![c] = <<>>]
        \/ up' = [up EXCEPT ![c] = SubSeq(@, 3, Len(@))]
        \/ up[c] # <<>> /\ up' = [up EXCEPT ![c] = Tail(@)]
    BY <1>3
        DEF Authenticate, Join, Write, FinishClose, SendReady, StartViewer, TellEnded,
            Input, Close, RunEnds, HandshakeEnds, OpenFails, Output, ViewerEnds,
            ViewerFails, wireVars, Leave, Return, Ends, Taken, Serving, Reads
  <2>3. up[c] \in Seq(Harmless)
    BY <1>0
  <2>4. <<>> \in Seq(Harmless) /\ SubSeq(up[c], 3, Len(up[c])) \in Seq(Harmless)
    BY <2>3
  <2>5. up[c] # <<>> => Tail(up[c]) \in Seq(Harmless)
    BY <2>3
  <2> HIDE DEF Still
  <2> QED BY <1>2, <2>1, <2>2, <2>4, <2>5
<1>4. ASSUME NEW c \in Conns, Accept(c) \/ Cut(c) \/ Deliver(c) PROVE Still
  <2>1. UNCHANGED <<page, outbox>>
    BY <1>4 DEF Accept, Cut, Deliver, pageVars, sockVars
  <2> DEFINE s == <<Fin(1006)>>
  <2>2. UNCHANGED up \/ up' = [up EXCEPT ![c] = s]
    BY <1>4 DEF Accept, Cut, Deliver
  <2>3. s \in Seq(Harmless)
    BY HarmlessFrames
  <2> HIDE DEF s
  <2> HIDE DEF Still
  <2> QED BY <1>2, <2>1, <2>2, <2>3
<1>5. ASSUME Hide \/ Rotate \/ Shutdown \/ UNCHANGED vars PROVE Still
  <2>1. UNCHANGED <<page, outbox, up>>
    BY <1>5 DEF Hide, Rotate, Shutdown, vars, pageVars, sockVars, wireVars
  <2> QED BY <1>2, <2>1
<1>6. ASSUME NEW c \in Conns, Replace(c) PROVE Still
  <2>1. page' = [page EXCEPT !.conn = c, !.shown = None, !.closing = FALSE, !.timer = FALSE]
    BY <1>6 DEF Replace
  <2>2. ~page'.closing
    BY <1>0, <2>1 DEF PageState
  <2>3. outbox' \in [Conns -> Seq(Q)]
    BY <1>0, <1>6 DEF Replace, Open
  <2>4. up' = [Hangup(page.conn) EXCEPT ![c] = <<>>]
    BY <1>6 DEF Replace
  <2>5. up' \in [Conns -> Seq(Harmless)]
    BY <1>1, <2>4
  <2> QED BY <2>2, <2>3, <2>5
<1>7. ASSUME NEW c \in Conns, Connect(c) PROVE Still
  <2>1. page'.closing = page.closing
    BY <1>0, <1>7 DEF Connect, PageState
  <2>2. \/ UNCHANGED <<outbox, up>>
        \/ outbox' = [outbox EXCEPT ![c] = <<>>] /\ up' = [up EXCEPT ![c] = <<>>]
    BY <1>7 DEF Connect, Open, sockVars, wireVars
  <2>3. ASSUME UNCHANGED <<outbox, up>> PROVE Still
    BY <1>0, <2>1, <2>3
  <2>4. ASSUME outbox' = [outbox EXCEPT ![c] = <<>>], up' = [up EXCEPT ![c] = <<>>]
        PROVE  Still
    <3>1. outbox' \in [Conns -> Seq(Q)]
      BY <1>0, <2>4
    <3>2. up' \in [Conns -> Seq(Harmless)]
      BY <1>0, <2>4
    <3> QED BY <1>0, <2>1, <3>1, <3>2
  <2> HIDE DEF Still
  <2> QED BY <2>2, <2>3, <2>4
<1>8. ASSUME NEW c \in Conns, NEW code \in Codes, CloseEvent(c, code) PROVE Still
  <2>1. ~page'.closing
    <3>1. CASE page.conn # c
      BY <1>0, <1>8, <3>1 DEF CloseEvent
    <3>2. CASE page.conn = c
      <4>1. page' = [page EXCEPT !.conn = None, !.shown = None, !.closing = FALSE,
                                 !.stopped = @ \/ code = 1008, !.timer = Reconnects(code)]
        BY <1>8, <3>2, Zenon DEF CloseEvent
      <4> QED BY <1>0, <4>1 DEF PageState
    <3> QED BY <3>1, <3>2
  <2>2. /\ outbox' = [outbox EXCEPT ![c] = <<>>]
        /\ up' = [up EXCEPT ![c] = IF handler[c] = "gone" THEN <<>> ELSE @]
    BY <1>8 DEF CloseEvent
  <2> QED BY <1>0, <2>1, <2>2
<1>9. ASSUME NEW c \in Conns, Refused(c) PROVE Still
  <2>1. page'.closing = page.closing
    BY <1>0, <1>9 DEF Refused, PageState
  <2> QED BY <1>0, <1>9, <2>1 DEF Refused, wireVars
<1>10. ASSUME NEW c \in Conns, Poison(c) PROVE Still
  <2>1. PageSame
    BY <1>10, PoisonKeeps
  <2> QED BY <1>0, <1>1, <1>10, <2>1 DEF Poison, PageSame
<1>11. ASSUME NEW c \in Conns, NEW tag \in Q, QueueFrame(c, tag)
       PROVE  outbox' \in [Conns -> Seq(Q)]
  BY <1>0, <1>11 DEF QueueFrame
<1>12. ASSUME NEW c \in Conns, Receive(c) PROVE Still
  <2> DEFINE f == Head(inbox[c])
  <2>1. CASE UNCHANGED <<page, outbox, up>>
    BY <1>0, <2>1
  <2>2. CASE Greet(c)
    <3>1. "hello" \in Q
      BY DEF UpTags
    <3>2. outbox' \in [Conns -> Seq(Q)]
      BY <1>11, <2>2, <3>1 DEF Greet
    <3>3. Append(up[c], Frame("nonce", 0)) \in Seq(Harmless)
      <4>1. up[c] \in Seq(Harmless)
        BY <1>0
      <4> QED BY <4>1, HarmlessFrames
    <3>4. up' \in [Conns -> Seq(Harmless)]
      BY <1>0, <2>2, <3>3 DEF Greet
    <3> QED BY <1>0, <2>2, <3>2, <3>4 DEF Greet
  <2>3. CASE Handle(c, f.tag) /\ f.tag # "nonce"
    <3>1. f.tag \in Tags
      BY <1>12, <2>3, FrameTypes DEF Receive, TypeInv, SockType
    <3>2. ~page'.closing
      BY <1>0, <2>3, <3>1 DEF Handle, Tags, FinalTags, PageState
    <3>3. up' = up \/ up' = Hangup(c)
      BY <2>3, <3>1 DEF Handle, Tags, FinalTags
    <3> QED BY <1>0, <1>1, <2>3, <3>2, <3>3 DEF Handle
  <2> QED BY <1>10, <1>12, <2>1, <2>2, <2>3 DEF Receive
<1>13. ASSUME NEW c \in Conns, Send(c) PROVE Still
  <2>1. CASE Poison(c)
    BY <1>10, <2>1
  <2>2. CASE /\ outbox' = [outbox EXCEPT ![c] = Tail(@)] /\ UNCHANGED page
             /\ \/ UNCHANGED up
                \/ up' = [up EXCEPT ![c] = IF sock[c] = "open"
                                           THEN Append(@, Frame(Head(outbox[c]), peer[c].send))
                                           ELSE @]
    <3>1. outbox[c] \in Seq(Q) /\ outbox[c] # <<>>
      BY <1>0, <1>13 DEF Send
    <3>2. Head(outbox[c]) \in Q /\ Tail(outbox[c]) \in Seq(Q)
      BY <3>1
    <3>3. peer[c].send \in 0..LastCounter
      BY <1>0 DEF PeerState
    <3>4. Frame(Head(outbox[c]), peer[c].send) \in Harmless
      BY <3>2, <3>3, HarmlessFrames
    <3>5. Append(up[c], Frame(Head(outbox[c]), peer[c].send)) \in Seq(Harmless)
      <4>1. up[c] \in Seq(Harmless)
        BY <1>0
      <4> QED BY <3>4, <4>1
    <3>6. up' \in [Conns -> Seq(Harmless)]
      BY <1>0, <2>2, <3>5
    <3> QED BY <1>0, <2>2, <3>2, <3>6
  <2>3. peer[c].poisoned \in BOOLEAN
    BY <1>0 DEF PeerState
  <2> QED BY <1>13, <2>1, <2>2, <2>3 DEF Send
<1>14. ASSUME NEW c \in Conns, Type(c) PROVE Still
  <2>1. "input" \in Q
    BY DEF UpTags
  <2>2. outbox' \in [Conns -> Seq(Q)]
    BY <1>11, <1>14, <2>1 DEF Type
  <2> QED BY <1>0, <1>14, <2>2 DEF Type, pageVars, wireVars
<1>15. ASSUME NEW c \in Conns, CloseSession(c) PROVE Still
  BY <1>15 DEF CloseSession, Noted
<1>16. ASSUME NEW c \in Conns, ReconnectNow(c) \/ Show(c) PROVE Still
  <2>1. Replace(c) \/ UNCHANGED <<page, outbox, up>>
    BY <1>16 DEF ReconnectNow, Show, sockVars, wireVars
  <2> QED BY <1>2, <1>6, <2>1
<1> HIDE DEF Still
<1> QED BY <1>3, <1>4, <1>5, <1>7, <1>8, <1>9, <1>12, <1>13, <1>14, <1>15, <1>16
    DEF Next, Runs, Failure, Done

\* Frames are queued on the page's connection, and dropped when it closes by itself.
LEMMA MutedNext ==
  ASSUME BaseInv, Muted, [Next]_vars
  PROVE  Muted'
<1> USE Constants
<1>0. /\ outbox \in [Conns -> Seq(UpTags)] /\ peer \in [Conns -> PeerState]
      /\ page \in PageState
  BY DEF BaseInv, TypeInv, PageType, SockType
<1>1. ASSUME page'.conn = page.conn,
             \A d \in Conns : peer'[d].superseded = peer[d].superseded,
             \A d \in Conns : outbox'[d] # <<>> => outbox[d] # <<>> \/ page.conn = d
      PROVE  Muted'
  BY <1>1 DEF Muted
<1>2. CASE UNCHANGED <<page, peer, outbox>>
  BY <1>1, <1>2
<1>3. ASSUME NEW c \in Conns, outbox'[c] = <<>>, page'.conn # page.conn => page.conn \in {c, None},
             \A d \in Conns \ {c} : outbox'[d] = outbox[d] /\ peer'[d] = peer[d]
      PROVE  Muted'
  BY <1>3 DEF Muted
<1>4. ASSUME NEW c \in Conns, Replace(c) PROVE Muted'
  <2>1. outbox' = [outbox EXCEPT ![c] = <<>>]
    BY <1>4 DEF Replace, Open
  <2>2. page'.conn = c
    BY <1>0, <1>4 DEF Replace, PageState
  <2>3. \A d \in Conns \ {c} : peer'[d].superseded <=> peer[d].superseded \/ page.conn = d
    BY <1>0, <1>4 DEF Replace, PeerState
  <2> QED BY <1>0, <2>1, <2>2, <2>3 DEF Muted
<1>5. ASSUME NEW c \in Conns, Connect(c) PROVE Muted'
  <2>1. page.conn = None
    BY <1>5 DEF Connect, BaseInv, PageInv
  <2>2. CASE page.stopped
    <3>1. page'.conn = page.conn /\ UNCHANGED <<peer, outbox>>
      BY <1>0, <1>5, <2>2 DEF Connect, sockVars, PageState
    <3> QED BY <1>1, <3>1
  <2>3. CASE ~page.stopped
    <3>1. peer' = [peer EXCEPT ![c] = NoPeer] /\ outbox' = [outbox EXCEPT ![c] = <<>>]
      BY <1>5, <2>3 DEF Connect, Open
    <3> QED BY <1>0, <1>3, <2>1, <3>1
  <2> QED BY <2>2, <2>3
<1>6. ASSUME NEW c \in Conns, NEW code \in Codes, CloseEvent(c, code) PROVE Muted'
  <2>1. /\ peer' = [peer EXCEPT ![c] = IF inbox[c] = <<>> THEN NoPeer ELSE @]
        /\ outbox' = [outbox EXCEPT ![c] = <<>>]
        /\ page.conn # c => UNCHANGED page
    BY <1>6 DEF CloseEvent
  <2> QED BY <1>0, <1>3, <2>1
<1>7. ASSUME NEW c \in Conns, Refused(c) PROVE Muted'
  <2>1. outbox[c] = <<>>
    BY <1>7 DEF Refused, BaseInv, StageInv, Staged
  <2>2. UNCHANGED <<peer, outbox>> /\ (page.conn # c => UNCHANGED page)
    BY <1>7 DEF Refused
  <2> QED BY <1>3, <2>1, <2>2
<1>8. ASSUME NEW c \in Conns, Poison(c) PROVE Muted'
  <2>1. PageSame
    BY <1>8, PoisonKeeps DEF BaseInv
  <2>2. \A d \in Conns : peer'[d].superseded = peer[d].superseded
    BY <1>0, <1>8 DEF Poison, PeerState
  <2> QED BY <1>1, <1>8, <2>1, <2>2 DEF Poison, PageSame
<1>9. ASSUME NEW c \in Conns, page.conn = c, page'.conn = page.conn, UNCHANGED peer,
             NEW tag, QueueFrame(c, tag)
      PROVE  Muted'
  BY <1>0, <1>1, <1>9 DEF QueueFrame
<1>10. ASSUME NEW c \in Conns, Receive(c) PROVE Muted'
  <2> DEFINE f == Head(inbox[c])
  <2>1. CASE UNCHANGED <<page, peer, outbox>>
    BY <1>2, <2>1
  <2>2. CASE page.conn = c /\ Greet(c)
    BY <1>9, <2>2 DEF Greet
  <2>3. CASE Handle(c, f.tag) /\ f.tag # "nonce"
    <3>1. f.tag \in Tags
      BY <1>10, <2>3, FrameTypes DEF Receive, BaseInv, TypeInv, SockType
    <3>2. page'.conn = page.conn
      BY <1>0, <2>3, <3>1 DEF Handle, Tags, FinalTags, PageState
    <3>3. \A d \in Conns : peer'[d].superseded = peer[d].superseded
      BY <1>0, <2>3 DEF Handle, PeerState
    <3> QED BY <1>1, <2>3, <3>2, <3>3 DEF Handle
  <2> QED BY <1>8, <1>10, <2>1, <2>2, <2>3 DEF Receive, IsCurrent
<1>11. ASSUME NEW c \in Conns, Send(c) PROVE Muted'
  <2>1. CASE Poison(c)
    BY <1>8, <2>1
  <2>2. CASE /\ UNCHANGED page /\ outbox' = [outbox EXCEPT ![c] = Tail(@)]
             /\ peer' \in {peer, [peer EXCEPT ![c].send = @ + 1]}
    <3>1. \A d \in Conns : peer'[d].superseded = peer[d].superseded
      <4>1. [peer[c] EXCEPT !.send = @ + 1].superseded = peer[c].superseded
        BY <1>0 DEF PeerState
      <4> QED BY <1>0, <2>2, <4>1
    <3>2. outbox[c] # <<>> /\ \A d \in Conns \ {c} : outbox'[d] = outbox[d]
      BY <1>0, <1>11, <2>2 DEF Send
    <3> QED BY <1>1, <2>2, <3>1, <3>2
  <2>3. peer[c].poisoned \in BOOLEAN
    BY <1>0 DEF PeerState
  <2> QED BY <1>11, <2>1, <2>2, <2>3 DEF Send
<1>12. ASSUME NEW c \in Conns, Type(c) \/ CloseSession(c) PROVE Muted'
  <2>1. page'.conn = page.conn /\ page.conn = c /\ UNCHANGED peer
    BY <1>0, <1>12 DEF Type, CloseSession, PageState, pageVars
  <2> QED BY <1>9, <1>12, <2>1 DEF Type, CloseSession
<1>13. ASSUME NEW c \in Conns, Accept(c) \/ Cut(c) \/ Deliver(c) PROVE Muted'
  BY <1>2, <1>13 DEF Accept, Cut, Deliver, pageVars, sockVars
<1>14. ASSUME NEW c \in Conns,
              \/ Authenticate(c) \/ Join(c) \/ Write(c) \/ FinishClose(c) \/ SendReady(c)
              \/ StartViewer(c) \/ TellEnded(c) \/ Input(c) \/ Close(c) \/ RunEnds(c)
              \/ HandshakeEnds(c) \/ OpenFails(c) \/ Output(c) \/ ViewerEnds(c)
              \/ ViewerFails(c)
       PROVE  Muted'
  BY <1>2, <1>14, WorkerAside DEF Aside
<1>15. ASSUME NEW c \in Conns, ReconnectNow(c) \/ Show(c) PROVE Muted'
  <2>1. Replace(c) \/ UNCHANGED <<page, peer, outbox>>
    BY <1>15 DEF ReconnectNow, Show, sockVars
  <2> QED BY <1>2, <1>4, <2>1
<1>16. CASE Hide \/ Rotate \/ Shutdown \/ UNCHANGED vars
  BY <1>2, <1>16 DEF Hide, Rotate, Shutdown, vars, pageVars, sockVars
<1> QED BY <1>5, <1>6, <1>7, <1>10, <1>11, <1>12, <1>13, <1>14, <1>15, <1>16
    DEF Next, Runs, Failure, Done

\* What a step lets arrive and puts on the way: what has arrived stays in P and what is on
\* the way in D, if what the worker writes is in D and D's frames may arrive.
LEMMA Carried ==
  ASSUME TypeInv, NEW c \in Conns, Touched(c), NEW P, NEW D,
         inbox[c] \in Seq(P), down[c] \in Seq(D),
         \A f \in D : f.tag # "fin" => f \in P,
         Frame("nonce", 0) \in D, Fin(1006) \in D, Fin(1013) \in D, Fin(1008) \in D \/ current,
         Written(c) => Frame(Head(client[c].frames), client[c].send) \in D
  PROVE  inbox'[c] \in Seq(P) /\ down'[c] \in Seq(D)
<1>0. <<>> \in Seq(P) /\ <<>> \in Seq(D)
  OBVIOUS
<1>1. CASE Delivered(c)
  <2>1. /\ down[c] # <<>> /\ Head(down[c]).tag # "fin"
        /\ inbox'[c] = Append(inbox[c], Head(down[c])) /\ down'[c] = Tail(down[c])
    BY <1>1 DEF Delivered
  <2>2. Head(down[c]) \in D /\ Tail(down[c]) \in Seq(D)
    BY <2>1
  <2>3. Head(down[c]) \in P
    BY <2>1, <2>2
  <2> QED BY <2>1, <2>2, <2>3
<1>2. CASE Dropped(c) \/ Handled(c)
  <2>1. inbox[c] # <<>> /\ inbox'[c] = Tail(inbox[c]) /\ down'[c] = down[c]
    BY <1>2 DEF Dropped, Handled
  <2> QED BY <2>1
<1>3. CASE Bystander(c) \/ Parted(c) \/ Opened(c) \/ CloseAsked(c)
  <2>1. inbox'[c] = inbox[c] \/ inbox'[c] = <<>>
    BY <1>3 DEF Bystander, Parted, Opened, CloseAsked
  <2>2. down'[c] = down[c] \/ down'[c] = <<>>
    BY <1>3 DEF Bystander, Parted, Opened, CloseAsked
  <2>3. inbox'[c] \in Seq(P)
    <3>1. CASE inbox'[c] = inbox[c]
      BY <3>1
    <3>2. CASE inbox'[c] = <<>>
      BY <1>0, <3>2
    <3> QED BY <2>1, <3>1, <3>2
  <2>4. down'[c] \in Seq(D)
    <3>1. CASE down'[c] = down[c]
      BY <3>1
    <3>2. CASE down'[c] = <<>>
      BY <1>0, <3>2
    <3> QED BY <2>2, <3>1, <3>2
  <2> QED BY <2>3, <2>4
<1>4. CASE Accepted(c) \/ Severed(c)
  <2>1. inbox'[c] = inbox[c] /\ \E f \in D : down'[c] = <<f>>
    BY <1>4 DEF Accepted, Severed, Quiet
  <2> QED BY <2>1
<1>5. CASE Tuned(c) \/ \E tag \in Tags : Added(c, tag)
  BY <1>5 DEF Tuned, Added, Proceeds, Quiet
<1>6. ASSUME Quiet(c), NEW code \in Codes, HangsUp(c, code), code = 1008 => ~current
      PROVE  inbox'[c] \in Seq(P) /\ down'[c] \in Seq(D)
  <2>1. Fin(code) \in D
    BY <1>6 DEF Codes
  <2>2. Append(down[c], Fin(code)) \in Seq(D)
    BY <2>1
  <2>3. inbox'[c] = inbox[c]
    BY <1>6 DEF Quiet
  <2>4. CASE down'[c] = down[c]
    BY <2>3, <2>4
  <2>5. CASE down'[c] = Append(down[c], Fin(code))
    BY <2>2, <2>3, <2>5
  <2>6. down'[c] = down[c] \/ down'[c] = Append(down[c], Fin(code))
    BY <1>6 DEF HangsUp
  <2> QED BY <2>4, <2>5, <2>6
<1>7. CASE Freed(c)
  BY <1>6, <1>7 DEF Freed
<1>8. CASE Emptied(c)
  BY <1>6, <1>8 DEF Emptied, Proceeds, Codes
<1>9. CASE Written(c)
  <2> DEFINE f == Frame(Head(client[c].frames), client[c].send)
  <2>1. f \in D
    BY <1>9
  <2> HIDE DEF f
  <2>2. Append(down[c], f) \in Seq(D)
    BY <2>1
  <2>3. inbox'[c] = inbox[c]
    BY <1>9 DEF Written, Proceeds, Quiet
  <2>4. CASE down'[c] = down[c]
    BY <2>3, <2>4
  <2>5. CASE down'[c] = Append(down[c], f)
    BY <2>2, <2>3, <2>5
  <2>6. down'[c] = down[c] \/ down'[c] = Append(down[c], f)
    BY <1>9 DEF Written, f
  <2> QED BY <2>4, <2>5, <2>6
<1> QED BY <1>1, <1>2, <1>3, <1>4, <1>5, <1>7, <1>8, <1>9 DEF Touched

\* What a step leaves in a queue is in T, if what it adds is.
LEMMA Queued ==
  ASSUME NEW c \in Conns, Touched(c), NEW T, client[c].frames \in Seq(T),
         \A tag \in Tags : Added(c, tag) => tag \in T
  PROVE  client'[c].frames \in Seq(T)
<1>1. CASE Freed(c) \/ Emptied(c)
  <2>1. client'[c].frames = <<>>
    BY <1>1 DEF Freed, Emptied, NoClient
  <2> QED BY <2>1
<1>2. CASE Written(c)
  BY <1>2 DEF Written
<1>3. CASE \E tag \in Tags : Added(c, tag)
  <2>1. PICK tag \in Tags : Added(c, tag)
    BY <1>3
  <2>2. tag \in T /\ client'[c].frames = Append(client[c].frames, tag)
    BY <2>1 DEF Added
  <2> QED BY <2>2
<1>4. CASE ~(Freed(c) \/ Emptied(c) \/ Written(c) \/ \E tag \in Tags : Added(c, tag))
  <2>1. client'[c].frames = client[c].frames
    BY <1>4
        DEF Touched, Bystander, Parted, Opened, Delivered, Dropped, Handled, CloseAsked,
            Accepted, Tuned, Severed, WorkerSame
  <2> QED BY <2>1
<1> QED BY <1>1, <1>2, <1>3, <1>4

\* A connection stays without a frame until it is queued.
LEMMA CalmNext ==
  ASSUME TypeInv, NEW c \in Conns, Touched(c), NEW tag \in FinalTags,
         Calm(c, tag), ~Added(c, tag)
  PROVE  Calm(c, tag)'
<1> DEFINE P == {f \in PageFrames : f.tag # tag}
           D == {f \in DownFrames : f.tag # tag}
           T == Tags \ {tag}
<1>1. inbox[c] \in Seq(P) /\ down[c] \in Seq(D) /\ client[c].frames \in Seq(T)
  BY DEF Calm
<1>2. \A f \in D : f.tag # "fin" => f \in P
  BY FrameTypes
<1>3. Frame("nonce", 0) \in D /\ \A code \in Codes : Fin(code) \in D
  <2>1. tag \notin {"nonce", "fin"}
    BY DEF FinalTags
  <2> QED BY <2>1, FrameTypes DEF Frame, Fin
<1>4. Written(c) => Frame(Head(client[c].frames), client[c].send) \in D
  <2> SUFFICES ASSUME Written(c) PROVE Frame(Head(client[c].frames), client[c].send) \in D
    OBVIOUS
  <2>1. Head(client[c].frames) \in T
    BY <1>1 DEF Written
  <2>2. client[c].send \in 0..LastCounter
    BY DEF TypeInv, WorkerType, ClientState
  <2> QED BY <2>1, <2>2, FrameTypes DEF Frame
<1>5. \A t \in Tags : Added(c, t) => t \in T
  OBVIOUS
<1> HIDE DEF P, D, T
<1>6. inbox'[c] \in Seq(P) /\ down'[c] \in Seq(D)
  BY <1>1, <1>2, <1>3, <1>4, Carried DEF Codes
<1>7. client'[c].frames \in Seq(T)
  BY <1>1, <1>5, Queued
<1> QED BY <1>6, <1>7 DEF Calm, P, D, T

\* What may stop the page has its cause.
LEMMA CausedNext ==
  ASSUME TypeInv, Asked, Monotone, NEW c \in Conns, Touched(c), Caused(c)
  PROVE  Caused(c)'
<1>1. sock'[c] \in {"connecting", "open"} => page'.conn = c
  BY DEF Caused, Touched, Bystander, Parted, Opened, Delivered, Dropped, Handled,
         CloseAsked, Accepted, Freed, Added, Emptied, Written, Tuned, Severed, Proceeds,
         Quiet, PageSame, PeerSame
<1>2. inbox'[c] # <<>> /\ ~peer'[c].superseded /\ page'.conn # c => "left" \in causes'
  <2> SUFFICES ASSUME inbox'[c] # <<>>, ~peer'[c].superseded, page'.conn # c,
                      "left" \notin causes'
               PROVE  FALSE
    OBVIOUS
  <2>1. inbox[c] = <<>> \/ peer[c].superseded \/ page.conn = c
    BY DEF Caused, Monotone
  <2>2. CASE Bystander(c)
    BY <2>1, <2>2 DEF Bystander, PeerSame, PageSame
  <2>3. CASE Parted(c)
    BY <2>1, <2>3 DEF Parted
  <2>4. CASE Opened(c) \/ Handled(c) \/ CloseAsked(c)
    BY <2>4 DEF Opened, Handled, CloseAsked
  <2>5. CASE Delivered(c)
    BY <2>5 DEF Delivered, Caused, PageSame
  <2>6. CASE Dropped(c)
    <3>1. page.conn # c /\ inbox[c] # <<>> /\ ~peer[c].superseded
      BY <2>6 DEF Dropped, PageSame, PeerSame
    <3> QED BY <2>1, <3>1
  <2>7. CASE Accepted(c) \/ Freed(c) \/ (\E tag \in Tags : Added(c, tag)) \/ Emptied(c)
             \/ Written(c) \/ Tuned(c) \/ Severed(c)
    <3>1. inbox'[c] = inbox[c] /\ peer'[c] = peer[c] /\ page'.conn = page.conn
      BY <2>7
          DEF Accepted, Freed, Added, Emptied, Written, Tuned, Severed, Proceeds, Quiet,
              PageSame
    <3> QED BY <2>1, <3>1
  <2> QED BY <2>2, <2>3, <2>4, <2>5, <2>6, <2>7 DEF Touched
<1>3. ASSUME "asked" \notin causes' PROVE Calm(c, "close")'
  <2>1. "asked" \notin causes /\ Calm(c, "close")
    BY <1>3 DEF Monotone, Caused
  <2>2. up[c] \in Seq(Harmless)
    BY <2>1 DEF Asked
  <2>3. ~Added(c, "close")
    <3>1. up[c] # <<>> => Head(up[c]) \in Harmless
      BY <2>2
    <3> QED BY <3>1 DEF Added, Harmless
  <2> QED BY <2>1, <2>3, CalmNext DEF FinalTags
<1>4. ASSUME live' PROVE Calm(c, "shutdown")'
  <2>1. live /\ Calm(c, "shutdown") /\ ~Added(c, "shutdown")
    BY <1>4 DEF Monotone, Caused, Added
  <2> QED BY <2>1, CalmNext DEF FinalTags
<1>6. ASSUME live', "unavailable" \notin causes' PROVE Calm(c, "error_stop")'
  <2>1. live /\ Calm(c, "error_stop") /\ ~Added(c, "error_stop")
    BY <1>6 DEF Monotone, Caused, Added
  <2> QED BY <2>1, CalmNext DEF FinalTags
<1>5. ASSUME current' PROVE down'[c] \in Seq(DownFrames \ {Fin(1008)})
  <2> DEFINE D == DownFrames \ {Fin(1008)}
  <2>1. current /\ down[c] \in Seq(D) /\ inbox[c] \in Seq(PageFrames)
    BY <1>5 DEF Monotone, Caused, TypeInv, SockType
  <2>2. \A f \in D : f.tag # "fin" => f \in PageFrames
    BY FrameTypes
  <2>3. Frame("nonce", 0) \in D /\ Fin(1006) \in D /\ Fin(1013) \in D
    BY FrameTypes DEF Frame, Fin, Codes
  <2>4. Written(c) => Frame(Head(client[c].frames), client[c].send) \in D
    <3> SUFFICES ASSUME Written(c) PROVE Frame(Head(client[c].frames), client[c].send) \in D
      OBVIOUS
    <3>1. client[c].frames \in Seq(Tags) /\ client[c].send \in 0..LastCounter
      BY DEF TypeInv, WorkerType, ClientState
    <3>2. Head(client[c].frames) \in Tags
      BY <3>1 DEF Written
    <3>3. Head(client[c].frames) # "fin"
      BY <3>2 DEF Tags, FinalTags
    <3> QED BY <3>1, <3>2, <3>3, FrameTypes DEF Frame, Fin
  <2> HIDE DEF D
  <2>5. down'[c] \in Seq(D)
    BY <2>1, <2>2, <2>3, <2>4, Carried
  <2> QED BY <2>5 DEF D
<1> QED BY <1>1, <1>2, <1>3, <1>4, <1>5, <1>6 DEF Caused

\* A step of the system keeps the causes.
LEMMA CauseNext == BaseInv /\ CauseInv /\ [Next]_vars => CauseInv'
  BY StepTouches, AskedNext, MutedNext, CausedNext DEF BaseInv, CauseInv

\* Nothing is under way at first.
LEMMA CauseInit == Init => CauseInv
<1> SUFFICES ASSUME Init PROVE CauseInv
  OBVIOUS
<1>1. Asked /\ Muted
  BY DEF Init, Asked, Muted
<1>2. ASSUME NEW c \in Conns PROVE Caused(c)
  <2>1. inbox[c] = <<>> /\ down[c] = <<>> /\ client[c].frames = <<>> /\ sock[c] = "closed"
    BY DEF Init, NoClient
  <2>2. \A tag : Calm(c, tag)
    BY <2>1 DEF Calm
  <2>3. down[c] \in Seq(DownFrames \ {Fin(1008)})
    BY <2>1
  <2> QED BY <2>1, <2>2, <2>3 DEF Caused
<1> QED BY <1>1, <1>2 DEF CauseInv

-----------------------------------------------------------------------------
\* Output comes after the ready frame and before every other

\* The frames that may come before output.
Plain == {"nonce", "fin", "ready", "output"}

\* What is in s: output, only plain frames, only plain frames before any output.
HasOutput(s) == \E i \in DOMAIN s : s[i].tag = "output"
AllPlain(s)  == \A i \in DOMAIN s : s[i].tag \in Plain
LeadsOut(s)  == \A i \in DOMAIN s : s[i].tag = "output" => \A j \in 1..i : s[j].tag \in Plain

\* The same of a queue.
QueuesOutput(s) == \E i \in DOMAIN s : s[i] = "output"
QueuesPlain(s)  == \A i \in DOMAIN s : s[i] \in Plain
QueueLeads(s)   == \A i \in DOMAIN s : s[i] = "output" => \A j \in 1..i : s[j] \in Plain

\* A frame of the handshake or of the network; a ready frame is the first that is sealed,
\* and output is not.
IsBare(f)     == f.tag \in {"nonce", "fin"}
IsNumbered(f) == (f.tag = "ready" => f.n = 0) /\ (f.tag = "output" => f.n > 0)

\* The ready frame is the first, and output is not.
Numbered(c) ==
    /\ inbox[c] \in Seq({f \in PageFrames : IsNumbered(f)})
    /\ down[c] \in Seq({f \in DownFrames : IsNumbered(f)})
    /\ \A i \in DOMAIN client[c].frames :
         client[c].frames[i] = "ready" => i = 1 /\ client[c].send = 0
    /\ client[c].frames # <<>> /\ Head(client[c].frames) = "output" => client[c].send > 0
    /\ Watching(c) /\ ~client[c].closed => client[c].frames # <<>> \/ client[c].send > 0

\* Nothing sealed has been sent before there is a queue.
Unsealed(c) ==
    handler[c] \in Greeting \ {"gone"} =>
        /\ peer[c].recv = 0
        /\ inbox[c] \in Seq({f \in DownFrames : IsBare(f)})
        /\ down[c] \in Seq({f \in DownFrames : IsBare(f)})

\* There is output under way, or there may be.
Expecting(c) ==
    \/ HasOutput(inbox[c]) \/ HasOutput(down[c]) \/ QueuesOutput(client[c].frames)
    \/ Watching(c)

\* The page takes output, or will after its first frame.
Clear(c) == peer[c].recv = 0 \/ (peer[c].auth /\ (page.closing \/ page.shown = c))

\* Output is preceded by plain frames only, and the page will take it.
Ordered(c) ==
    Following(c) =>
        /\ LeadsOut(inbox[c]) /\ LeadsOut(down[c]) /\ QueueLeads(client[c].frames)
        /\ HasOutput(down[c]) => AllPlain(inbox[c])
        /\ QueuesOutput(client[c].frames) => AllPlain(inbox[c]) /\ AllPlain(down[c])
        /\ Watching(c) => /\ AllPlain(inbox[c]) /\ AllPlain(down[c])
                          /\ QueuesPlain(client[c].frames)
        /\ Expecting(c) => Clear(c)

\* ... for every connection.
OrderInv == \A c \in Conns : Numbered(c) /\ Unsealed(c) /\ Ordered(c)

\* Nothing is in an empty sequence.
LEMMA PlainEmpty ==
  /\ ~HasOutput(<<>>) /\ AllPlain(<<>>) /\ LeadsOut(<<>>)
  /\ ~QueuesOutput(<<>>) /\ QueuesPlain(<<>>) /\ QueueLeads(<<>>)
  BY DEF HasOutput, AllPlain, LeadsOut, QueuesOutput, QueuesPlain, QueueLeads

\* One frame more: output only after plain frames.
LEMMA PlainAppend ==
  ASSUME NEW S, NEW s \in Seq(S), NEW e \in S
  PROVE  /\ HasOutput(Append(s, e)) => HasOutput(s) \/ e.tag = "output"
         /\ AllPlain(s) /\ e.tag \in Plain => AllPlain(Append(s, e))
         /\ LeadsOut(s) /\ (e.tag = "output" => AllPlain(s)) => LeadsOut(Append(s, e))
<1> DEFINE t == Append(s, e)
<1>0. /\ Len(s) \in Nat /\ DOMAIN s = 1..Len(s) /\ DOMAIN t = 1..(Len(s) + 1)
      /\ \A i \in 1..Len(s) : t[i] = s[i]
      /\ t[Len(s) + 1] = e
  BY AppendFacts
<1>1. \A i \in 1..(Len(s) + 1) : i \in 1..Len(s) \/ i = Len(s) + 1
  BY <1>0
<1> HIDE DEF t
<1>2. HasOutput(t) => HasOutput(s) \/ e.tag = "output"
  BY <1>0, <1>1 DEF HasOutput
<1>3. AllPlain(s) /\ e.tag \in Plain => AllPlain(t)
  BY <1>0, <1>1 DEF AllPlain
<1>4. LeadsOut(s) /\ (e.tag = "output" => AllPlain(s)) => LeadsOut(t)
  <2> SUFFICES ASSUME LeadsOut(s), e.tag = "output" => AllPlain(s),
                      NEW i \in 1..(Len(s) + 1), t[i].tag = "output", NEW j \in 1..i
               PROVE  t[j].tag \in Plain
    BY <1>0 DEF LeadsOut
  <2>1. CASE i \in 1..Len(s)
    <3>1. s[i].tag = "output" /\ j \in 1..Len(s)
      BY <1>0, <2>1
    <3> QED BY <1>0, <2>1, <3>1 DEF LeadsOut
  <2>2. CASE i = Len(s) + 1
    <3>1. e.tag = "output" /\ AllPlain(s)
      BY <1>0, <2>2
    <3>2. j \in 1..Len(s) \/ t[j] = e
      BY <1>0, <2>2
    <3> QED BY <1>0, <3>1, <3>2 DEF AllPlain, Plain
  <2> QED BY <1>1, <2>1, <2>2
<1> QED BY <1>2, <1>3, <1>4 DEF t

\* One frame less at the beginning.
LEMMA PlainTail ==
  ASSUME NEW S, NEW s \in Seq(S), s # <<>>
  PROVE  /\ HasOutput(Tail(s)) => HasOutput(s)
         /\ AllPlain(s) => AllPlain(Tail(s)) /\ Head(s).tag \in Plain
         /\ LeadsOut(s) => LeadsOut(Tail(s))
         /\ LeadsOut(s) /\ HasOutput(s) => Head(s).tag \in Plain
         /\ Head(s).tag = "output" => HasOutput(s)
<1> DEFINE t == Tail(s)
<1>0. /\ Len(s) \in Nat /\ Len(s) >= 1
      /\ DOMAIN s = 1..Len(s) /\ DOMAIN t = 1..(Len(s) - 1)
      /\ \A i \in 1..(Len(s) - 1) : t[i] = s[i + 1]
      /\ Head(s) = s[1]
  BY TailFacts
<1>1. \A i \in 1..(Len(s) - 1) : i + 1 \in 1..Len(s)
  BY <1>0
<1>2. 1 \in 1..Len(s) /\ \A i \in 1..Len(s) : 1 \in 1..i
  BY <1>0
<1> HIDE DEF t
<1>3. HasOutput(t) => HasOutput(s)
  BY <1>0, <1>1 DEF HasOutput
<1>4. AllPlain(s) => AllPlain(t) /\ Head(s).tag \in Plain
  BY <1>0, <1>1, <1>2 DEF AllPlain
<1>5. LeadsOut(s) => LeadsOut(t)
  <2> SUFFICES ASSUME LeadsOut(s), NEW i \in 1..(Len(s) - 1), t[i].tag = "output", NEW j \in 1..i
               PROVE  t[j].tag \in Plain
    BY <1>0 DEF LeadsOut
  <2>1. s[i + 1].tag = "output" /\ i + 1 \in DOMAIN s
    BY <1>0, <1>1
  <2>2. j + 1 \in 1..(i + 1) /\ t[j] = s[j + 1]
    BY <1>0
  <2>3. s[j + 1].tag \in Plain
    BY <2>1, <2>2 DEF LeadsOut
  <2> QED BY <2>2, <2>3
<1>6. LeadsOut(s) /\ HasOutput(s) => Head(s).tag \in Plain
  BY <1>0, <1>2 DEF LeadsOut, HasOutput
<1>7. Head(s).tag = "output" => HasOutput(s)
  BY <1>0, <1>2 DEF HasOutput
<1> QED BY <1>3, <1>4, <1>5, <1>6, <1>7 DEF t

\* One entry more at the end of a queue.
LEMMA QueueAppend ==
  ASSUME NEW s \in Seq(Tags), NEW e \in Tags
  PROVE  /\ QueuesOutput(Append(s, e)) => QueuesOutput(s) \/ e = "output"
         /\ QueuesPlain(s) /\ e \in Plain => QueuesPlain(Append(s, e))
         /\ QueueLeads(s) /\ (e = "output" => QueuesPlain(s)) => QueueLeads(Append(s, e))
<1> DEFINE t == Append(s, e)
<1>0. /\ Len(s) \in Nat /\ DOMAIN s = 1..Len(s) /\ DOMAIN t = 1..(Len(s) + 1)
      /\ \A i \in 1..Len(s) : t[i] = s[i]
      /\ t[Len(s) + 1] = e
  BY AppendFacts
<1>1. \A i \in 1..(Len(s) + 1) : i \in 1..Len(s) \/ i = Len(s) + 1
  BY <1>0
<1> HIDE DEF t
<1>2. QueuesOutput(t) => QueuesOutput(s) \/ e = "output"
  BY <1>0, <1>1 DEF QueuesOutput
<1>3. QueuesPlain(s) /\ e \in Plain => QueuesPlain(t)
  BY <1>0, <1>1 DEF QueuesPlain
<1>4. QueueLeads(s) /\ (e = "output" => QueuesPlain(s)) => QueueLeads(t)
  <2> SUFFICES ASSUME QueueLeads(s), e = "output" => QueuesPlain(s),
                      NEW i \in 1..(Len(s) + 1), t[i] = "output", NEW j \in 1..i
               PROVE  t[j] \in Plain
    BY <1>0 DEF QueueLeads
  <2>1. CASE i \in 1..Len(s)
    <3>1. s[i] = "output" /\ j \in 1..Len(s)
      BY <1>0, <2>1
    <3> QED BY <1>0, <2>1, <3>1 DEF QueueLeads
  <2>2. CASE i = Len(s) + 1
    <3>1. e = "output" /\ QueuesPlain(s)
      BY <1>0, <2>2
    <3>2. j \in 1..Len(s) \/ t[j] = e
      BY <1>0, <2>2
    <3> QED BY <1>0, <3>1, <3>2 DEF QueuesPlain, Plain
  <2> QED BY <1>1, <2>1, <2>2
<1> QED BY <1>2, <1>3, <1>4 DEF t

\* One entry less at the beginning of a queue.
LEMMA QueueTail ==
  ASSUME NEW s \in Seq(Tags), s # <<>>
  PROVE  /\ QueuesOutput(Tail(s)) => QueuesOutput(s)
         /\ QueuesPlain(s) => QueuesPlain(Tail(s)) /\ Head(s) \in Plain
         /\ QueueLeads(s) => QueueLeads(Tail(s))
         /\ QueueLeads(s) /\ QueuesOutput(s) => Head(s) \in Plain
         /\ Head(s) = "output" => QueuesOutput(s)
<1> DEFINE t == Tail(s)
<1>0. /\ Len(s) \in Nat /\ Len(s) >= 1
      /\ DOMAIN s = 1..Len(s) /\ DOMAIN t = 1..(Len(s) - 1)
      /\ \A i \in 1..(Len(s) - 1) : t[i] = s[i + 1]
      /\ Head(s) = s[1]
  BY TailFacts
<1>1. \A i \in 1..(Len(s) - 1) : i + 1 \in 1..Len(s)
  BY <1>0
<1>2. 1 \in 1..Len(s) /\ \A i \in 1..Len(s) : 1 \in 1..i
  BY <1>0
<1> HIDE DEF t
<1>3. QueuesOutput(t) => QueuesOutput(s)
  BY <1>0, <1>1 DEF QueuesOutput
<1>4. QueuesPlain(s) => QueuesPlain(t) /\ Head(s) \in Plain
  BY <1>0, <1>1, <1>2 DEF QueuesPlain
<1>5. QueueLeads(s) => QueueLeads(t)
  <2> SUFFICES ASSUME QueueLeads(s), NEW i \in 1..(Len(s) - 1), t[i] = "output", NEW j \in 1..i
               PROVE  t[j] \in Plain
    BY <1>0 DEF QueueLeads
  <2>1. s[i + 1] = "output" /\ i + 1 \in DOMAIN s
    BY <1>0, <1>1
  <2>2. j + 1 \in 1..(i + 1) /\ t[j] = s[j + 1]
    BY <1>0
  <2>3. s[j + 1] \in Plain
    BY <2>1, <2>2 DEF QueueLeads
  <2> QED BY <2>2, <2>3
<1>6. QueueLeads(s) /\ QueuesOutput(s) => Head(s) \in Plain
  BY <1>0, <1>2 DEF QueueLeads, QueuesOutput
<1>7. Head(s) = "output" => QueuesOutput(s)
  BY <1>0, <1>2 DEF QueuesOutput
<1> QED BY <1>3, <1>4, <1>5, <1>6, <1>7 DEF t

\* Steps keep the numbers of the frames.
LEMMA NumberedNext ==
  ASSUME TypeInv, TypeInv', StageInv, NEW c \in Conns, Touched(c), Numbered(c)
  PROVE  Numbered(c)'
<1> DEFINE P == {f \in PageFrames : IsNumbered(f)}
           D == {f \in DownFrames : IsNumbered(f)}
           q == client[c].frames
           s == client[c].send
<1>0. q \in Seq(Tags) /\ s \in 0..LastCounter /\ s \in Nat
  BY Constants DEF TypeInv, WorkerType, ClientState
<1>1. inbox[c] \in Seq(P) /\ down[c] \in Seq(D)
  BY DEF Numbered
<1>2. \A f \in D : f.tag # "fin" => f \in P
  BY FrameTypes
<1>3. Frame("nonce", 0) \in D /\ \A code \in Codes : Fin(code) \in D
  BY FrameTypes DEF Frame, Fin, IsNumbered
<1>4. Written(c) => Frame(Head(q), s) \in D
  <2> SUFFICES ASSUME Written(c) PROVE Frame(Head(q), s) \in D
    OBVIOUS
  <2>1. q # <<>> /\ Head(q) \in Tags /\ 1 \in DOMAIN q /\ Head(q) = q[1]
    BY <1>0 DEF Written
  <2>2. (Head(q) = "ready" => s = 0) /\ (Head(q) = "output" => s > 0)
    BY <2>1 DEF Numbered
  <2>3. Frame(Head(q), s) \in DownFrames
    BY <1>0, <2>1, FrameTypes
  <2> QED BY <2>2, <2>3 DEF Frame, IsNumbered
<1> HIDE DEF P, D
<1>5. inbox'[c] \in Seq(P) /\ down'[c] \in Seq(D)
  BY <1>1, <1>2, <1>3, <1>4, Carried DEF Codes
<1> DEFINE Sorted == /\ \A i \in DOMAIN client'[c].frames :
                          client'[c].frames[i] = "ready" => i = 1 /\ client'[c].send = 0
                     /\ client'[c].frames # <<>> /\ Head(client'[c].frames) = "output" =>
                          client'[c].send > 0
                     /\ Watching(c)' /\ ~client'[c].closed =>
                          client'[c].frames # <<>> \/ client'[c].send > 0
<1>6. CASE Freed(c) \/ Emptied(c)
  <2>1. client'[c].frames = <<>> /\ (client'[c].closed \/ ~Watching(c)')
    BY <1>6 DEF Freed, Emptied, NoClient, Watching
  <2>2. Sorted
    BY <2>1
  <2> QED BY <1>5, <2>2 DEF Numbered, P, D
<1>7. CASE Written(c)
  <2>1. q # <<>> /\ client'[c].frames = Tail(q) /\ client'[c].send = s + 1
    BY <1>7 DEF Written
  <2>2. /\ Len(q) \in Nat /\ DOMAIN q = 1..Len(q) /\ DOMAIN Tail(q) = 1..(Len(q) - 1)
        /\ \A i \in 1..(Len(q) - 1) : Tail(q)[i] = q[i + 1]
    BY <1>0, <2>1, TailFacts
  <2>3. ASSUME NEW i \in DOMAIN Tail(q) PROVE Tail(q)[i] # "ready"
    <3>1. i + 1 \in DOMAIN q /\ i + 1 # 1 /\ Tail(q)[i] = q[i + 1]
      BY <2>2
    <3> QED BY <3>1 DEF Numbered
  <2>4. client'[c].send > 0
    BY <1>0, <2>1
  <2>5. Sorted
    BY <2>1, <2>3, <2>4
  <2> QED BY <1>5, <2>5 DEF Numbered, P, D
<1>8. CASE \E tag \in Tags : Added(c, tag)
  <2>1. PICK tag \in Tags : Added(c, tag)
    BY <1>8
  <2>2. /\ client'[c].frames = Append(q, tag) /\ client'[c].send = s
        /\ tag = "ready" => handler[c] = "opening"
        /\ tag = "output" => Watching(c) /\ ~client[c].closed
    BY <2>1 DEF Added
  <2>3. /\ Len(q) \in Nat /\ DOMAIN q = 1..Len(q) /\ DOMAIN Append(q, tag) = 1..(Len(q) + 1)
        /\ \A i \in 1..Len(q) : Append(q, tag)[i] = q[i]
        /\ Append(q, tag)[Len(q) + 1] = tag /\ Append(q, tag) # <<>>
        /\ Append(q, tag) \in Seq(Tags)
    BY <1>0, AppendFacts
  <2>4. tag = "ready" => q = <<>> /\ s = 0 /\ Len(q) = 0
    BY <2>2 DEF StageInv, Staged, Greeting
  <2>5. \A i \in DOMAIN Append(q, tag) : Append(q, tag)[i] = "ready" => i = 1 /\ s = 0
    <3> SUFFICES ASSUME NEW i \in DOMAIN Append(q, tag), Append(q, tag)[i] = "ready"
                 PROVE  i = 1 /\ s = 0
      OBVIOUS
    <3>1. CASE i \in DOMAIN q
      BY <2>3, <3>1 DEF Numbered
    <3>2. CASE i = Len(q) + 1
      <4>1. tag = "ready"
        BY <2>3, <3>2
      <4> QED BY <2>4, <3>2, <4>1
    <3> QED BY <2>3, <3>1, <3>2
  <2>6. Head(Append(q, tag)) = "output" => s > 0
    <3>1. CASE q = <<>>
      <4>1. Head(Append(q, tag)) = tag
        BY <3>1
      <4> QED BY <2>2, <3>1, <4>1 DEF Numbered
    <3>2. CASE q # <<>>
      <4>1. Head(Append(q, tag)) = Head(q)
        BY <1>0, <3>2
      <4> QED BY <3>2, <4>1 DEF Numbered
    <3> QED BY <3>1, <3>2
  <2>7. Sorted
    BY <2>2, <2>3, <2>5, <2>6
  <2> QED BY <1>5, <2>7 DEF Numbered, P, D
<1>9. CASE ~(Freed(c) \/ Emptied(c) \/ Written(c) \/ \E tag \in Tags : Added(c, tag))
  <2>1. client'[c] = client[c] \/ Tuned(c)
    BY <1>9
        DEF Touched, Bystander, Parted, Opened, Delivered, Dropped, Handled, CloseAsked,
            Accepted, Severed, WorkerSame
  <2>2. /\ client'[c].frames = q /\ client'[c].send = s /\ client'[c].closed = client[c].closed
        /\ Watching(c)' => Watching(c)
    BY <2>1 DEF Tuned, Watching
  <2>3. Sorted
    BY <2>2 DEF Numbered
  <2> QED BY <1>5, <2>3 DEF Numbered, P, D
<1> QED BY <1>6, <1>7, <1>8, <1>9

\* Until there is a queue, nothing is sealed.
LEMMA UnsealedNext ==
  ASSUME TypeInv, TypeInv', StageInv, NEW c \in Conns, Touched(c), Unsealed(c)
  PROVE  Unsealed(c)'
<1> DEFINE B == {f \in DownFrames : IsBare(f)}
<1> SUFFICES ASSUME handler'[c] \in Greeting \ {"gone"}
             PROVE  peer'[c].recv = 0 /\ inbox'[c] \in Seq(B) /\ down'[c] \in Seq(B)
  BY DEF Unsealed
<1>0. Frame("nonce", 0) \in B /\ \A code \in Codes : Fin(code) \in B
  BY FrameTypes DEF Frame, Fin, IsBare
<1>1. CASE Accepted(c)
  <2>1. inbox'[c] = <<>> /\ down'[c] = <<Frame("nonce", 0)>> /\ peer'[c].recv = 0
    BY <1>1 DEF Accepted, StageInv, Staged, NoPeer
  <2> QED BY <1>0, <2>1
<1>2. CASE ~Accepted(c)
  <2>1. handler[c] \in Greeting \ {"gone"}
    BY <1>2
        DEF Touched, Bystander, Parted, Opened, Unused, Delivered, Dropped, Handled,
            CloseAsked, Freed, Added, Emptied, Written, Tuned, Severed, Proceeds,
            WorkerSame, Greeting
  <2>2. peer[c].recv = 0 /\ inbox[c] \in Seq(B) /\ down[c] \in Seq(B)
    BY <2>1 DEF Unsealed
  <2>3. ~Written(c)
    BY <2>1 DEF Written, StageInv, Staged
  <2>4. ~Handled(c)
    <3>1. inbox[c] # <<>> => Head(inbox[c]) \in B
      BY <2>2
    <3> QED BY <3>1 DEF Handled, IsBare, Tags, FinalTags
  <2>5. peer'[c].recv = 0
    <3>1. CASE Parted(c)
      <4>1. peer[c] \in PeerState
        BY DEF TypeInv, SockType
      <4> QED BY <2>2, <3>1, <4>1 DEF Parted, NoPeer, PeerState
    <3>2. CASE Opened(c)
      BY <3>2 DEF Opened, NoPeer
    <3>3. CASE ~Parted(c) /\ ~Opened(c)
      <4>1. peer'[c].recv = peer[c].recv
        BY <1>2, <2>3, <2>4, <3>3
            DEF Touched, Bystander, Delivered, Dropped, CloseAsked, Freed, Added,
                Emptied, Tuned, Severed, Proceeds, Quiet, PeerSame
      <4> QED BY <2>2, <4>1
    <3> QED BY <3>1, <3>2, <3>3
  <2> HIDE DEF B
  <2>6. inbox'[c] \in Seq(B) /\ down'[c] \in Seq(B)
    BY <1>0, <2>2, <2>3, Carried DEF Codes
  <2> QED BY <2>5, <2>6
<1> QED BY <1>1, <1>2

\* Nothing that is ordered changes, but that less output may follow.
LEMMA StillOrdered ==
  ASSUME NEW c \in Conns, Ordered(c), inbox'[c] = inbox[c], down'[c] = down[c],
         client'[c].frames = client[c].frames, Watching(c)' => Watching(c),
         Following(c)' => Following(c) /\ (Clear(c) => Clear(c)')
  PROVE  Ordered(c)'
  BY DEF Ordered, Expecting

\* Output stays behind plain frames, and the page comes to take it.
LEMMA OrderedNext ==
  ASSUME TypeInv, TypeInv', StageInv, PageInv, NEW c \in Conns, Touched(c), Ordered(c),
         Unsealed(c)
  PROVE  Ordered(c)'
<1> DEFINE b == inbox[c]  d == down[c]  q == client[c].frames
<1>0. b \in Seq(PageFrames) /\ d \in Seq(DownFrames) /\ q \in Seq(Tags)
  BY DEF TypeInv, SockType, WireType, WorkerType, ClientState
<1>1. CASE Bystander(c)
  <2>1. Following(c)' => Following(c) /\ PageSame
    BY <1>1 DEF Bystander, Following, PeerSame, PageSame
  <2>2. Following(c)' => (Clear(c) => Clear(c)')
    BY <1>1, <2>1 DEF Bystander, Clear, PeerSame, PageSame
  <2> QED BY <1>1, <2>1, <2>2, StillOrdered DEF Bystander, WorkerSame, Watching
<1>2. CASE Parted(c)
  BY <1>2 DEF Parted, Ordered, Following
<1>3. CASE Opened(c) \/ Accepted(c)
  <2>1. client'[c].frames = <<>> /\ ~Watching(c)' /\ inbox'[c] = <<>>
    BY <1>3
        DEF Opened, Unused, Accepted, StageInv, Staged, WorkerSame, NoClient, Watching
  <2>2. down'[c] \in {<<>>, <<Frame("nonce", 0)>>}
    BY <1>3 DEF Opened, Accepted
  <2>3. ~HasOutput(down'[c]) /\ LeadsOut(down'[c])
    BY <2>2, PlainEmpty DEF HasOutput, LeadsOut, Frame
  <2> QED BY <2>1, <2>3, PlainEmpty DEF Ordered, Expecting
<1>4. CASE Delivered(c)
  <2> DEFINE e == Head(down[c])
  <2>1. /\ d # <<>> /\ e.tag # "fin" /\ inbox'[c] = Append(b, e) /\ down'[c] = Tail(d)
        /\ peer'[c] = peer[c] /\ client'[c] = client[c] /\ PageSame
    BY <1>4 DEF Delivered, WorkerSame
  <2>2. e \in PageFrames
    BY <1>0, <2>1, FrameTypes
  <2>3. /\ HasOutput(inbox'[c]) => HasOutput(b) \/ e.tag = "output"
        /\ AllPlain(b) /\ e.tag \in Plain => AllPlain(inbox'[c])
        /\ LeadsOut(b) /\ (e.tag = "output" => AllPlain(b)) => LeadsOut(inbox'[c])
    BY <1>0, <2>1, <2>2, PlainAppend
  <2>4. /\ HasOutput(down'[c]) => HasOutput(d)
        /\ AllPlain(d) => AllPlain(down'[c]) /\ e.tag \in Plain
        /\ LeadsOut(d) => LeadsOut(down'[c])
        /\ LeadsOut(d) /\ HasOutput(d) => e.tag \in Plain
        /\ e.tag = "output" => HasOutput(d)
    BY <1>0, <2>1, PlainTail
  <2>5. Following(c)' => Following(c)
    BY <2>1 DEF Following, PageSame
  <2>6. Clear(c) => Clear(c)'
    BY <2>1 DEF Clear, PageSame
  <2>7. Watching(c)' => Watching(c)
    BY <2>1 DEF Watching
  <2> QED BY <2>1, <2>3, <2>4, <2>5, <2>6, <2>7 DEF Ordered, Expecting
<1>5. CASE Dropped(c) \/ Handled(c)
  <2> DEFINE e == Head(inbox[c])
  <2>1. /\ b # <<>> /\ inbox'[c] = Tail(b) /\ down'[c] = d /\ client'[c] = client[c]
        /\ page'.conn = page.conn
    BY <1>5 DEF Dropped, Handled, WorkerSame, PageSame
  <2>2. /\ HasOutput(inbox'[c]) => HasOutput(b)
        /\ AllPlain(b) => AllPlain(inbox'[c]) /\ e.tag \in Plain
        /\ LeadsOut(b) => LeadsOut(inbox'[c])
        /\ LeadsOut(b) /\ HasOutput(b) => e.tag \in Plain
    BY <1>0, <2>1, PlainTail
  <2>3. Following(c)' => Following(c)
    BY <1>5, <2>1 DEF Dropped, Handled, Following, PeerSame
  <2>4. Watching(c)' => Watching(c)
    BY <2>1 DEF Watching
  <2>5. ASSUME Following(c)', Expecting(c)' PROVE Clear(c)'
    <3>1. Expecting(c)
      BY <2>1, <2>2, <2>4, <2>5 DEF Expecting
    <3>2. Clear(c) /\ e.tag \in Plain
      BY <2>2, <2>3, <2>5, <3>1 DEF Ordered, Expecting
    <3>3. CASE Dropped(c)
      BY <3>2, <3>3 DEF Dropped, Clear, PeerSame, PageSame
    <3>4. CASE Handled(c)
      <4>1. e.tag \in {"ready", "output"}
        BY <3>2, <3>4 DEF Handled, Plain, Tags, FinalTags
      <4>2. CASE e.tag = "ready"
        BY <3>4, <4>2 DEF Handled, Clear
      <4>3. CASE e.tag = "output"
        <5>1. peer[c].auth /\ (page.closing \/ page.shown # None) /\ PageSame /\ page.conn = c
          BY <3>4, <4>3 DEF Handled, Unexpected
        <5>2. peer'[c].auth
          BY <3>4, <5>1 DEF Handled
        <5>3. page.shown # None => page.shown = c
          BY <5>1 DEF PageInv, TerminalOfConnection
        <5> QED BY <5>1, <5>2, <5>3 DEF Clear, PageSame
      <4> QED BY <4>1, <4>2, <4>3
    <3> QED BY <1>5, <3>3, <3>4
  <2> QED BY <2>1, <2>2, <2>3, <2>4, <2>5 DEF Ordered
<1>6. CASE CloseAsked(c)
  <2>1. /\ page'.closing /\ peer[c].auth /\ peer'[c] = peer[c] /\ page.conn = c
        /\ inbox'[c] = b /\ down'[c] = d /\ client'[c] = client[c]
    BY <1>6 DEF CloseAsked, WorkerSame
  <2>2. Clear(c)' /\ (Following(c)' => Following(c)) /\ (Watching(c)' => Watching(c))
    BY <2>1 DEF Clear, Following, Watching
  <2> QED BY <2>1, <2>2, StillOrdered
<1>7. ASSUME Quiet(c), client'[c].frames \in {q, <<>>}, Watching(c)' => Watching(c),
             \/ down'[c] = d
             \/ \E code \in Codes : down'[c] = Append(d, Fin(code))
             \/ down'[c] = <<Fin(1006)>>
      PROVE  Ordered(c)'
  <2>1. /\ inbox'[c] = b /\ (Following(c)' => Following(c)) /\ (Clear(c) => Clear(c)')
    BY <1>7 DEF Quiet, PageSame, Following, Clear
  <2>2. /\ QueueLeads(q) => QueueLeads(client'[c].frames)
        /\ QueuesPlain(q) => QueuesPlain(client'[c].frames)
        /\ QueuesOutput(client'[c].frames) => QueuesOutput(q)
    BY <1>7, PlainEmpty
  <2>3. /\ HasOutput(down'[c]) => HasOutput(d)
        /\ AllPlain(d) => AllPlain(down'[c])
        /\ LeadsOut(d) => LeadsOut(down'[c])
    <3>1. CASE down'[c] = d
      BY <3>1
    <3>2. ASSUME NEW code \in Codes, down'[c] = Append(d, Fin(code))
          PROVE  /\ HasOutput(down'[c]) => HasOutput(d)
                 /\ AllPlain(d) => AllPlain(down'[c])
                 /\ LeadsOut(d) => LeadsOut(down'[c])
      <4>1. Fin(code) \in DownFrames /\ Fin(code).tag = "fin"
        BY FrameTypes DEF Fin
      <4>2. Fin(code).tag \in Plain /\ Fin(code).tag # "output"
        BY <4>1 DEF Plain
      <4> QED BY <1>0, <3>2, <4>1, <4>2, PlainAppend
    <3>3. CASE down'[c] = <<Fin(1006)>>
      BY <3>3 DEF HasOutput, AllPlain, LeadsOut, Plain, Fin
    <3> QED BY <1>7, <3>1, <3>2, <3>3
  <2> QED BY <1>7, <2>1, <2>2, <2>3 DEF Ordered, Expecting
<1>8. CASE Freed(c) \/ Emptied(c) \/ Severed(c) \/ Tuned(c)
  <2>1. Quiet(c)
    BY <1>8 DEF Freed, Emptied, Severed, Tuned, Proceeds
  <2>2. client'[c].frames \in {q, <<>>} /\ (Watching(c)' => Watching(c))
    BY <1>8 DEF Freed, Emptied, Severed, Tuned, NoClient, WorkerSame, Watching
  <2>3. \/ down'[c] = d
        \/ \E code \in Codes : down'[c] = Append(d, Fin(code))
        \/ down'[c] = <<Fin(1006)>>
    BY <1>8 DEF Freed, Emptied, Severed, Tuned, HangsUp, Codes
  <2> QED BY <1>7, <2>1, <2>2, <2>3
<1>9. CASE Written(c)
  <2> DEFINE h == Head(client[c].frames)
             e == Frame(h, client[c].send)
  <2>1. /\ q # <<>> /\ client'[c].frames = Tail(q) /\ (Watching(c)' => Watching(c))
        /\ Quiet(c) /\ down'[c] \in {d, Append(d, e)}
    BY <1>9 DEF Written, Proceeds, Watching
  <2>2. e \in DownFrames /\ e.tag = h
    <3>1. h \in Tags /\ client[c].send \in 0..LastCounter
      BY <1>0, <2>1 DEF TypeInv, WorkerType, ClientState
    <3> QED BY <3>1, FrameTypes DEF Frame
  <2>3. /\ inbox'[c] = b /\ (Following(c)' => Following(c)) /\ (Clear(c) => Clear(c)')
    BY <2>1 DEF Quiet, PageSame, Following, Clear
  <2>4. /\ QueuesOutput(client'[c].frames) => QueuesOutput(q)
        /\ QueuesPlain(q) => QueuesPlain(client'[c].frames) /\ h \in Plain
        /\ QueueLeads(q) => QueueLeads(client'[c].frames)
        /\ QueueLeads(q) /\ QueuesOutput(q) => h \in Plain
        /\ h = "output" => QueuesOutput(q)
    BY <1>0, <2>1, QueueTail
  <2> HIDE DEF h, e
  <2>5. /\ HasOutput(down'[c]) => HasOutput(d) \/ h = "output"
        /\ AllPlain(d) /\ h \in Plain => AllPlain(down'[c])
        /\ LeadsOut(d) /\ (h = "output" => AllPlain(d)) => LeadsOut(down'[c])
    BY <1>0, <2>1, <2>2, PlainAppend
  <2> QED BY <2>1, <2>3, <2>4, <2>5 DEF Ordered, Expecting
<1>10. CASE \E tag \in Tags : Added(c, tag)
  <2>1. PICK tag \in Tags : Added(c, tag)
    BY <1>10
  <2>2. /\ Quiet(c) /\ client'[c].frames = Append(q, tag) /\ down'[c] = d
        /\ tag = "ready" => handler[c] = "opening"
        /\ tag = "output" => Watching(c)
        /\ tag \notin {"ready", "output"} => ~Watching(c)'
    BY <2>1 DEF Added, Proceeds
  <2>3. /\ inbox'[c] = b /\ (Following(c)' => Following(c)) /\ (Clear(c) => Clear(c)')
        /\ peer'[c] = peer[c]
    BY <2>2 DEF Quiet, PageSame, Following, Clear
  <2>4. /\ QueuesOutput(client'[c].frames) => QueuesOutput(q) \/ tag = "output"
        /\ QueuesPlain(q) /\ tag \in Plain => QueuesPlain(client'[c].frames)
        /\ QueueLeads(q) /\ (tag = "output" => QueuesPlain(q)) => QueueLeads(client'[c].frames)
    BY <1>0, <2>2, QueueAppend
  <2>5. CASE tag = "ready"
    <3>1. handler[c] \in Greeting \ {"gone"} /\ q = <<>>
      BY <2>2, <2>5 DEF Greeting, StageInv, Staged
    <3>2. AllPlain(b) /\ AllPlain(d) /\ Clear(c)
      BY <3>1 DEF Unsealed, AllPlain, IsBare, Plain, Clear
    <3>3. QueuesPlain(q) /\ ~QueuesOutput(q) /\ "ready" \in Plain
      BY <3>1, PlainEmpty DEF Plain
    <3> QED BY <2>2, <2>3, <2>4, <2>5, <3>2, <3>3 DEF Ordered, Expecting
  <2>6. CASE tag = "output"
    <3>1. Watching(c) /\ "output" \in Plain
      BY <2>2, <2>6 DEF Plain
    <3> QED BY <2>2, <2>3, <2>4, <2>6, <3>1 DEF Ordered, Expecting
  <2>7. CASE tag \notin {"ready", "output"}
    <3>1. ~Watching(c)'
      BY <2>2, <2>7
    <3> QED BY <2>2, <2>3, <2>4, <2>7, <3>1 DEF Ordered, Expecting
  <2> QED BY <2>5, <2>6, <2>7
<1> QED BY <1>1, <1>2, <1>3, <1>4, <1>5, <1>6, <1>8, <1>9, <1>10 DEF Touched

\* A step of the system keeps the order.
LEMMA OrderNext == BaseInv /\ OrderInv /\ [Next]_vars => OrderInv'
  BY BaseNext, StepTouches, NumberedNext, UnsealedNext, OrderedNext
      DEF BaseInv, OrderInv

\* Nothing is under way at first.
LEMMA OrderInit == Init => OrderInv
<1> SUFFICES ASSUME Init, NEW c \in Conns PROVE Numbered(c) /\ Unsealed(c) /\ Ordered(c)
  BY DEF OrderInv
<1>1. /\ inbox[c] = <<>> /\ down[c] = <<>> /\ client[c] = NoClient /\ handler[c] = "gone"
      /\ page.conn = None
  BY DEF Init
<1>2. Numbered(c)
  BY <1>1 DEF Numbered, NoClient, Watching
<1>3. Unsealed(c)
  BY <1>1 DEF Unsealed
<1>4. Ordered(c)
  BY <1>1, Constants DEF Ordered, Following
<1> QED BY <1>2, <1>3, <1>4

-----------------------------------------------------------------------------
\* The page stops only for a reason

\* The first frame of the page's connection carries the counter the page tries.
LEMMA FirstInStep ==
  ASSUME TypeInv, StepInv, NEW c \in Conns, Following(c), inbox[c] # <<>>,
         Head(inbox[c]).tag # "nonce"
  PROVE  Head(inbox[c]).n = peer[c].recv
<1> DEFINE r == peer[c].recv
           n == Head(inbox[c]).n
<1>0. inbox[c] \in Seq(PageFrames) /\ peer[c] \in PeerState
  BY DEF TypeInv, SockType
<1>1. 1 \in DOMAIN inbox[c] /\ Head(inbox[c]) = inbox[c][1] /\ inbox[c][1] \in PageFrames
  BY <1>0
<1>2. Nonces(c) = 0
  BY <1>1 DEF Nonces
<1>3. InStep(c, inbox[c][1], 1)
  BY <1>1, <1>2 DEF StepInv, Stepped
<1>4. n + 0 + 1 = r + 1
  BY <1>1, <1>2, <1>3 DEF InStep
<1>5. n \in Nat /\ r \in Nat
  <2>1. r \in 0..LastCounter
    BY <1>0 DEF PeerState
  <2> QED BY <1>1, <2>1, FrameTypes, Constants
<1> HIDE DEF n, r
<1>6. n = r
  BY <1>4, <1>5
<1> QED BY <1>6 DEF n, r

\* A frame that the page tries and does not expect comes after the user has asked to close.
LEMMA UnexpectedHasCause ==
  ASSUME BaseInv, CauseInv, OrderInv, NEW c \in Conns, Following(c), inbox[c] # <<>>,
         Head(inbox[c]).n = peer[c].recv, Unexpected(c, Head(inbox[c]).tag)
  PROVE  "asked" \in causes
<1> DEFINE f == Head(inbox[c])
<1>0. /\ inbox[c] \in Seq(PageFrames) /\ peer[c] \in PeerState /\ page.conn = c
      /\ page.shown # None => page.shown = c /\ peer[c].auth
      /\ peer[c].auth => peer[c].recv > 0
  BY DEF BaseInv, TypeInv, SockType, PageInv, TerminalOfConnection, Following
<1>1. Caused(c) /\ Numbered(c) /\ Ordered(c)
  BY DEF CauseInv, OrderInv
<1>2. CASE f.tag = "close"
  <2> SUFFICES ASSUME "asked" \notin causes PROVE FALSE
    OBVIOUS
  <2>1. inbox[c] \in Seq({g \in PageFrames : g.tag # "close"})
    BY <1>1 DEF Caused, Calm
  <2> QED BY <1>2, <2>1
<1>3. IsNumbered(f)
  <2>1. inbox[c] \in Seq({g \in PageFrames : IsNumbered(g)})
    BY <1>1 DEF Numbered
  <2> QED BY <2>1
<1>4. f.tag # "ready"
  <2> SUFFICES ASSUME f.tag = "ready" PROVE FALSE
    OBVIOUS
  <2>1. peer[c].recv = 0
    BY <1>3 DEF IsNumbered
  <2>2. ~peer[c].auth /\ page.shown = None
    BY <1>0, <2>1
  <2> QED BY <2>2 DEF Unexpected
<1>5. f.tag # "output"
  <2> SUFFICES ASSUME f.tag = "output" PROVE FALSE
    OBVIOUS
  <2>1. peer[c].recv # 0
    BY <1>3 DEF IsNumbered
  <2>2. HasOutput(inbox[c])
    BY <1>0, PlainTail
  <2>3. Clear(c)
    BY <1>1, <2>2 DEF Ordered, Expecting
  <2>4. peer[c].auth /\ (page.closing \/ page.shown = c)
    BY <2>1, <2>3 DEF Clear
  <2> QED BY <2>4, Constants DEF Unexpected
<1> QED BY <1>2, <1>4, <1>5 DEF Unexpected

\* The page's connection is poisoned by what the user asked or by a counter that ran out,
\* another one by what was left undecrypted when it closed.
LEMMA PoisonHasCause ==
  ASSUME BaseInv, StepInv, CauseInv, OrderInv, NEW c \in Conns, Receive(c), Poison(c),
         ~peer[c].superseded, ~peer[c].poisoned, inbox[c] # <<>>,
         Head(inbox[c]).tag # "nonce",
         \/ Head(inbox[c]).n # peer[c].recv \/ peer[c].recv = LastCounter
         \/ IsCurrent(c) /\ Unexpected(c, Head(inbox[c]).tag)
  PROVE  IF page.conn = c THEN causes' \cap {"asked", "exhausted"} # {} ELSE "left" \in causes'
<1>1. causes \subseteq causes'
  BY DEF Poison, Noted
<1>2. CASE page.conn = c /\ peer[c].recv = LastCounter
  <2>1. "exhausted" \in causes'
    BY <1>2 DEF Poison, Noted
  <2> QED BY <1>2, <2>1
<1>3. CASE page.conn # c
  <2>1. "left" \in causes
    BY <1>3 DEF CauseInv, Caused
  <2> QED BY <1>1, <1>3, <2>1
<1>4. CASE page.conn = c /\ peer[c].recv # LastCounter
  <2>1. Following(c)
    BY <1>4 DEF Following
  <2>2. Head(inbox[c]).n = peer[c].recv
    BY <2>1, FirstInStep DEF BaseInv
  <2>3. "asked" \in causes
    BY <1>4, <2>1, <2>2, UnexpectedHasCause
  <2> QED BY <1>1, <1>4, <2>3
<1> QED BY <1>2, <1>3, <1>4

\* A step stops the page only for a reason.
LEMMA ExplainedNext ==
  ASSUME BaseInv, StepInv, CauseInv, OrderInv, StopIsExplained, [Next]_vars
  PROVE  StopIsExplained'
<1>0. Monotone
  BY StepTouches DEF BaseInv
<1>t. /\ current \in BOOLEAN /\ live \in BOOLEAN
      /\ current' \in BOOLEAN /\ live' \in BOOLEAN
  BY BaseNext DEF BaseInv, TypeInv, PageType
<1>1. ASSUME why' = why PROVE StopIsExplained'
  BY <1>0, <1>1, <1>t DEF StopIsExplained, Monotone
<1>2. ASSUME \/ why' = "poisoned" /\ causes' \cap {"asked", "exhausted"} # {}
             \/ why' = "stale" /\ "left" \in causes'
      PROVE  StopIsExplained'
  BY <1>2 DEF StopIsExplained
<1>3. ASSUME NEW c \in Conns, NEW code \in Codes, CloseEvent(c, code) PROVE StopIsExplained'
  <2>1. CASE why' = why
    BY <1>1, <2>1
  <2>2. CASE why' # why
    <3>1. why' = "rejected" /\ code = 1008 /\ UNCHANGED current
      BY <1>3, <2>2 DEF CloseEvent, hist
    <3>2. down[c] # <<>> /\ Head(down[c]) = Fin(1008)
      BY <1>3, <3>1 DEF CloseEvent
    <3>3. ~current
      <4> SUFFICES ASSUME current PROVE FALSE
        OBVIOUS
      <4>1. down[c] \in Seq(DownFrames \ {Fin(1008)})
        BY DEF CauseInv, Caused
      <4> QED BY <3>2, <4>1
    <3> QED BY <3>1, <3>3 DEF StopIsExplained
  <2> QED BY <2>1, <2>2
<1>4. ASSUME NEW c \in Conns, Receive(c) PROVE StopIsExplained'
  <2> DEFINE f == Head(inbox[c])
  <2>0. inbox[c] # <<>> /\ UNCHANGED live
    BY <1>4 DEF Receive
  <2>t. inbox[c] \in Seq(PageFrames) /\ peer[c] \in PeerState
    BY DEF BaseInv, TypeInv, SockType
  <2>f. f \in PageFrames
    BY <2>0, <2>t
  <2>1. CASE UNCHANGED hist
    BY <1>1, <2>1 DEF hist
  <2>2. ASSUME Poison(c), ~peer[c].poisoned, f.tag # "nonce",
               \/ f.n # peer[c].recv \/ peer[c].recv = LastCounter
               \/ IsCurrent(c) /\ Unexpected(c, f.tag)
        PROVE  StopIsExplained'
    <3>1. CASE peer[c].superseded \/ why # "none"
      BY <1>1, <2>2, <3>1 DEF Poison
    <3>2. CASE ~peer[c].superseded /\ why = "none"
      <4>1. IF page.conn = c THEN causes' \cap {"asked", "exhausted"} # {}
                             ELSE "left" \in causes'
        BY <1>4, <2>0, <2>2, <3>2, PoisonHasCause
      <4>2. why' = IF page.conn = c THEN "poisoned" ELSE "stale"
        BY <2>2, <3>2 DEF Poison
      <4> QED BY <1>2, <4>1, <4>2
    <3> QED BY <3>1, <3>2
  <2>3. ASSUME Handle(c, f.tag), f.tag # "nonce" PROVE StopIsExplained'
    <3>1. f.tag \in Tags
      BY <2>3, <2>f, FrameTypes
    <3>2. Caused(c)
      BY DEF CauseInv
    <3>3. CASE f.tag = "close"
      <4>1. why' \in {why, "acknowledged"} /\ causes' = causes
        BY <2>3, <3>3 DEF Handle, Stop
      <4>2. "asked" \in causes
        <5> SUFFICES ASSUME "asked" \notin causes PROVE FALSE
          OBVIOUS
        <5>1. inbox[c] \in Seq({g \in PageFrames : g.tag # "close"})
          BY <3>2 DEF Caused, Calm
        <5> QED BY <2>0, <3>3, <5>1
      <4>3. CASE why' = "acknowledged"
        BY <4>1, <4>2, <4>3 DEF StopIsExplained
      <4> QED BY <1>1, <4>1, <4>3
    <3>4. CASE f.tag = "shutdown"
      <4>1. why' \in {why, "ended"}
        BY <2>3, <3>4 DEF Handle, Stop
      <4>2. ~live
        <5> SUFFICES ASSUME live PROVE FALSE
          OBVIOUS
        <5>1. inbox[c] \in Seq({g \in PageFrames : g.tag # "shutdown"})
          BY <3>2 DEF Caused, Calm
        <5> QED BY <2>0, <3>4, <5>1
      <4>3. CASE why' = "ended"
        BY <2>0, <4>2, <4>3 DEF StopIsExplained
      <4> QED BY <1>1, <4>1, <4>3
    <3>5. CASE f.tag = "error_stop"
      <4>1. why' \in {why, "refused"} /\ causes' = causes
        BY <2>3, <3>5 DEF Handle, Stop
      <4>2. ~live \/ "unavailable" \in causes
        <5> SUFFICES ASSUME live, "unavailable" \notin causes PROVE FALSE
          OBVIOUS
        <5>1. inbox[c] \in Seq({g \in PageFrames : g.tag # "error_stop"})
          BY <3>2 DEF Caused, Calm
        <5> QED BY <2>0, <3>5, <5>1
      <4>3. CASE why' = "refused"
        BY <2>0, <4>1, <4>2, <4>3 DEF StopIsExplained
      <4> QED BY <1>1, <4>1, <4>3
    <3>6. CASE f.tag \in {"ready", "output", "error_retry"}
      <4>1. why' = why
        BY <2>3, <3>6 DEF Handle, hist
      <4> QED BY <1>1, <4>1
    <3> QED BY <3>1, <3>3, <3>4, <3>5, <3>6 DEF Tags, FinalTags
  <2>4. CASE Greet(c)
    BY <2>1, <2>4 DEF Greet
  <2>5. peer[c].poisoned \in BOOLEAN
    BY <2>t DEF PeerState
  <2> QED BY <1>4, <2>1, <2>2, <2>3, <2>4, <2>5 DEF Receive
<1>5. ASSUME NEW c \in Conns, Send(c) PROVE StopIsExplained'
  <2>1. CASE why' = why
    BY <1>1, <2>1
  <2>2. CASE why' # why
    <3>1. Poison(c) /\ peer[c].send = LastCounter
      BY <1>5, <2>2 DEF Send, hist
    <3>2. why = "none" /\ ~peer[c].superseded
      BY <2>2, <3>1 DEF Poison
    <3>3. page.conn = c
      BY <1>5, <3>2 DEF Send, CauseInv, Muted
    <3>4. why' = "poisoned" /\ "exhausted" \in causes'
      BY <3>1, <3>2, <3>3 DEF Poison, Noted
    <3> QED BY <1>2, <3>4
  <2> QED BY <2>1, <2>2
<1>6. ASSUME NEW c \in Conns,
             \/ Connect(c) \/ Deliver(c) \/ Accept(c) \/ Refused(c) \/ ReconnectNow(c)
             \/ Show(c) \/ Type(c) \/ CloseSession(c) \/ Cut(c)
      PROVE  why' = why
  BY <1>6
      DEF Connect, Deliver, Accept, Refused, ReconnectNow, Show, Type, CloseSession,
          Cut, hist
<1>7. ASSUME NEW c \in Conns,
             \/ Authenticate(c) \/ Join(c) \/ Write(c) \/ FinishClose(c) \/ SendReady(c)
             \/ StartViewer(c) \/ TellEnded(c) \/ Input(c) \/ Close(c) \/ RunEnds(c)
             \/ HandshakeEnds(c) \/ OpenFails(c) \/ Output(c) \/ ViewerEnds(c) \/ ViewerFails(c)
      PROVE  why' = why
  BY <1>7, WorkerAside DEF Aside
<1>8. ASSUME Hide \/ Rotate \/ Shutdown \/ Done \/ UNCHANGED vars PROVE why' = why
  BY <1>8 DEF Hide, Rotate, Shutdown, Done, vars, hist
<1> QED BY <1>1, <1>3, <1>4, <1>5, <1>6, <1>7, <1>8 DEF Next, Runs, Failure

\* A page gives up reconnecting only for a reason: whatever connections were lost, replaced,
\* refused, frozen or overrun, the close listener, receiveMessage and sendChain stop it for a
\* credential that is no longer in force, a worker that has ended or has no terminal to show,
\* a close the user asked for, a counter that ran out, or frames that its closed socket left
\* undecrypted.
THEOREM StopAlwaysExplained == Spec => []StopIsExplained
<1> DEFINE IInv == BaseInv /\ StepInv /\ CauseInv /\ OrderInv /\ StopIsExplained
<1>1. Init => IInv
  <2>1. Init => StopIsExplained
    BY DEF Init, StopIsExplained
  <2> QED BY <2>1, BaseInit, StepInit, CauseInit, OrderInit DEF BaseInv
<1>2. IInv /\ [Next]_vars => IInv'
  BY BaseNext, StepInvNext, CauseNext, OrderNext, ExplainedNext
<1> QED BY <1>1, <1>2, PTL DEF Spec
=============================================================================
