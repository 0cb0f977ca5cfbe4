--------------------------- MODULE ServiceProofs ---------------------------
(***************************************************************************)
(* Proofs about the worker for any number of sessions, restarts of the     *)
(* tmux server, snapshots and faults: it never marks, configures or kills  *)
(* a session of the user; its event channel keeps its bound; a shutdown    *)
(* request is answered before it exits; it ends for a reason; and it       *)
(* leaves no helper behind.                                                *)
(*                                                                         *)
(* The session ID alone is no proof of ownership, because a restarted      *)
(* server hands it out again; the generation is what makes it one, because *)
(* it is never installed twice.                                            *)
(***************************************************************************)
EXTENDS Service, TLAPS

\* What the model knows of a session.
Session ==
    [by : {"none", "user", "wrap"}, name : {"none", "other", "helper"}, mark : BOOLEAN,
     win : {"none", "target", "placeholder"}]

\* The part of TypeOK the argument needs.
Shapes ==
    /\ sess \in [Ids -> Session]
    /\ {gen, want, coined, next} \subseteq Nat
    /\ {hid, jid} \subseteq Ids
    /\ harmed \in BOOLEAN

\* A generation that is not there yet is larger than every one that was.
GenerationsAreFresh == gen <= coined /\ want <= coined

\* Only CreateHelper gives a session the helper's name, and a session has a creator.
NameIsOwn ==
    \A i \in Ids :
        /\ sess[i].name = "helper" => sess[i].by = "wrap"
        /\ sess[i].by = "none" => sess[i] = NoSession

\* While CreateHelper uses an ID without its name, the ID is not a session of the user on
\* the server of that generation, nor will it be.
IdIsOwn ==
    pc \in {"link", "mark", "configure"} =>
        /\ want # 0
        /\ gen = want => sess[hid].by # "user" /\ hid < next

\* A resolved target has a generation.
Resolved == pc \in {"display", "create"} => want # 0

\* The inductive invariant behind ForeignUntouched.
OwnInv ==
    Shapes /\ GenerationsAreFresh /\ NameIsOwn /\ IdIsOwn /\ Resolved /\ ForeignUntouched

\* The three kinds of session are sessions, and who made each is known.
LEMMA NoSessionShape ==
  /\ NoSession \in Session /\ NoSession.by = "none" /\ NoSession.name = "none"
  /\ UserSession \in Session /\ UserSession.by = "user" /\ UserSession.name = "other"
  /\ HelperSession \in Session /\ HelperSession.by = "wrap"
  BY DEF Session, NoSession, UserSession, HelperSession

\* The invariant holds when the worker begins: one session, the user's, and no generation.
LEMMA OwnInvInit == Init => OwnInv
<1> SUFFICES ASSUME Init PROVE OwnInv
  OBVIOUS
<1>1. 0 \in Ids /\ sess \in [Ids -> Session]
  BY ServiceAssumption, NoSessionShape DEF Init, Ids
<1>2. NameIsOwn
  BY NoSessionShape DEF NameIsOwn, Init, Ids
<1> QED
  BY <1>1, <1>2
     DEF Init, OwnInv, Shapes, GenerationsAreFresh, IdIsOwn, Resolved, ForeignUntouched

\* Steps that leave the sessions and the generation alone and do not enter CreateHelper.
LEMMA OwnInvQuiet ==
  ASSUME OwnInv, UNCHANGED <<gen, sess, next, coined, want, hid, jid, harmed>>,
         pc' \in {"display", "create", "link", "mark", "configure"} => pc' = pc
  PROVE  OwnInv'
  BY DEF OwnInv, Shapes, GenerationsAreFresh, NameIsOwn, IdIsOwn, Resolved,
         ForeignUntouched, Exists

\* A step that finds nothing to hold against it leaves the history as it is.
LEMMA NothingHarmed ==
  ASSUME OwnInv, NEW harm \in BOOLEAN, ~harm, harmed' = (harmed \/ harm)
  PROVE  UNCHANGED harmed
  BY Zenon DEF OwnInv, Shapes, ForeignUntouched

\* One session is replaced by one with the same creator, or by none.
LEMMA OwnInvReplaced ==
  ASSUME OwnInv, UNCHANGED <<gen, next, coined, want, hid, harmed>>,
         jid' \in Ids,
         NEW i \in Ids, NEW s \in Session, sess' = [sess EXCEPT ![i] = s],
         s = NoSession \/ (s.by = sess[i].by /\ s.by # "none"
                           /\ (s.name = "helper" => sess[i].name = "helper")),
         pc' \in {"display", "create"} => pc' = pc,
         pc' \in {"link", "mark", "configure"} => pc \in {"link", "mark", "configure"}
  PROVE  OwnInv'
<1>1. Shapes'
  BY DEF OwnInv, Shapes
<1>2. NameIsOwn'
  BY NoSessionShape DEF OwnInv, Shapes, NameIsOwn
<1>3. IdIsOwn'
  BY NoSessionShape DEF OwnInv, Shapes, IdIsOwn
<1> QED
  BY <1>1, <1>2, <1>3 DEF OwnInv, GenerationsAreFresh, Resolved, ForeignUntouched

\* kill-session under the guard on generation and name, or on a stronger one.
LEMMA OwnInvKills ==
  ASSUME OwnInv, NEW i \in Ids, NEW guard \in BOOLEAN, guard => IsHelper(i), Kills(i, guard),
         UNCHANGED <<gen, next, coined, want, hid, jid>>,
         pc' \in {"display", "create", "link", "mark", "configure"} => pc' = pc
  PROVE  OwnInv'
<1>1. sess[i].by = "wrap" \/ ~guard
  BY DEF IsHelper, OwnInv, NameIsOwn
<1>2. UNCHANGED harmed
  BY <1>1, NothingHarmed DEF Kills
<1>3. CASE guard
  BY <1>2, <1>3, NoSessionShape, OwnInvReplaced DEF Kills, OwnInv, Shapes
<1>4. CASE ~guard
  BY <1>2, <1>4, OwnInvQuiet DEF Kills
<1> QED
  BY <1>3, <1>4

\* The tmux server and the user.
LEMMA OwnInvServer ==
  ASSUME OwnInv, Restart \/ UserOpens \/ UserActs \/ PlaceholderEnds \/ OtherResolves
  PROVE  OwnInv'
<1> USE DEF Mishap
<1>0. 0 \in Ids
  BY ServiceAssumption DEF Ids
<1>1. CASE Restart
  <2>1. Shapes' /\ NameIsOwn'
    BY <1>0, <1>1, NoSessionShape
        DEF Restart, OwnInv, Shapes, NameIsOwn, helpVars, janVars
  <2>2. IdIsOwn'
    BY <1>1 DEF Restart, OwnInv, IdIsOwn, helpVars
  <2> QED
    BY <1>1, <2>1, <2>2
        DEF Restart, OwnInv, Shapes, GenerationsAreFresh, Resolved, ForeignUntouched,
            helpVars
<1>2. CASE UserOpens
  <2> DEFINE s == [UserSession EXCEPT !.win = "none"]
  <2>1. s \in Session /\ s.by = "user" /\ s.name = "other"
    BY DEF Session, UserSession
  <2>2. next \in Ids /\ next \in Nat /\ next' = next + 1 /\ sess' = [sess EXCEPT ![next] = s]
    BY <1>2, ServiceAssumption DEF UserOpens, OwnInv, Shapes, Ids
  <2>3. Shapes' /\ NameIsOwn'
    BY <1>2, <2>1, <2>2
        DEF UserOpens, OwnInv, Shapes, NameIsOwn, helpVars, janVars, histVars
  <2>4. IdIsOwn'
    BY <1>2, <2>1, <2>2 DEF UserOpens, OwnInv, Shapes, IdIsOwn, helpVars, Ids
  <2> QED
    BY <1>2, <2>3, <2>4
        DEF UserOpens, OwnInv, GenerationsAreFresh, Resolved, ForeignUntouched,
            helpVars, histVars
<1>3. CASE UserActs
  <2>0. UNCHANGED <<gen, next, coined, pc, want, hid, jid, harmed>>
    BY <1>3 DEF UserActs, helpVars, janVars
  <2>1. CASE UNCHANGED sess
    BY <2>0, <2>1, OwnInvQuiet
  <2>2. CASE sess' = [sess EXCEPT ![0] = NoSession]
    BY <1>0, <2>0, <2>2, NoSessionShape, OwnInvReplaced DEF OwnInv, Shapes
  <2>3. CASE sess' = [i \in Ids |-> IF sess[i].win = "target" THEN NoSession ELSE sess[i]]
    <3>1. Shapes' /\ NameIsOwn'
      BY <2>0, <2>3, NoSessionShape DEF OwnInv, Shapes, NameIsOwn
    <3>2. IdIsOwn'
      BY <2>0, <2>3, NoSessionShape DEF OwnInv, Shapes, IdIsOwn
    <3> QED
      BY <2>0, <3>1, <3>2 DEF OwnInv, GenerationsAreFresh, Resolved, ForeignUntouched
  <2>4. CASE \E i \in Ids : sess[i].by = "wrap" /\
               \E s \in {NoSession, [sess[i] EXCEPT !.name = "other"]} :
                   sess' = [sess EXCEPT ![i] = s]
    <3>1. PICK i \in Ids : sess[i].by = "wrap" /\
               \E s \in {NoSession, [sess[i] EXCEPT !.name = "other"]} :
                   sess' = [sess EXCEPT ![i] = s]
      BY <2>4
    <3>2. PICK s \in {NoSession, [sess[i] EXCEPT !.name = "other"]} :
              sess' = [sess EXCEPT ![i] = s]
      BY <3>1
    <3>3. sess[i] \in Session
      BY DEF OwnInv, Shapes
    <3>4. s \in Session /\ (s = NoSession \/ (s.by = "wrap" /\ s.name = "other"))
      BY <3>1, <3>2, <3>3, NoSessionShape DEF Session
    <3> QED
      BY <2>0, <3>1, <3>2, <3>4, OwnInvReplaced DEF OwnInv, Shapes
  <2> QED
    BY <1>3, <2>1, <2>2, <2>3, <2>4 DEF UserActs
<1>4. CASE PlaceholderEnds
  <2>1. PICK i \in Ids : sess' = [sess EXCEPT ![i] = NoSession]
    BY <1>4 DEF PlaceholderEnds
  <2>2. UNCHANGED <<gen, next, coined, pc, want, hid, jid, harmed>>
    BY <1>4 DEF PlaceholderEnds, helpVars, janVars
  <2> QED
    BY <2>1, <2>2, NoSessionShape, OwnInvReplaced DEF OwnInv, Shapes
<1>5. CASE OtherResolves
  <2>1. UNCHANGED <<sess, next, pc, want, hid, jid, harmed>> /\ Identified
    BY <1>5 DEF OtherResolves, helpVars, janVars, histVars
  <2>2. gen' \in Nat /\ coined' \in Nat /\ coined <= coined' /\ gen' <= coined'
        /\ (gen' = gen \/ gen' > coined)
    BY <2>1 DEF Identified, EnsureServerGeneration, OwnInv, Shapes, GenerationsAreFresh
  <2> QED
    BY <2>1, <2>2
        DEF OwnInv, Shapes, GenerationsAreFresh, NameIsOwn, IdIsOwn, Resolved,
            ForeignUntouched
<1> QED
  BY <1>1, <1>2, <1>3, <1>4, <1>5

\* The steps that resolve the target and build and close the helper.
LEMMA OwnInvHelping ==
  ASSUME OwnInv, Helping
  PROVE  OwnInv'
<1> USE DEF Goes
<1>0. hid \in Ids /\ sess[hid] \in Session
  BY DEF OwnInv, Shapes
<1>1. CASE Ensure
  <2>1. UNCHANGED <<sess, next, want, hid, jid, harmed>> /\ Identified /\ pc' = "read"
    BY <1>1 DEF Ensure, Rest, janVars
  <2>2. gen' \in Nat /\ coined' \in Nat /\ coined <= coined' /\ gen' <= coined'
    BY <2>1 DEF Identified, EnsureServerGeneration, OwnInv, Shapes, GenerationsAreFresh
  <2> QED
    BY <2>1, <2>2
        DEF OwnInv, Shapes, GenerationsAreFresh, NameIsOwn, IdIsOwn, Resolved,
            ForeignUntouched
<1>2. CASE ReadGeneration
  BY <1>2
      DEF ReadGeneration, tmuxVars, janVars, histVars, OwnInv, Shapes,
          GenerationsAreFresh, NameIsOwn, IdIsOwn, Resolved, ForeignUntouched
<1>3. CASE ResolveTarget
  BY <1>3
     DEF ResolveTarget, Rest, tmuxVars, janVars, OwnInv, Shapes, GenerationsAreFresh,
         NameIsOwn, IdIsOwn, Resolved, ForeignUntouched
<1>4. CASE Create
  <2>0. UNCHANGED <<gen, coined, want, jid, harmed>>
    BY <1>4 DEF Create, Rest, janVars
  <2>1. CASE UNCHANGED <<sess, hid, next>> /\ pc' = "exit"
    BY <1>4, <2>0, <2>1, OwnInvQuiet DEF Create
  <2>2. CASE /\ SourceIsTarget /\ next <= LastId /\ hid' = next /\ next' = next + 1
             /\ sess' = [sess EXCEPT ![next] = HelperSession] /\ pc' \in {"link", "exit"}
    <3>1. /\ next \in Ids /\ hid' = next /\ next' = next + 1
          /\ sess' = [sess EXCEPT ![next] = HelperSession] /\ pc' \in {"link", "exit"}
      BY <2>2, ServiceAssumption DEF OwnInv, Shapes, Ids
    <3>2. Shapes' /\ NameIsOwn'
      BY <2>0, <3>1, NoSessionShape DEF OwnInv, Shapes, NameIsOwn
    <3>3. IdIsOwn'
      BY <1>4, <2>0, <3>1, NoSessionShape DEF Create, OwnInv, Shapes, IdIsOwn, Resolved
    <3> QED
      BY <2>0, <3>1, <3>2, <3>3
          DEF OwnInv, GenerationsAreFresh, Resolved, ForeignUntouched
  <2> QED
    BY <1>4, <2>1, <2>2 DEF Create, Goes
<1>5. CASE Link
  <2>0. pc = "link" /\ pc' \in {"mark", "close_unmarked"}
        /\ UNCHANGED <<gen, next, coined, want, hid, jid, harmed>>
    BY <1>5 DEF Link, Rest, janVars
  <2>1. CASE UNCHANGED sess
    BY <2>0, <2>1
        DEF OwnInv, Shapes, GenerationsAreFresh, NameIsOwn, IdIsOwn, Resolved,
            ForeignUntouched
  <2>2. CASE Exists(hid) /\ sess' = [sess EXCEPT ![hid].win = "target"]
    <3> DEFINE s == [sess[hid] EXCEPT !.win = "target"]
    <3>1. s \in Session /\ s.by = sess[hid].by /\ s.name = sess[hid].name
      BY <1>0 DEF Session
    <3>2. sess[hid].by # "none" /\ sess' = [sess EXCEPT ![hid] = s]
      BY <1>0, <2>2 DEF OwnInv, NameIsOwn, Exists
    <3> HIDE DEF s
    <3> QED
      BY <1>0, <2>0, <3>1, <3>2, OwnInvReplaced DEF OwnInv, Shapes
  <2> QED
    BY <1>5, <2>1, <2>2 DEF Link
<1>6. ASSUME NEW step \in {"mark", "configure"}, NEW session \in Session,
             NEW done \in {"configure", "bind"}, NEW failed \in {"close_unmarked", "close"},
             Sets(step, session, done, failed),
             session.by = sess[hid].by, session.name = sess[hid].name
      PROVE  OwnInv'
  <2>0. pc \in {"mark", "configure"} /\ UNCHANGED <<gen, next, coined, want, hid, jid>>
    BY <1>6 DEF Sets, Rest, janVars
  <2>1. CASE pc' = failed /\ UNCHANGED <<sess, harmed>>
    BY <2>0, <2>1
        DEF OwnInv, Shapes, GenerationsAreFresh, NameIsOwn, IdIsOwn, Resolved,
            ForeignUntouched
  <2>2. CASE /\ SetsOption /\ sess' = [sess EXCEPT ![hid] = session] /\ pc' = done
             /\ harmed' = (harmed \/ sess[hid].by # "wrap")
    <3>1. sess[hid].by = "wrap"
      BY <1>0, <2>0, <2>2 DEF SetsOption, Exists, OwnInv, NameIsOwn, IdIsOwn, Session
    <3>2. UNCHANGED harmed
      BY <2>2, <3>1, NothingHarmed
    <3> QED
      BY <1>0, <1>6, <2>0, <2>2, <3>1, <3>2, OwnInvReplaced DEF OwnInv, Shapes
  <2> QED
    BY <1>6, <2>1, <2>2 DEF Sets
<1>7. CASE Mark
  <2> DEFINE s == [sess[hid] EXCEPT !.mark = TRUE]
  <2>1. s \in Session /\ s.by = sess[hid].by /\ s.name = sess[hid].name
    BY <1>0 DEF Session
  <2>2. Sets("mark", s, "configure", "close_unmarked")
    BY <1>7 DEF Mark
  <2> HIDE DEF s
  <2> QED
    BY <1>6, <2>1, <2>2
<1>8. CASE Configure
  BY <1>0, <1>6, <1>8 DEF Configure
<1>9. CASE Bind
  BY <1>9, OwnInvQuiet DEF Bind, Rest, janVars
<1>10. CASE CloseUnmarked \/ CloseHelper
  <2>0. pc' \in {"exit", "unbind"} /\ UNCHANGED <<gen, next, coined, want, hid, jid>>
    BY <1>10 DEF CloseUnmarked, CloseHelper, Rest, janVars, AfterKill
  <2>1. CASE UNCHANGED <<sess, harmed>>
    BY <2>0, <2>1, OwnInvQuiet
  <2>2. CASE Kills(hid, IsHelper(hid))
    BY <1>0, <2>0, <2>2, OwnInvKills DEF IsHelper
  <2>3. CASE Kills(hid, IsMarkedHelper(hid))
    <3>1. IsMarkedHelper(hid) \in BOOLEAN
      BY <1>0 DEF IsMarkedHelper, IsHelper, Session
    <3> QED
      BY <1>0, <2>0, <2>3, <3>1, OwnInvKills DEF IsMarkedHelper
  <2> QED
    BY <1>10, <2>1, <2>2, <2>3 DEF CloseUnmarked, CloseHelper
<1>11. CASE Unbind
  BY <1>11, OwnInvQuiet DEF Unbind, Rest, janVars
<1> QED
  BY <1>1, <1>2, <1>3, <1>4, <1>5, <1>7, <1>8, <1>9, <1>10, <1>11 DEF Helping

\* The worker, its mirror and its control server touch no session.
LEMMA OwnInvRunning ==
  ASSUME OwnInv,
         \/ Looping \/ Serving \/ TunnelExits \/ TunnelPublishes \/ SnapshotTaken
         \/ SnapshotPublished \/ Signal \/ ShutdownRequest \/ Killed \/ Done
  PROVE  OwnInv'
<1> USE DEF Goes
<1>1. CASE Looping
  BY <1>1, OwnInvQuiet
      DEF Looping, StartMirror, WaitForControl, PublishRecord, LoopDone, LoopControl,
          LoopEvent, ValidateHelper, ValidateSource, Validates, StopControl,
          ShutdownMirror, Exit, ProcessEnds, Ends, InRun, tmuxVars, helpVars, janVars,
          histVars
<1>2. CASE Serving
  BY <1>2, OwnInvQuiet
      DEF Serving, ServeStarts, Answer, ServeEnds, Controlled, tmuxVars, helpVars,
          janVars, histVars
<1>3. CASE TunnelExits \/ TunnelPublishes \/ SnapshotTaken \/ SnapshotPublished
  BY <1>3, OwnInvQuiet
      DEF TunnelExits, TunnelPublishes, SnapshotTaken, SnapshotPublished, tmuxVars,
          helpVars, janVars, histVars
<1>4. CASE Signal \/ ShutdownRequest \/ Killed \/ Done
  BY <1>4, OwnInvQuiet
      DEF Signal, ShutdownRequest, Controlled, Killed, ProcessEnds, InRun, Done, vars,
          tmuxVars, helpVars, janVars, histVars
<1> QED
  BY <1>1, <1>2, <1>3, <1>4

\* The cleanup after the worker finds the helper by its name, and kills it by name and mark.
LEMMA OwnInvCleaning ==
  ASSUME OwnInv, Cleaning
  PROVE  OwnInv'
<1>0. UNCHANGED <<gen, next, coined, pc, want, hid>>
  BY DEF Cleaning, InspectHelper, CleanupFails, CleanupCloses, CleanupUnbinds,
         InCleanup, helpVars
<1>1. CASE InspectHelper
  <2>1. jid' \in Ids /\ UNCHANGED <<sess, harmed>>
    BY <1>1 DEF InspectHelper, OwnInv, Shapes
  <2> QED
    BY <1>0, <2>1
        DEF OwnInv, Shapes, GenerationsAreFresh, NameIsOwn, IdIsOwn, Resolved,
            ForeignUntouched
<1>2. CASE CleanupFails \/ CleanupUnbinds
  BY <1>0, <1>2, OwnInvQuiet DEF CleanupFails, CleanupUnbinds
<1>3. CASE CleanupCloses
  <2>1. jid \in Ids /\ jid' = jid /\ Kills(jid, IsMarkedHelper(jid))
    BY <1>3 DEF CleanupCloses, OwnInv, Shapes
  <2>2. IsMarkedHelper(jid) \in BOOLEAN
    BY <2>1 DEF IsMarkedHelper, IsHelper, OwnInv, Shapes, Session
  <2> QED
    BY <1>0, <2>1, <2>2, OwnInvKills DEF IsMarkedHelper
<1> QED
  BY <1>1, <1>2, <1>3 DEF Cleaning

\* Every step preserves the invariant.
LEMMA OwnInvNext == OwnInv /\ [Next]_vars => OwnInv'
<1> SUFFICES ASSUME OwnInv, [Next]_vars PROVE OwnInv'
  OBVIOUS
<1>1. CASE UNCHANGED vars
  BY <1>1, OwnInvQuiet DEF vars, tmuxVars, helpVars, janVars, histVars
<1>2. CASE Environment \/ TunnelPublishes \/ SnapshotPublished \/ Looping \/ Serving
  BY <1>2, OwnInvServer, OwnInvRunning DEF Environment
<1>3. CASE Helping \/ Cleaning
  BY <1>3, OwnInvHelping, OwnInvCleaning
<1> QED
  BY <1>1, <1>2, <1>3 DEF Next

\* A session the user opened is never marked, configured or killed by a worker, by its
\* failed start or by the cleanup after it, whatever tmux server the socket leads to by then
\* (helper.go with the guards of tmux.go).
THEOREM UserSessionsUntouched == Spec => []ForeignUntouched
<1>1. OwnInv => ForeignUntouched
  BY DEF OwnInv
<1> QED
  BY OwnInvInit, OwnInvNext, <1>1, PTL DEF Spec

-----------------------------------------------------------------------------
(***************************************************************************)
(* The type invariant, with the bounds of the event channel.               *)
(***************************************************************************)
\* Where a worker can be.
Steps ==
    {"ensure", "read", "display", "create", "link", "mark", "configure", "bind", "start",
     "control", "publish", "loop", "source", "stopctl", "shutdown", "close",
     "close_unmarked", "unbind", "exit", "gone", "dead"}

\* The worker's own state, the control server's and the cleanup's.
RunType ==
    /\ pc \in Steps
    /\ ctl \in {"off", "starting", "serving", "failed", "cancelled", "stopped", "closed"}
    /\ request \in {"none", "running", "answered"}
    /\ janitor \in {"idle", "close", "unbind", "done"}
    /\ reason \in {"none", "requested", "signal", "control", "failed", "validate"}

\* Flags of tmux and of the worker.
FlagType ==
    /\ selected \in BOOLEAN /\ table \in BOOLEAN /\ kept \in BOOLEAN
    /\ cancelled \in BOOLEAN /\ cause \in BOOLEAN /\ lost \in BOOLEAN

\* The mirror: publishing empties a full channel, so it never holds more than it can.
MirrorType ==
    /\ mirror \in {"off", "ready", "failed", "stopped"}
    /\ watch \in {"idle", "cleanup", "done"}
    /\ taken \subseteq {"ready", "failed", "stopped"}
    /\ events \in Seq({"starting", "ready", "failed", "stopped"}) /\ Len(events) <= Capacity
    /\ shots \in 0..Snapshots /\ overtaken \in BOOLEAN

\* What is counted: sessions and mishaps.
CountType == next \in 1..(LastId + 1) /\ spent \in 0..Mishaps

\* What TypeOK says, in groups.
TypeInv == RunType /\ FlagType /\ MirrorType /\ CountType

\* With what is known of the sessions, these are the types the run checks.
LEMMA TypeInvTypes == OwnInv /\ TypeInv => TypeOK
<1> SUFFICES ASSUME OwnInv, TypeInv PROVE TypeOK
  OBVIOUS
<1>1. gen \in 0..coined /\ coined \in Nat /\ want \in 0..coined
  BY DEF OwnInv, Shapes, GenerationsAreFresh
<1>2. /\ {selected, table, kept, cancelled, cause, harmed, lost, overtaken} \subseteq BOOLEAN
      /\ {hid, jid} \subseteq Ids
  BY Zenon DEF OwnInv, Shapes, TypeInv, FlagType, MirrorType
<1> QED
  BY <1>1, <1>2
      DEF OwnInv, Shapes, Session, TypeInv, RunType, MirrorType, CountType, Steps,
          TypeOK

\* Nothing has happened yet.
LEMMA TypeInvInit == Init => TypeInv
<1> SUFFICES ASSUME Init PROVE TypeInv
  OBVIOUS
<1>1. RunType /\ CountType
  BY ServiceAssumption DEF Init, RunType, CountType, Steps
<1>2. FlagType
  BY DEF Init, FlagType
<1>3. /\ mirror = "off" /\ watch = "idle" /\ taken = {} /\ events = <<>> /\ shots = 0
      /\ overtaken = FALSE
  BY DEF Init
<1>4. events \in Seq({"starting", "ready", "failed", "stopped"}) /\ Len(events) = 0
  BY <1>3
<1>5. 0 \in 0..Snapshots /\ 0 <= Capacity
  BY ServiceAssumption
<1>6. MirrorType
  BY <1>3, <1>4, <1>5 DEF MirrorType
<1> QED
  BY <1>1, <1>2, <1>6 DEF TypeInv

\* Every step leads to a step there is.
LEMMA RunTypeNext ==
  ASSUME TypeInv, [Next]_vars
  PROVE  RunType'
<1> USE DEF Goes, RunType, Steps, TypeInv
<1>1. CASE UNCHANGED <<pc, ctl, request, janitor, reason>>
  BY <1>1
<1>2. CASE Environment
  <2>1. CASE Signal \/ ShutdownRequest \/ Killed
    BY <2>1
        DEF Signal, ShutdownRequest, Killed, ProcessEnds, InRun, Controlled, janVars,
            histVars
  <2>2. CASE ~(Signal \/ ShutdownRequest \/ Killed)
    BY <1>1, <1>2, <2>2
       DEF Environment, Restart, UserOpens, UserActs, PlaceholderEnds, OtherResolves,
           TunnelExits, SnapshotTaken, Done, vars, ctlVars, janVars, histVars
  <2> QED
    BY <2>1, <2>2
<1>3. CASE Helping
  <2>1. UNCHANGED <<ctl, request, janitor, reason>>
    BY <1>3
        DEF Helping, Ensure, ReadGeneration, ResolveTarget, Create, Link, Mark,
            Configure, Sets, Bind, CloseUnmarked, CloseHelper, Unbind, Rest, ctlVars,
            janVars, histVars
  <2>2. pc' \in Steps
    BY <1>3
        DEF Helping, Ensure, ReadGeneration, ResolveTarget, Create, Link, Mark,
            Configure, Sets, Bind, CloseUnmarked, CloseHelper, Unbind, AfterKill
  <2> QED
    BY <2>1, <2>2
<1>4. CASE Looping
  BY <1>4
      DEF Looping, StartMirror, WaitForControl, PublishRecord, LoopDone, LoopControl,
          LoopEvent, ValidateHelper, ValidateSource, Validates, StopControl,
          ShutdownMirror, Exit, ProcessEnds, Ends, InRun, ctlVars, janVars, histVars
<1>5. CASE Serving
  BY <1>5 DEF Serving, ServeStarts, Answer, ServeEnds, Controlled, janVars, histVars
<1>6. CASE Cleaning
  BY <1>6
      DEF Cleaning, InspectHelper, CleanupFails, CleanupCloses, CleanupUnbinds,
          AfterKill, InCleanup, ctlVars
<1>7. CASE TunnelPublishes \/ SnapshotPublished \/ UNCHANGED vars
  BY <1>1, <1>7 DEF TunnelPublishes, SnapshotPublished, vars, ctlVars, janVars, histVars
<1> QED
  BY <1>2, <1>3, <1>4, <1>5, <1>6, <1>7 DEF Next

\* Flags stay flags.
LEMMA FlagTypeNext ==
  ASSUME TypeInv, [Next]_vars
  PROVE  FlagType'
<1> USE DEF FlagType, TypeInv
<1>1. CASE UNCHANGED <<selected, table, kept, cancelled, cause, lost>>
  BY <1>1
<1>2. CASE Environment
  BY <1>1, <1>2
      DEF Environment, Restart, UserOpens, UserActs, PlaceholderEnds, OtherResolves,
          TunnelExits, SnapshotTaken, Signal, ShutdownRequest, Killed, ProcessEnds,
          Done, vars, InRun, Controlled, tmuxVars, helpVars, ctlVars, histVars
<1>3. CASE Helping
  BY <1>3
      DEF Helping, Ensure, ReadGeneration, ResolveTarget, Create, Link, Mark, Configure,
          Sets, Bind, CloseUnmarked, CloseHelper, Unbind, Rest, tmuxVars, ctlVars,
          histVars
<1>4. CASE Looping
  BY <1>4
      DEF Looping, StartMirror, WaitForControl, PublishRecord, LoopDone, LoopControl,
          LoopEvent, ValidateHelper, ValidateSource, Validates, StopControl,
          ShutdownMirror, Exit, ProcessEnds, Ends, InRun, tmuxVars, helpVars, ctlVars,
          histVars
<1>5. CASE Serving \/ TunnelPublishes \/ SnapshotPublished \/ UNCHANGED vars
  BY <1>1, <1>5
      DEF Serving, ServeStarts, Answer, ServeEnds, Controlled, TunnelPublishes,
          SnapshotPublished, vars, tmuxVars, helpVars, ctlVars, histVars
<1>6. CASE Cleaning
  BY <1>6
      DEF Cleaning, InspectHelper, CleanupFails, CleanupCloses, CleanupUnbinds,
          InCleanup, helpVars, ctlVars
<1> QED
  BY <1>2, <1>3, <1>4, <1>5, <1>6 DEF Next

\* Published keeps the channel within its capacity.
LEMMA PublishFits ==
  ASSUME MirrorType, NEW s \in {"ready", "failed", "stopped"}, Publish(s)
  PROVE  /\ events' \in Seq({"starting", "ready", "failed", "stopped"})
         /\ Len(events') <= Capacity /\ overtaken' \in BOOLEAN
<1>1. overtaken' \in BOOLEAN
  BY DEF Publish, MirrorType
<1>2. CASE Len(events) < Capacity
  <2>1. events' = Append(events, s)
    BY <1>2 DEF Publish, Published
  <2> QED
    BY <1>1, <1>2, <2>1, ServiceAssumption DEF MirrorType
<1>3. CASE ~(Len(events) < Capacity)
  <2>1. events' = <<s>>
    BY <1>3 DEF Publish, Published
  <2> QED
    BY <1>1, <2>1, ServiceAssumption
<1> QED
  BY <1>2, <1>3

\* The mirror's state stays within its bounds.
LEMMA MirrorTypeNext ==
  ASSUME TypeInv, [Next]_vars
  PROVE  MirrorType'
<1> USE DEF TypeInv
<1>1. CASE UNCHANGED mirVars
  BY <1>1 DEF MirrorType, mirVars
<1>2. CASE StartMirror
  <2>1. /\ mirror' \in {"ready", "failed"} /\ UNCHANGED <<watch, taken, shots, overtaken>>
        /\ events' \in {<<"starting", "ready">>, <<"starting", "failed">>}
    BY <1>2 DEF StartMirror
  <2>2. events' \in Seq({"starting", "ready", "failed", "stopped"}) /\ Len(events') = 2
    <3>1. CASE events' = <<"starting", "ready">>
      BY <3>1
    <3>2. CASE events' = <<"starting", "failed">>
      BY <3>2
    <3> QED
      BY <2>1, <3>1, <3>2
  <2> QED
    BY <2>1, <2>2, ServiceAssumption DEF MirrorType
<1>3. CASE TunnelExits
  BY <1>3 DEF TunnelExits, MirrorType
<1>4. CASE TunnelPublishes
  BY <1>4, PublishFits DEF TunnelPublishes, MirrorType
<1>5. CASE SnapshotTaken
  BY <1>5, ServiceAssumption DEF SnapshotTaken, MirrorRuns, MirrorType
<1>6. CASE SnapshotPublished
  BY <1>6, PublishFits DEF SnapshotPublished, MirrorType
<1>7. CASE LoopEvent
  <2>1. /\ events # <<>> /\ events' = Tail(events)
        /\ UNCHANGED <<mirror, watch, taken, shots, overtaken>>
    BY <1>7 DEF LoopEvent
  <2>2. /\ events' \in Seq({"starting", "ready", "failed", "stopped"})
        /\ Len(events') = Len(events) - 1
    BY <2>1 DEF MirrorType
  <2> QED
    BY <2>1, <2>2, ServiceAssumption DEF MirrorType
<1>8. CASE ShutdownMirror
  BY <1>8, PublishFits DEF ShutdownMirror, MirrorType
<1>9. CASE Exit \/ Killed
  <2>1. /\ mirror' = "off" /\ watch' = "done" /\ taken' = {} /\ events' = <<>>
        /\ UNCHANGED <<shots, overtaken>>
    BY <1>9 DEF Exit, Killed, ProcessEnds
  <2> QED
    BY <2>1, ServiceAssumption DEF MirrorType
<1>10. CASE Helping \/ Serving \/ Cleaning
  BY <1>1, <1>10
      DEF Helping, Ensure, ReadGeneration, ResolveTarget, Create, Link, Mark, Configure,
          Sets, Bind, CloseUnmarked, CloseHelper, Unbind, Rest, Serving, ServeStarts,
          Answer, ServeEnds, Controlled, Cleaning, InspectHelper, CleanupFails,
          CleanupCloses, CleanupUnbinds, InCleanup
<1>11. CASE Environment /\ ~(TunnelExits \/ SnapshotTaken \/ Killed)
  BY <1>1, <1>11
      DEF Environment, Restart, UserOpens, UserActs, PlaceholderEnds, OtherResolves,
          Signal, ShutdownRequest, Controlled, Done, vars
<1>12. CASE Looping /\ ~(StartMirror \/ LoopEvent \/ ShutdownMirror \/ Exit)
  BY <1>1, <1>12
     DEF Looping, WaitForControl, PublishRecord, LoopDone, LoopControl, ValidateHelper,
         ValidateSource, Validates, StopControl
<1> QED
  BY <1>1, <1>2, <1>3, <1>4, <1>5, <1>6, <1>7, <1>8, <1>9, <1>10, <1>11, <1>12
      DEF Next, vars

\* Sessions and mishaps are counted within their bounds.
LEMMA CountTypeNext ==
  ASSUME TypeInv, [Next]_vars
  PROVE  CountType'
<1> USE DEF TypeInv, CountType
<1>0. {LastId, Mishaps} \subseteq Nat /\ LastId >= 1
  BY ServiceAssumption
<1>1. spent' = spent \/ Mishap
  BY DEF Next, Environment, Restart, UserOpens, UserActs, PlaceholderEnds,
         OtherResolves, TunnelExits, SnapshotTaken, Signal, ShutdownRequest, Killed,
         Done, vars, Helping, Ensure, ReadGeneration, ResolveTarget, Create, Link, Mark,
         Configure, Sets, Bind, CloseUnmarked, CloseHelper, Unbind, Looping,
         StartMirror, WaitForControl, PublishRecord, LoopDone, LoopControl, LoopEvent,
         ValidateHelper, ValidateSource, Validates, StopControl, ShutdownMirror, Exit,
         Serving, ServeStarts, Answer, ServeEnds, Cleaning, InspectHelper, CleanupFails,
         CleanupCloses, CleanupUnbinds, TunnelPublishes, SnapshotPublished
<1>2. spent' \in 0..Mishaps
  BY <1>0, <1>1 DEF Mishap
<1>3. CASE Restart \/ UserOpens \/ Create
  <2>1. next' \in {1, next} \/ (next <= LastId /\ next' = next + 1)
    BY <1>0, <1>3 DEF Restart, UserOpens, Create
  <2> QED
    BY <1>0, <1>2, <2>1
<1>4. CASE ~(Restart \/ UserOpens \/ Create)
  <2>1. next' = next
    BY <1>4
        DEF Next, Environment, UserActs, PlaceholderEnds, OtherResolves, TunnelExits,
            SnapshotTaken, Signal, ShutdownRequest, Killed, ProcessEnds, Done, vars,
            tmuxVars, Controlled, InRun, InCleanup, Helping, Ensure, ReadGeneration,
            ResolveTarget, Link, Mark, Configure, Sets, Bind, CloseUnmarked,
            CloseHelper, Unbind, Looping, StartMirror, WaitForControl, PublishRecord,
            LoopDone, LoopControl, LoopEvent, ValidateHelper, ValidateSource, Validates,
            StopControl, ShutdownMirror, Exit, Serving, ServeStarts, Answer, ServeEnds,
            Cleaning, InspectHelper, CleanupFails, CleanupCloses, CleanupUnbinds,
            TunnelPublishes, SnapshotPublished
  <2> QED
    BY <1>2, <2>1
<1> QED
  BY <1>3, <1>4

\* Every step keeps the types.
LEMMA TypeInvNext == TypeInv /\ [Next]_vars => TypeInv'
  BY RunTypeNext, FlagTypeNext, MirrorTypeNext, CountTypeNext DEF TypeInv

(* Every variable of the worker keeps its type, and the mirror's event channel never   *)
(* holds more than its capacity, however publishers and the loop interleave            *)
(* (publishSnapshot in manager.go, the loop of Run in service.go).                     *)
THEOREM WorkerTypeCorrect == Spec => []TypeOK
<1>1. Init => OwnInv /\ TypeInv
  BY OwnInvInit, TypeInvInit
<1>2. OwnInv /\ TypeInv /\ [Next]_vars => (OwnInv /\ TypeInv)'
  BY OwnInvNext, TypeInvNext
<1>3. OwnInv /\ TypeInv => TypeOK
  BY TypeInvTypes
<1> QED
  BY <1>1, <1>2, <1>3, PTL DEF Spec

-----------------------------------------------------------------------------
(***************************************************************************)
(* The answer to the shutdown request.                                     *)
(***************************************************************************)
\* A request that is still being answered keeps the control server, and a control server
\* that is still there keeps the worker from ending, or the record is kept.
AnswerInv ==
    /\ request = "running" =>
        cancelled /\ (ctl = "serving" \/ pc = "dead" \/ (pc = "gone" /\ kept))
    /\ ctl \in {"starting", "serving"} =>
        \/ pc \in {"control", "publish", "loop", "source", "stopctl"}
        \/ pc \in {"shutdown", "close", "unbind", "exit"} /\ kept

\* Every step keeps it: Serve waits for its connections, stopctl for Serve.
LEMMA AnswerInvNext ==
  ASSUME AnswerInv, TypeInv, [Next]_vars
  PROVE  AnswerInv'
<1> USE DEF Goes, AnswerInv
<1>0. cancelled \in BOOLEAN /\ kept \in BOOLEAN
  BY DEF TypeInv, FlagType
<1>1. CASE UNCHANGED <<pc, ctl, request, kept, cancelled>>
  BY <1>1
<1>2. CASE Environment
  <2>1. CASE Signal \/ ShutdownRequest
    BY <1>0, <2>1 DEF Signal, ShutdownRequest, Controlled, helpVars
  <2>2. CASE Killed
    BY <1>0, <2>2 DEF Killed, ProcessEnds, InRun
  <2>3. CASE ~(Signal \/ ShutdownRequest \/ Killed)
    BY <1>1, <1>2, <2>3
       DEF Environment, Restart, UserOpens, UserActs, PlaceholderEnds, OtherResolves,
           TunnelExits, SnapshotTaken, Done, vars, ctlVars, helpVars
  <2> QED
    BY <2>1, <2>2, <2>3
<1>3. CASE Helping
  <2>1. UNCHANGED <<ctl, request, cancelled>> /\ (kept => kept')
    BY <1>3
        DEF Helping, Ensure, ReadGeneration, ResolveTarget, Create, Link, Mark,
            Configure, Sets, Bind, CloseUnmarked, CloseHelper, Unbind, Rest, ctlVars
  <2>2. /\ pc \in {"close", "unbind"} => pc' \in {"unbind", "exit"}
        /\ pc \notin {"control", "publish", "loop", "source", "stopctl", "shutdown", "exit",
                      "gone", "dead"}
    BY <1>3
        DEF Helping, Ensure, ReadGeneration, ResolveTarget, Create, Link, Mark,
            Configure, Sets, Bind, CloseUnmarked, CloseHelper, Unbind, AfterKill
  <2> QED
    BY <1>0, <2>1, <2>2
<1>4. CASE Looping
  <2>1. CASE StartMirror
    BY <1>0, <2>1 DEF StartMirror, helpVars
  <2>2. CASE WaitForControl \/ PublishRecord
    BY <1>0, <2>2 DEF WaitForControl, PublishRecord, ControlDone, InRun, ctlVars
  <2>3. CASE LoopDone \/ LoopControl \/ LoopEvent
    BY <1>0, <2>3
        DEF LoopDone, LoopControl, LoopEvent, ControlDone, Ends, InRun, ctlVars
  <2>4. CASE ValidateHelper \/ ValidateSource
    BY <1>0, <2>4 DEF ValidateHelper, ValidateSource, Validates, Ends, InRun, ctlVars
  <2>5. CASE StopControl
    BY <1>0, <2>5 DEF StopControl, ControlDone, InRun, TypeInv, RunType
  <2>6. CASE ShutdownMirror \/ Exit
    BY <1>0, <2>6 DEF ShutdownMirror, Exit, ProcessEnds, InRun, ctlVars
  <2> QED
    BY <1>4, <2>1, <2>2, <2>3, <2>4, <2>5, <2>6 DEF Looping
<1>5. CASE Serving
  BY <1>0, <1>5
      DEF Serving, ServeStarts, Answer, ServeEnds, ClientsGone, Controlled, helpVars
<1>6. CASE Cleaning \/ TunnelPublishes \/ SnapshotPublished \/ UNCHANGED vars
  BY <1>1, <1>6
      DEF Cleaning, InspectHelper, CleanupFails, CleanupCloses, CleanupUnbinds,
          InCleanup, TunnelPublishes, SnapshotPublished, vars, ctlVars, helpVars
<1> QED
  BY <1>2, <1>3, <1>4, <1>5, <1>6 DEF Next

(* A shutdown request that ended the worker is answered before it exits: Serve waits  *)
(* for its connections and Run for Serve (control/server.go, service.go), or the       *)
(* record says that the cleanup failed.                                                *)
THEOREM ShutdownAlwaysAnswered == Spec => []ShutdownAnswered
<1>1. Init => TypeInv /\ AnswerInv
  BY TypeInvInit DEF Init, AnswerInv
<1>2. TypeInv /\ AnswerInv /\ [Next]_vars => (TypeInv /\ AnswerInv)'
  BY TypeInvNext, AnswerInvNext
<1>3. TypeInv /\ AnswerInv => ShutdownAnswered
  BY DEF AnswerInv, ShutdownAnswered
<1> QED
  BY <1>1, <1>2, <1>3, PTL DEF Spec

-----------------------------------------------------------------------------
(***************************************************************************)
(* The snapshots that end the worker.                                      *)
(***************************************************************************)
\* A failed snapshot is on the channel.
Failing == \E k \in 1..Len(events) : events[k] = "failed"

\* Where a worker has not started its mirror yet.
Starting ==
    {"ensure", "read", "display", "create", "link", "mark", "configure", "bind", "start"}

\* Nothing has failed while the worker runs and its tunnel was not seen to exit: not the
\* mirror, not a snapshot that was taken and not one that was published.
FailedInv ==
    /\ pc \in Starting => mirror = "off"
    /\ mirror = "off" => taken = {}
    /\ pc \in {"control", "publish", "loop", "source"} /\ watch = "idle" =>
        mirror # "failed" /\ "failed" \notin taken /\ ~Failing
    /\ reason = "failed" => watch # "idle"

\* Publishing a snapshot that is not failed makes nothing fail, and neither does a receive.
LEMMA PublishFails ==
  ASSUME MirrorType, ~Failing
  PROVE  /\ \A s \in {"ready", "stopped"} : Publish(s) => ~Failing'
         /\ events # <<>> => Head(events) # "failed"
         /\ events # <<>> /\ events' = Tail(events) => ~Failing'
<1>1. events \in Seq({"starting", "ready", "failed", "stopped"}) /\ Len(events) \in Nat
  BY DEF MirrorType
<1>2. ASSUME NEW s \in {"ready", "stopped"}, Publish(s) PROVE ~Failing'
  <2>1. CASE events' = Append(events, s)
    BY <1>1, <2>1 DEF Failing
  <2>2. CASE events' = <<s>>
    BY <2>2 DEF Failing
  <2> QED
    BY <1>2, <2>1, <2>2 DEF Publish, Published
<1>3. events # <<>> => Head(events) # "failed"
  BY <1>1 DEF Failing
<1>4. ASSUME events # <<>>, events' = Tail(events) PROVE ~Failing'
  BY <1>1, <1>4 DEF Failing
<1> QED
  BY <1>2, <1>3, <1>4

\* Every step keeps it: only watchTunnel makes a running mirror fail.
LEMMA FailedInvNext ==
  ASSUME FailedInv, TypeInv, [Next]_vars
  PROVE  FailedInv'
<1> USE DEF Goes, FailedInv, Starting
<1>0. MirrorType
  BY DEF TypeInv
<1>1. ASSUME UNCHANGED <<mirror, watch, taken, events, reason>>,
             pc' \in {"control", "publish", "loop", "source"} =>
                 pc \in {"control", "publish", "loop", "source"},
             pc' \in Starting => pc \in Starting
      PROVE  FailedInv'
  <2>1. Failing' = Failing
    BY <1>1 DEF Failing
  <2> QED
    BY <1>1, <2>1
<1>2. CASE Environment
  <2>1. CASE Killed
    BY <2>1 DEF Killed, ProcessEnds
  <2>2. CASE TunnelExits
    BY <2>2 DEF TunnelExits, MirrorRuns, histVars
  <2>3. CASE SnapshotTaken
    <3>1. Failing' = Failing
      BY <2>3 DEF SnapshotTaken, Failing
    <3> QED
      BY <2>3, <3>1 DEF SnapshotTaken, MirrorRuns, histVars
  <2>4. CASE ~(Killed \/ TunnelExits \/ SnapshotTaken)
    BY <1>1, <1>2, <2>4
        DEF Environment, Restart, UserOpens, UserActs, PlaceholderEnds, OtherResolves,
            Signal, ShutdownRequest, Controlled, Done, vars, mirVars, histVars
  <2> QED
    BY <2>1, <2>2, <2>3, <2>4
<1>3. CASE Helping
  <2>1. UNCHANGED <<mirror, watch, taken, events, reason>>
    BY <1>3
        DEF Helping, Ensure, ReadGeneration, ResolveTarget, Create, Link, Mark,
            Configure, Sets, Bind, CloseUnmarked, CloseHelper, Unbind, Rest, mirVars,
            histVars
  <2>2. /\ pc' \notin {"control", "publish", "loop", "source"}
        /\ pc' \in Starting => pc \in Starting
    BY <1>3
        DEF Helping, Ensure, ReadGeneration, ResolveTarget, Create, Link, Mark,
            Configure, Sets, Bind, CloseUnmarked, CloseHelper, Unbind, AfterKill
  <2> QED
    BY <1>1, <2>1, <2>2
<1>4. CASE Looping
  <2>1. CASE StartMirror
    <3>1. /\ pc = "start" /\ pc' \in {"control", "shutdown"} /\ UNCHANGED <<watch, taken, reason>>
          /\ pc' = "control" => mirror' = "ready" /\ events' = <<"starting", "ready">>
          /\ mirror' # "off"
      BY <2>1 DEF StartMirror, histVars
    <3>2. events' = <<"starting", "ready">> => ~Failing'
      BY DEF Failing
    <3> QED
      BY <3>1, <3>2
  <2>2. CASE LoopEvent
    <3>1. /\ pc = "loop" /\ events # <<>> /\ events' = Tail(events)
          /\ UNCHANGED <<mirror, watch, taken>>
          /\ \/ Head(events) = "failed" /\ pc' = "stopctl" /\ reason' = "failed"
             \/ Head(events) # "failed" /\ UNCHANGED <<pc, reason>>
      BY <2>2 DEF LoopEvent, Ends
    <3> QED
      BY <1>0, <3>1, PublishFails
  <2>3. CASE ShutdownMirror
    BY <2>3 DEF ShutdownMirror
  <2>4. CASE Exit
    BY <2>4 DEF Exit, ProcessEnds
  <2>5. CASE LoopDone \/ LoopControl \/ ValidateHelper \/ ValidateSource
    <3>1. /\ UNCHANGED <<mirror, watch, taken, events>>
          /\ pc \in {"loop", "source"} /\ pc' \in {"loop", "source", "stopctl"}
          /\ reason' # "failed" \/ reason' = reason
      BY <2>5
          DEF LoopDone, LoopControl, ValidateHelper, ValidateSource, Validates, Ends,
              mirVars
    <3>2. Failing' = Failing
      BY <3>1 DEF Failing
    <3> QED
      BY <3>1, <3>2
  <2>6. CASE WaitForControl \/ PublishRecord \/ StopControl
    BY <1>1, <2>6 DEF WaitForControl, PublishRecord, StopControl, mirVars
  <2> QED
    BY <1>4, <2>1, <2>2, <2>3, <2>4, <2>5, <2>6 DEF Looping
<1>5. CASE TunnelPublishes
  BY <1>5 DEF TunnelPublishes, histVars
<1>6. CASE SnapshotPublished
  <2>1. PICK s \in taken : taken' = taken \ {s} /\ Publish(s)
    BY <1>6 DEF SnapshotPublished
  <2>2. UNCHANGED <<pc, mirror, watch, reason>> /\ mirror # "off"
    BY <1>6 DEF SnapshotPublished, MirrorRuns, histVars
  <2>3. s \in {"ready", "failed", "stopped"}
    BY <1>0 DEF MirrorType
  <2> QED
    BY <1>0, <2>1, <2>2, <2>3, PublishFails
<1>7. CASE Serving \/ Cleaning \/ UNCHANGED vars
  BY <1>1, <1>7
     DEF Serving, ServeStarts, Answer, ServeEnds, Controlled, Cleaning, InspectHelper,
         CleanupFails, CleanupCloses, CleanupUnbinds, InCleanup, vars, mirVars, histVars
<1> QED
  BY <1>2, <1>3, <1>4, <1>5, <1>6, <1>7 DEF Next

-----------------------------------------------------------------------------
(***************************************************************************)
(* What is left of the helper.                                             *)
(***************************************************************************)
\* Before CreateHelper, and between the mark and the end of the helper.
Early  == {"ensure", "read", "display", "create"}
Marked == {"configure", "bind", "start", "control", "publish", "loop", "source", "stopctl",
           "shutdown", "close"}

\* The only session of Wrap is the worker's helper.  It shows the target before it is
\* marked, and is marked before the worker uses it: so the guard on the mark finds it.
LeftInv ==
    /\ \A i \in Ids : sess[i].by = "wrap" => i = hid /\ pc \notin Early
    /\ sess[hid].by = "wrap" /\ (sess[hid].mark \/ pc = "mark") => sess[hid].win = "target"
    /\ pc \in Marked /\ Leftover(hid) => sess[hid].mark
    /\ pc = "unbind" \/ (pc \in {"exit", "gone"} /\ ~kept /\ ~lost) => ~Leftover(hid)
    /\ janitor # "idle" => pc \in {"gone", "dead"}
    /\ janitor = "close" => jid = hid
    /\ janitor \in {"unbind", "done"} /\ Leftover(hid) => ~sess[hid].mark

\* A step that leaves no session of Wrap that was not there before, and does not go back.
LEMMA LeftFewer ==
  ASSUME LeftInv, OwnInv, UNCHANGED <<want, hid, jid, janitor>>,
         kept => kept', lost => lost',
         \A i \in Ids : sess'[i].by = "wrap" =>
             /\ sess[i].by = "wrap" /\ sess'[i].mark = sess[i].mark /\ sess'[i].win = sess[i].win
             /\ sess'[i].name = "helper" => sess[i].name = "helper",
         sess'[hid].by = "wrap" /\ gen' = want => gen = want,
         \/ pc' = pc \/ pc' = "dead"
         \/ pc \in Marked /\ pc' \in Marked
         \/ pc = "exit" /\ pc' = "gone"
  PROVE  LeftInv'
<1>0. hid \in Ids
  BY DEF OwnInv, Shapes
<1>1. Leftover(hid)' => Leftover(hid)
  BY <1>0 DEF Leftover
<1>2. \A i \in Ids : sess'[i].by = "wrap" => i = hid' /\ pc' \notin Early
  BY DEF LeftInv, Early, Marked
<1>3. /\ sess'[hid].by = "wrap" /\ (sess'[hid].mark \/ pc' = "mark") => sess'[hid].win = "target"
      /\ pc' \in Marked /\ Leftover(hid)' => sess'[hid].mark
  BY <1>0, <1>1 DEF LeftInv, Leftover, Marked
<1>4. pc' = "unbind" \/ (pc' \in {"exit", "gone"} /\ ~kept' /\ ~lost') => ~Leftover(hid)'
  BY <1>1 DEF LeftInv, Marked
<1>5. janitor # "idle" => pc' \in {"gone", "dead"}
  BY DEF LeftInv, Marked
<1>6. janitor \in {"unbind", "done"} /\ Leftover(hid)' => ~sess'[hid].mark
  BY <1>0, <1>1 DEF LeftInv, Leftover
<1> QED
  BY <1>2, <1>3, <1>4, <1>5, <1>6 DEF LeftInv, Leftover

\* In particular one that leaves tmux alone.
LEMMA LeftFrame ==
  ASSUME LeftInv, OwnInv, UNCHANGED <<gen, sess, want, hid, jid, janitor>>,
         kept => kept', lost => lost',
         \/ pc' = pc \/ pc' = "dead"
         \/ pc \in Marked /\ pc' \in Marked
         \/ pc = "exit" /\ pc' = "gone"
  PROVE  LeftInv'
  BY LeftFewer

\* A step before CreateHelper, or one that leaves no session of Wrap.
LEMMA LeftNone ==
  ASSUME \A i \in Ids : sess'[i].by # "wrap", hid' \in Ids, janitor' = "idle"
  PROVE  LeftInv'
  BY DEF LeftInv, Leftover

\* The tmux server and the user.
LEMMA LeftServer ==
  ASSUME LeftInv, OwnInv,
         Restart \/ UserOpens \/ UserActs \/ PlaceholderEnds \/ OtherResolves
  PROVE  LeftInv'
<1> USE DEF Mishap
<1>0. /\ UNCHANGED <<pc, want, hid, kept, jid, janitor, lost>> /\ hid \in Ids
      /\ sess \in [Ids -> Session] /\ 0 \in Ids
  BY ServiceAssumption
      DEF Restart, UserOpens, UserActs, PlaceholderEnds, OtherResolves, helpVars,
          janVars, histVars, OwnInv, Shapes, Ids
<1>1. CASE Restart
  BY <1>0, <1>1, NoSessionShape, LeftFewer DEF Restart
<1>2. CASE UserOpens
  <2> DEFINE s == [UserSession EXCEPT !.win = "none"]
  <2>1. s.by = "user"
    BY DEF UserSession
  <2>2. sess' = [sess EXCEPT ![next] = s] /\ gen' = gen
    BY <1>2 DEF UserOpens
  <2> HIDE DEF s
  <2> QED
    BY <1>0, <2>1, <2>2, LeftFewer
<1>3. CASE UserActs
  <2>0. gen' = gen
    BY <1>3 DEF UserActs
  <2>1. CASE UNCHANGED sess
    BY <1>0, <2>0, <2>1, LeftFrame
  <2>2. CASE sess' = [sess EXCEPT ![0] = NoSession]
    BY <1>0, <2>0, <2>2, NoSessionShape, LeftFewer
  <2>3. CASE sess' = [i \in Ids |-> IF sess[i].win = "target" THEN NoSession ELSE sess[i]]
    BY <1>0, <2>0, <2>3, NoSessionShape, LeftFewer
  <2>4. CASE \E i \in Ids : sess[i].by = "wrap" /\
               \E s \in {NoSession, [sess[i] EXCEPT !.name = "other"]} :
                   sess' = [sess EXCEPT ![i] = s]
    <3>1. PICK i \in Ids : sess[i].by = "wrap" /\
               \E s \in {NoSession, [sess[i] EXCEPT !.name = "other"]} :
                   sess' = [sess EXCEPT ![i] = s]
      BY <2>4
    <3>2. PICK s \in {NoSession, [sess[i] EXCEPT !.name = "other"]} :
              sess' = [sess EXCEPT ![i] = s]
      BY <3>1
    <3>3. sess[i] \in Session
      BY <1>0
    <3>4. \/ s.by = "none"
          \/ /\ s.by = "wrap" /\ s.name = "other" /\ s.mark = sess[i].mark
             /\ s.win = sess[i].win
      BY <3>1, <3>2, <3>3, NoSessionShape DEF Session
    <3> QED
      BY <1>0, <2>0, <3>1, <3>2, <3>4, LeftFewer
  <2> QED
    BY <1>3, <2>1, <2>2, <2>3, <2>4 DEF UserActs
<1>4. CASE PlaceholderEnds
  <2>1. PICK i \in Ids : sess' = [sess EXCEPT ![i] = NoSession]
    BY <1>4 DEF PlaceholderEnds
  <2>2. gen' = gen
    BY <1>4 DEF PlaceholderEnds
  <2> QED
    BY <1>0, <2>1, <2>2, NoSessionShape, LeftFewer
<1>5. CASE OtherResolves
  <2>1. gen' = gen \/ gen' = coined + 1
    BY <1>5 DEF OtherResolves, Identified, EnsureServerGeneration
  <2>2. gen' = want => gen = want
    BY <2>1 DEF OwnInv, Shapes, GenerationsAreFresh
  <2> QED
    BY <1>0, <1>5, <2>2, LeftFewer DEF OtherResolves
<1> QED
  BY <1>1, <1>2, <1>3, <1>4, <1>5

\* CreateHelper, and the calls that close the helper.
LEMMA LeftHelping ==
  ASSUME LeftInv, OwnInv, Helping
  PROVE  LeftInv'
<1> USE DEF Goes
<1>0. /\ hid \in Ids /\ sess \in [Ids -> Session] /\ sess[hid] \in Session
      /\ UNCHANGED <<jid, janitor>>
  BY DEF OwnInv, Shapes, Helping, Ensure, ReadGeneration, ResolveTarget, Create, Link,
         Mark, Configure, Sets, Bind, CloseUnmarked, CloseHelper, Unbind, Rest, janVars
<1>1. pc \notin {"gone", "dead"}
  BY DEF Helping, Ensure, ReadGeneration, ResolveTarget, Create, Link, Mark, Configure,
         Sets, Bind, CloseUnmarked, CloseHelper, Unbind
<1>2. janitor = "idle"
  BY <1>1 DEF LeftInv
<1>3. CASE Ensure \/ ReadGeneration \/ ResolveTarget
  <2>1. pc \in Early /\ UNCHANGED <<sess, hid>>
    BY <1>3 DEF Ensure, ReadGeneration, ResolveTarget, tmuxVars, Early
  <2> QED
    BY <1>0, <1>2, <2>1, LeftNone DEF LeftInv
<1>4. CASE Create
  <2>1. pc = "create" /\ (\A i \in Ids : sess[i].by # "wrap")
    BY <1>4 DEF Create, LeftInv, Early
  <2>2. CASE UNCHANGED <<sess, hid>>
    BY <1>0, <1>2, <2>1, <2>2, LeftNone
  <2>3. CASE /\ next <= LastId /\ hid' = next /\ sess' = [sess EXCEPT ![next] = HelperSession]
             /\ pc' = "link" \/ (pc' = "exit" /\ lost')
    <3>1. next \in Ids
      BY <2>3, ServiceAssumption DEF OwnInv, Shapes, Ids
    <3>2. sess'[next] = HelperSession /\ \A i \in Ids : i # next => sess'[i].by # "wrap"
      BY <1>0, <2>1, <2>3, <3>1
    <3>3. HelperSession.mark = FALSE
      BY DEF HelperSession
    <3> QED
      BY <1>0, <1>2, <2>3, <3>1, <3>2, <3>3 DEF LeftInv, Early, Marked
  <2> QED
    BY <1>4, <2>2, <2>3 DEF Create
<1>5. CASE Link
  <2>0. /\ pc = "link" /\ UNCHANGED <<gen, want, hid>> /\ pc' \in {"mark", "close_unmarked"}
    BY <1>5 DEF Link, Rest
  <2>1. CASE pc' = "close_unmarked" /\ UNCHANGED sess
    BY <1>0, <1>2, <2>0, <2>1 DEF LeftInv, Early, Marked
  <2>2. CASE pc' = "mark" /\ sess' = [sess EXCEPT ![hid].win = "target"]
    <3> DEFINE s == [sess[hid] EXCEPT !.win = "target"]
    <3>1. s.by = sess[hid].by /\ s.win = "target"
      BY <1>0 DEF Session
    <3>2. sess'[hid] = s /\ \A i \in Ids : i # hid => sess'[i] = sess[i]
      BY <1>0, <2>2
    <3> HIDE DEF s
    <3> QED
      BY <1>0, <1>2, <2>0, <2>2, <3>1, <3>2 DEF LeftInv, Early, Marked
  <2> QED
    BY <1>5, <2>1, <2>2 DEF Link
<1>6. CASE Mark
  <2> DEFINE s == [sess[hid] EXCEPT !.mark = TRUE]
  <2>0. /\ pc = "mark" /\ UNCHANGED <<gen, want, hid>>
        /\ \/ pc' = "configure" /\ sess' = [sess EXCEPT ![hid] = s]
           \/ pc' = "close_unmarked" /\ UNCHANGED sess
    BY <1>6 DEF Mark, Sets, Rest
  <2>1. s.by = sess[hid].by /\ s.win = sess[hid].win /\ s.mark
    BY <1>0 DEF Session
  <2> HIDE DEF s
  <2>2. CASE pc' = "close_unmarked" /\ UNCHANGED sess
    BY <1>0, <1>2, <2>0, <2>2 DEF LeftInv, Early, Marked
  <2>3. CASE pc' = "configure" /\ sess' = [sess EXCEPT ![hid] = s]
    <3>1. sess'[hid] = s /\ \A i \in Ids : i # hid => sess'[i] = sess[i]
      BY <1>0, <2>3
    <3> QED
      BY <1>0, <1>2, <2>0, <2>1, <2>3, <3>1 DEF LeftInv, Early, Marked
  <2> QED
    BY <2>0, <2>2, <2>3
<1>7. CASE Configure \/ Bind
  <2>1. /\ pc \in Marked /\ pc' \in Marked /\ UNCHANGED <<gen, want, hid, kept, lost>>
        /\ \A i \in Ids : sess'[i] = sess[i]
    BY <1>0, <1>7 DEF Configure, Sets, Bind, Rest, Marked
  <2> QED
    BY <1>0, <2>1, LeftFewer
<1>8. CASE CloseUnmarked
  <2>0. pc' = "exit" /\ UNCHANGED <<gen, want, hid>>
    BY <1>8 DEF CloseUnmarked, Rest
  <2>1. CASE lost' /\ UNCHANGED sess
    BY <1>0, <1>2, <1>8, <2>0, <2>1 DEF CloseUnmarked, LeftInv, Early, Marked
  <2>2. CASE Kills(hid, IsHelper(hid))
    <3>1. \A i \in Ids : sess'[i].by = "wrap" => sess'[i] = sess[i]
      BY <1>0, <2>2, NoSessionShape DEF Kills
    <3>2. ~Leftover(hid)'
      BY <1>0, <2>0, <2>2, NoSessionShape DEF Kills, IsHelper, Leftover
    <3> QED
      BY <1>0, <1>2, <1>8, <2>0, <3>1, <3>2
          DEF CloseUnmarked, LeftInv, Early, Marked, Leftover
  <2> QED
    BY <1>8, <2>1, <2>2 DEF CloseUnmarked
<1>9. CASE CloseHelper
  <2>0. pc = "close" /\ pc' \in {"exit", "unbind"} /\ UNCHANGED <<gen, want, hid>>
    BY <1>9 DEF CloseHelper, AfterKill, Rest
  <2>1. CASE kept' /\ UNCHANGED sess /\ pc' = "exit"
    BY <1>0, <1>2, <2>0, <2>1 DEF LeftInv, Early, Marked
  <2>2. CASE Kills(hid, IsMarkedHelper(hid))
    <3>1. \A i \in Ids : sess'[i].by = "wrap" => sess'[i] = sess[i]
      BY <1>0, <2>2, NoSessionShape DEF Kills
    <3>2. Leftover(hid) => IsMarkedHelper(hid)
      BY <2>0 DEF LeftInv, Leftover, IsMarkedHelper, IsHelper, Marked
    <3>3. ~Leftover(hid)'
      BY <1>0, <2>0, <2>2, <3>2, NoSessionShape DEF Kills, Leftover
    <3> QED
      BY <1>0, <1>2, <2>0, <3>1, <3>3 DEF LeftInv, Early, Marked, Leftover
  <2> QED
    BY <1>9, <2>1, <2>2 DEF CloseHelper
<1>10. CASE Unbind
  <2>1. pc = "unbind" /\ pc' = "exit" /\ UNCHANGED <<gen, sess, want, hid>>
    BY <1>10 DEF Unbind, Rest
  <2> QED
    BY <1>0, <1>2, <2>1 DEF LeftInv, Early, Marked, Leftover
<1> QED
  BY <1>3, <1>4, <1>5, <1>6, <1>7, <1>8, <1>9, <1>10 DEF Helping

\* The cleanup after the worker: the helper is the only session it can find.
LEMMA LeftCleaning ==
  ASSUME LeftInv, OwnInv, Cleaning
  PROVE  LeftInv'
<1>0. /\ hid \in Ids /\ jid \in Ids /\ sess \in [Ids -> Session]
      /\ UNCHANGED <<gen, pc, want, hid, kept, lost>>
  BY DEF OwnInv, Shapes, Cleaning, InspectHelper, CleanupFails, CleanupCloses,
         CleanupUnbinds, InCleanup, helpVars
<1>1. CASE InspectHelper
  <2>1. pc \in {"gone", "dead"} /\ UNCHANGED sess
    BY <1>1 DEF InspectHelper, Abandoned
  <2>2. \A i \in Ids : IsMarkedHelper(i) => i = hid
    BY DEF IsMarkedHelper, IsHelper, OwnInv, NameIsOwn, LeftInv
  <2>3. /\ janitor' \in {"close", "done"}
        /\ janitor' = "close" => jid' = hid
        /\ janitor' = "done" => ~(IsMarkedHelper(hid) /\ sess[hid].win = "target")
    BY <1>0, <1>1, <2>2 DEF InspectHelper
  <2>4. janitor' = "done" /\ Leftover(hid) => ~sess[hid].mark
    BY <2>3 DEF LeftInv, Leftover, IsMarkedHelper, IsHelper
  <2> QED
    BY <1>0, <2>1, <2>3, <2>4 DEF LeftInv, Leftover
<1>2. CASE CleanupFails
  BY <1>0, <1>2 DEF CleanupFails, LeftInv, Leftover
<1>3. CASE CleanupCloses
  <2>1. /\ janitor = "close" /\ jid = hid /\ jid' = jid /\ janitor' \in {"unbind", "done"}
        /\ Kills(hid, IsMarkedHelper(hid)) /\ pc \in {"gone", "dead"}
    BY <1>3 DEF CleanupCloses, AfterKill, LeftInv
  <2>2. \A i \in Ids : sess'[i].by = "wrap" => sess'[i] = sess[i]
    BY <1>0, <2>1, NoSessionShape DEF Kills
  <2>3. Leftover(hid)' => ~sess'[hid].mark /\ Leftover(hid)
    BY <1>0, <2>1, <2>2, NoSessionShape DEF Kills, Leftover, IsMarkedHelper, IsHelper
  <2> QED
    BY <1>0, <2>1, <2>2, <2>3 DEF LeftInv, Leftover, Early, Marked
<1>4. CASE CleanupUnbinds
  BY <1>0, <1>4 DEF CleanupUnbinds, LeftInv, Leftover
<1> QED
  BY <1>1, <1>2, <1>3, <1>4 DEF Cleaning

\* Every step keeps what is known of the helper.
LEMMA LeftNext ==
  ASSUME LeftInv, OwnInv, TypeInv, [Next]_vars
  PROVE  LeftInv'
<1> USE DEF Goes, Marked
<1>1. CASE Environment \/ Serving \/ TunnelPublishes \/ SnapshotPublished \/ UNCHANGED vars
  <2>1. CASE Restart \/ UserOpens \/ UserActs \/ PlaceholderEnds \/ OtherResolves
    BY <2>1, LeftServer
  <2>2. CASE ~(Restart \/ UserOpens \/ UserActs \/ PlaceholderEnds \/ OtherResolves)
    BY <1>1, <2>2, LeftFrame
        DEF Environment, TunnelExits, SnapshotTaken, Signal, ShutdownRequest, Killed,
            ProcessEnds, Done, InRun, Serving, ServeStarts, Answer, ServeEnds,
            Controlled, TunnelPublishes, SnapshotPublished, vars, tmuxVars, helpVars,
            janVars, histVars
  <2> QED
    BY <2>1, <2>2
<1>2. CASE Helping
  BY <1>2, LeftHelping
<1>3. CASE Looping
  <2>1. UNCHANGED <<gen, sess, want, hid, jid, janitor, lost>>
    BY <1>3
        DEF Looping, StartMirror, WaitForControl, PublishRecord, LoopDone, LoopControl,
            LoopEvent, ValidateHelper, ValidateSource, Validates, StopControl,
            ShutdownMirror, Exit, ProcessEnds, InRun, tmuxVars, helpVars, janVars,
            histVars
  <2>2. kept => kept'
    BY <1>3
        DEF Looping, StartMirror, WaitForControl, PublishRecord, LoopDone, LoopControl,
            LoopEvent, ValidateHelper, ValidateSource, Validates, StopControl,
            ShutdownMirror, Exit, ProcessEnds, helpVars, TypeInv, FlagType
  <2>3. (pc \in Marked /\ pc' \in Marked) \/ (pc = "exit" /\ pc' = "gone")
    BY <1>3
        DEF Looping, StartMirror, WaitForControl, PublishRecord, LoopDone, LoopControl,
            LoopEvent, ValidateHelper, ValidateSource, Validates, StopControl,
            ShutdownMirror, Exit, ProcessEnds, Ends
  <2> QED
    BY <2>1, <2>2, <2>3, LeftFrame
<1>4. CASE Cleaning
  BY <1>4, LeftCleaning
<1> QED
  BY <1>1, <1>2, <1>3, <1>4 DEF Next

-----------------------------------------------------------------------------
(***************************************************************************)
(* What nobody touched is as the worker left it.                           *)
(***************************************************************************)
\* As long as nobody touched the target, the helper or the server: the source session is
\* there, the server has the generation of the target, the helper is as CreateHelper left
\* it, and its key table is bound only while the worker still has to unbind it.
IntactInv ==
    ~cause =>
        /\ sess[0] = UserSession
        /\ pc = "read" => gen # 0
        /\ pc \in {"display", "create", "link", "mark", "unbind"} \cup Marked =>
            gen = want /\ want # 0
        /\ pc \in {"link", "mark"} \cup Marked =>
            hid # 0 /\ hid < next /\ sess[hid].by = "wrap" /\ sess[hid].name = "helper"
        /\ pc \in Marked => sess[hid].mark /\ sess[hid].win = "target"
        /\ table => \/ pc \in Marked \cup {"unbind", "dead"}
                    \/ kept /\ pc \in {"exit", "gone"}
        /\ reason = "validate" => cancelled

\* A step that leaves the source, the helper and the key table alone, and does not go back.
LEMMA IntactFrame ==
  ASSUME IntactInv, OwnInv, TypeInv, cause => cause', UNCHANGED <<gen, want, hid>>,
         sess'[0] = sess[0],
         pc' \in {"link", "mark"} \cup Marked => sess'[hid] = sess[hid],
         next' \in Nat, next <= next', table' => table, kept => kept', cancelled => cancelled',
         ~cause' /\ reason' = "validate" => reason = "validate" \/ cancelled',
         \/ pc' = pc \/ pc' = "dead"
         \/ pc \in Marked /\ pc' \in Marked
         \/ pc = "exit" /\ pc' = "gone"
  PROVE  IntactInv'
<1> SUFFICES ASSUME ~cause' PROVE IntactInv'
  BY DEF IntactInv
<1>0. ~cause /\ hid \in Nat /\ next \in Nat
  BY DEF OwnInv, Shapes, Ids
<1>1. /\ sess'[0] = UserSession
      /\ pc' = "read" => gen' # 0
      /\ pc' \in {"display", "create", "link", "mark", "unbind"} \cup Marked =>
            gen' = want' /\ want' # 0
  BY <1>0 DEF IntactInv, Marked
<1>2. /\ pc' \in {"link", "mark"} \cup Marked =>
            /\ hid' # 0 /\ hid' < next'
            /\ sess'[hid'].by = "wrap" /\ sess'[hid'].name = "helper"
      /\ pc' \in Marked => sess'[hid'].mark /\ sess'[hid'].win = "target"
  BY <1>0 DEF IntactInv, Marked
<1>3. table' => \/ pc' \in Marked \cup {"unbind", "dead"}
                \/ kept' /\ pc' \in {"exit", "gone"}
  BY <1>0 DEF IntactInv, Marked
<1>4. reason' = "validate" => cancelled'
  BY <1>0 DEF IntactInv
<1> QED
  BY <1>1, <1>2, <1>3, <1>4 DEF IntactInv

\* The tmux server and the user: what disturbs the worker is a cause.
LEMMA IntactServer ==
  ASSUME IntactInv, OwnInv, TypeInv,
         Restart \/ UserOpens \/ UserActs \/ PlaceholderEnds \/ OtherResolves
  PROVE  IntactInv'
<1>0. sess \in [Ids -> Session] /\ hid \in Ids /\ next \in Nat /\ next >= 1
  BY DEF OwnInv, Shapes, TypeInv, CountType
<1>1. CASE cause'
  BY <1>1 DEF IntactInv
<1>2. CASE UserOpens
  <2>1. /\ UNCHANGED <<gen, want, hid, table, kept, cancelled, cause, reason, pc>>
        /\ next' = next + 1
        /\ sess' = [sess EXCEPT ![next] = [UserSession EXCEPT !.win = "none"]]
    BY <1>2 DEF UserOpens, helpVars, ctlVars, histVars
  <2>2. sess'[0] = sess[0] /\ (hid # next => sess'[hid] = sess[hid])
    BY <1>0, <2>1, ServiceAssumption DEF Ids
  <2>3. CASE cause
    BY <2>1, <2>3 DEF IntactInv
  <2>4. CASE ~cause
    <3>1. pc \in {"link", "mark"} \cup Marked => hid # next
      BY <1>0, <2>4 DEF IntactInv, Ids
    <3> QED
      BY <1>0, <2>1, <2>2, <3>1, IntactFrame
  <2> QED
    BY <2>3, <2>4
<1>3. CASE UserActs /\ UNCHANGED sess /\ UNCHANGED cause
  <2>1. UNCHANGED <<gen, want, hid, table, kept, cancelled, reason, pc, next>>
    BY <1>3 DEF UserActs, helpVars, ctlVars
  <2> QED
    BY <1>0, <1>3, <2>1, IntactFrame
<1>4. CASE OtherResolves
  <2>1. /\ UNCHANGED <<want, hid, table, kept, cancelled, cause, reason, pc, next, sess>>
        /\ gen' = (IF gen = 0 THEN coined + 1 ELSE gen)
    BY <1>4
        DEF OtherResolves, Identified, EnsureServerGeneration, helpVars, ctlVars,
            histVars
  <2>2. CASE gen = 0
    <3>1. gen' # 0
      BY <2>1, <2>2 DEF OwnInv, Shapes
    <3> QED
      BY <2>1, <2>2, <3>1 DEF IntactInv, Marked
  <2>3. CASE gen # 0
    BY <1>0, <2>1, <2>3, IntactFrame
  <2> QED
    BY <2>2, <2>3
<1> QED
  BY <1>1, <1>2, <1>3, <1>4 DEF Restart, UserActs, PlaceholderEnds

\* CreateHelper makes the helper, and the close takes it and its key table away.
LEMMA IntactHelping ==
  ASSUME IntactInv, OwnInv, TypeInv, LeftInv, Helping
  PROVE  IntactInv'
<1> USE DEF Goes
<1>0. /\ hid \in Ids /\ next \in Nat /\ next >= 1 /\ sess \in [Ids -> Session]
      /\ sess[hid] \in Session /\ 0 \in Ids /\ Ids \subseteq Nat
  BY ServiceAssumption DEF OwnInv, Shapes, TypeInv, CountType, Ids
<1>1. UNCHANGED <<cause, cancelled, reason>>
  BY DEF Helping, Ensure, ReadGeneration, ResolveTarget, Create, Link, Mark, Configure,
         Sets, Bind, CloseUnmarked, CloseHelper, Unbind, Rest, ctlVars, histVars
<1> SUFFICES ASSUME ~cause PROVE IntactInv'
  BY <1>1 DEF IntactInv
<1>2. UserSession.name = "other"
  BY DEF UserSession
<1>3. CASE Ensure
  <2>1. pc' = "read" /\ UNCHANGED <<sess, table>> /\ gen' = (IF gen = 0 THEN coined + 1 ELSE gen)
    BY <1>3 DEF Ensure, Identified, EnsureServerGeneration
  <2>2. gen' # 0 /\ pc = "ensure"
    BY <1>3, <2>1 DEF Ensure, OwnInv, Shapes
  <2> QED
    BY <1>1, <2>1, <2>2 DEF IntactInv, Marked
<1>4. CASE ReadGeneration
  <2>1. /\ pc = "read" /\ want' = gen /\ UNCHANGED <<gen, sess, table>>
        /\ pc' = IF gen = 0 THEN "gone" ELSE "display"
    BY <1>4 DEF ReadGeneration, tmuxVars
  <2> QED
    BY <1>1, <2>1 DEF IntactInv, Marked
<1>5. CASE ResolveTarget
  <2>1. /\ pc = "display" /\ UNCHANGED <<gen, sess, table, want>> /\ pc' \in {"create", "gone"}
    BY <1>5 DEF ResolveTarget, tmuxVars, Rest
  <2> QED
    BY <1>1, <2>1 DEF IntactInv, Marked
<1>6. CASE Create
  <2>1. pc = "create" /\ UNCHANGED <<gen, table, want>>
    BY <1>6 DEF Create, Rest
  <2>2. CASE UNCHANGED sess /\ pc' = "exit"
    BY <1>1, <2>1, <2>2 DEF IntactInv, Marked
  <2>3. CASE /\ next <= LastId /\ sess' = [sess EXCEPT ![next] = HelperSession]
             /\ hid' = next /\ next' = next + 1 /\ pc' \in {"link", "exit"}
    <3>1. next \in Ids /\ next # 0
      BY <1>0, <2>3, ServiceAssumption DEF Ids
    <3>2. sess'[0] = sess[0] /\ sess'[next] = HelperSession
      BY <1>0, <2>3, <3>1
    <3>3. HelperSession.by = "wrap" /\ HelperSession.name = "helper"
      BY DEF HelperSession
    <3> QED
      BY <1>0, <1>1, <2>1, <2>3, <3>1, <3>2, <3>3 DEF IntactInv, Marked
  <2> QED
    BY <1>6, <2>2, <2>3 DEF Create
<1>7. CASE Link
  <2>1. pc = "link" /\ UNCHANGED <<gen, table, want, hid, next>>
    BY <1>7 DEF Link, Rest
  <2>2. CASE UNCHANGED sess /\ pc' = "close_unmarked"
    BY <1>1, <2>1, <2>2 DEF IntactInv, Marked
  <2>3. CASE sess' = [sess EXCEPT ![hid].win = "target"] /\ pc' = "mark"
    <3> DEFINE s == [sess[hid] EXCEPT !.win = "target"]
    <3>1. s.by = sess[hid].by /\ s.name = sess[hid].name
      BY <1>0 DEF Session
    <3>2. hid # 0
      BY <2>1 DEF IntactInv
    <3>3. sess'[hid] = s /\ sess'[0] = sess[0]
      BY <1>0, <2>3, <3>2
    <3> HIDE DEF s
    <3> QED
      BY <1>0, <1>1, <2>1, <2>3, <3>1, <3>3 DEF IntactInv, Marked
  <2> QED
    BY <1>7, <2>2, <2>3 DEF Link
<1>8. CASE Mark
  <2> DEFINE s == [sess[hid] EXCEPT !.mark = TRUE]
  <2>1. /\ pc = "mark" /\ UNCHANGED <<gen, table, want, hid, next>>
        /\ \/ pc' = "configure" /\ sess' = [sess EXCEPT ![hid] = s]
           \/ pc' = "close_unmarked" /\ UNCHANGED sess
    BY <1>8 DEF Mark, Sets, Rest
  <2>2. /\ s.by = sess[hid].by /\ s.name = sess[hid].name /\ s.win = sess[hid].win
        /\ s.mark = TRUE
    BY <1>0 DEF Session
  <2> HIDE DEF s
  <2>3. hid # 0
    BY <2>1 DEF IntactInv
  <2>4. CASE pc' = "close_unmarked" /\ UNCHANGED sess
    BY <1>1, <2>1, <2>4 DEF IntactInv, Marked
  <2>5. CASE pc' = "configure" /\ sess' = [sess EXCEPT ![hid] = s]
    <3>1. sess'[hid] = s /\ sess'[0] = sess[0]
      BY <1>0, <2>3, <2>5
    <3>2. sess[hid].win = "target"
      BY <2>1, <2>5 DEF IntactInv, LeftInv
    <3> QED
      BY <1>0, <1>1, <2>1, <2>2, <2>5, <3>1, <3>2 DEF IntactInv, Marked
  <2> QED
    BY <2>1, <2>4, <2>5
<1>9. CASE Configure
  <2>1. /\ pc \in Marked /\ pc' \in Marked /\ UNCHANGED <<gen, want, hid, kept, table, next>>
        /\ \A i \in Ids : sess'[i] = sess[i]
    BY <1>0, <1>9 DEF Configure, Sets, Rest, Marked
  <2> QED
    BY <1>0, <1>1, <2>1, IntactFrame
<1>10. CASE Bind
  <2>1. /\ pc \in Marked /\ pc' \in Marked /\ UNCHANGED <<gen, want, hid, next, sess>>
    BY <1>10 DEF Bind, Rest, Marked
  <2> QED
    BY <1>1, <2>1 DEF IntactInv, Marked
<1>11. CASE CloseUnmarked
  <2>1. pc = "close_unmarked" /\ pc' = "exit" /\ UNCHANGED table
    BY <1>11 DEF CloseUnmarked
  <2>2. sess'[0] = sess[0]
    BY <1>0, <1>2, <1>11 DEF CloseUnmarked, Kills, IsHelper, IntactInv
  <2> QED
    BY <1>1, <2>1, <2>2 DEF IntactInv, Marked
<1>12. CASE CloseHelper
  <2>1. pc = "close" /\ UNCHANGED <<table, gen, want>>
    BY <1>12 DEF CloseHelper, Rest
  <2>2. IsMarkedHelper(hid) /\ gen = want /\ want # 0
    BY <2>1 DEF IntactInv, IsMarkedHelper, IsHelper, Marked
  <2>3. pc' = "unbind" \/ (pc' = "exit" /\ kept')
    BY <1>12, <2>2 DEF CloseHelper, AfterKill
  <2>4. sess'[0] = sess[0]
    BY <1>0, <1>2, <1>12 DEF CloseHelper, Kills, IsMarkedHelper, IsHelper, IntactInv
  <2> QED
    BY <1>1, <2>1, <2>2, <2>3, <2>4 DEF IntactInv, Marked
<1>13. CASE Unbind
  <2>1. pc = "unbind" /\ pc' = "exit" /\ UNCHANGED sess /\ gen = want
    BY <1>13 DEF Unbind, IntactInv
  <2>2. ~table' \/ kept'
    BY <1>13, <2>1 DEF Unbind
  <2> QED
    BY <1>1, <2>1, <2>2 DEF IntactInv, Marked
<1> QED
  BY <1>3, <1>4, <1>5, <1>6, <1>7, <1>8, <1>9, <1>10, <1>11, <1>12, <1>13 DEF Helping

\* The loop: a check that fails has a cause, or the worker was told to end.
LEMMA IntactLooping ==
  ASSUME IntactInv, OwnInv, TypeInv, Looping
  PROVE  IntactInv'
<1> USE DEF Goes
<1>0. next \in Nat /\ kept \in BOOLEAN /\ cancelled \in BOOLEAN
  BY DEF OwnInv, Shapes, TypeInv, FlagType
<1>1. UNCHANGED <<gen, sess, next, table, want, hid>>
  BY DEF Looping, StartMirror, WaitForControl, PublishRecord, LoopDone, LoopControl,
         LoopEvent, ValidateHelper, ValidateSource, Validates, StopControl,
         ShutdownMirror, Exit, ProcessEnds, InRun, tmuxVars, helpVars
<1>2. (pc \in Marked /\ pc' \in Marked) \/ (pc = "exit" /\ pc' = "gone")
  BY DEF Looping, StartMirror, WaitForControl, PublishRecord, LoopDone, LoopControl,
         LoopEvent, ValidateHelper, ValidateSource, Validates, StopControl,
         ShutdownMirror, Exit, ProcessEnds, Ends, Marked
<1>3. (kept => kept') /\ (cancelled => cancelled')
  BY <1>0
      DEF Looping, StartMirror, WaitForControl, PublishRecord, LoopDone, LoopControl,
          LoopEvent, ValidateHelper, ValidateSource, Validates, StopControl,
          ShutdownMirror, Exit, ProcessEnds, helpVars, ctlVars
<1>4. CASE ValidateHelper \/ ValidateSource
  <2>1. ~cause => \/ /\ IsMarkedHelper(hid) /\ sess[hid].win = "target"
                     /\ gen = want /\ Exists(0)
                  \/ pc \notin Marked
    BY DEF IntactInv, IsMarkedHelper, IsHelper, Exists, UserSession, NoSession
  <2>2. pc \in Marked
    BY <1>4 DEF ValidateHelper, ValidateSource, Validates, Marked
  <2>3. cause => cause'
    BY <1>4 DEF ValidateHelper, ValidateSource, Validates
  <2>4. ~cause' /\ reason' = "validate" => reason = "validate" \/ cancelled'
    BY <1>4, <2>1, <2>2, <2>3 DEF ValidateHelper, ValidateSource, Validates, ctlVars
  <2> QED
    BY <1>0, <1>1, <1>2, <1>3, <2>3, <2>4, IntactFrame
<1>5. CASE ~(ValidateHelper \/ ValidateSource)
  <2>1. cause' = cause /\ (reason' = "validate" => reason = "validate")
    BY <1>5
        DEF Looping, StartMirror, WaitForControl, PublishRecord, LoopDone, LoopControl,
            LoopEvent, StopControl, ShutdownMirror, Exit, ProcessEnds, Ends, histVars
  <2> QED
    BY <1>0, <1>1, <1>2, <1>3, <2>1, IntactFrame
<1> QED
  BY <1>4, <1>5

\* Every step keeps what nobody touched.
LEMMA IntactNext ==
  ASSUME IntactInv, OwnInv, TypeInv, LeftInv, [Next]_vars
  PROVE  IntactInv'
<1>0. next \in Nat /\ sess \in [Ids -> Session]
  BY DEF OwnInv, Shapes
<1>1. CASE Restart \/ UserOpens \/ UserActs \/ PlaceholderEnds \/ OtherResolves
  BY <1>1, IntactServer
<1>2. CASE Helping
  BY <1>2, IntactHelping
<1>3. CASE Looping
  BY <1>3, IntactLooping
<1>4. CASE Cleaning
  <2>1. UNCHANGED <<gen, next, pc, want, hid, kept, cancelled, cause, reason>>
    BY <1>4
        DEF Cleaning, InspectHelper, CleanupFails, CleanupCloses, CleanupUnbinds,
            InCleanup, helpVars, ctlVars
  <2>2. table' => table
    BY <1>4
        DEF Cleaning, InspectHelper, CleanupFails, CleanupCloses, CleanupUnbinds,
            TypeInv, FlagType
  <2>3. CASE UNCHANGED sess
    BY <1>0, <2>1, <2>2, <2>3, IntactFrame
  <2>4. CASE CleanupCloses
    <3>1. pc \in {"gone", "dead"}
      BY <2>4 DEF CleanupCloses, LeftInv
    <3>2. ~cause => sess'[0] = sess[0]
      BY <1>0, <2>4
          DEF CleanupCloses, Kills, IsMarkedHelper, IsHelper, IntactInv, UserSession
    <3> QED
      BY <2>1, <2>2, <3>1, <3>2 DEF IntactInv, Marked
  <2> QED
    BY <1>4, <2>3, <2>4 DEF Cleaning, InspectHelper, CleanupFails, CleanupUnbinds
<1>5. CASE \/ TunnelExits \/ SnapshotTaken \/ Signal \/ ShutdownRequest \/ Killed \/ Done
           \/ Serving \/ TunnelPublishes \/ SnapshotPublished \/ UNCHANGED vars
  <2>1. /\ UNCHANGED <<gen, sess, next, table, want, hid, kept, cause, reason>>
        /\ cancelled => cancelled'
        /\ pc' = pc \/ pc' = "dead"
    BY <1>5
        DEF TunnelExits, SnapshotTaken, Signal, ShutdownRequest, Killed, ProcessEnds,
            Done, InRun, Goes, Serving, ServeStarts, Answer, ServeEnds, Controlled,
            TunnelPublishes, SnapshotPublished, vars, tmuxVars, helpVars, ctlVars,
            histVars
  <2> QED
    BY <1>0, <2>1, IntactFrame
<1> QED
  BY <1>1, <1>2, <1>3, <1>4, <1>5 DEF Next, Environment

\* What is known of the helper and of the mirror, together, is inductive.
LEMMA HelperAlways == Spec => [](OwnInv /\ TypeInv /\ LeftInv /\ IntactInv /\ FailedInv)
<1>1. Init => OwnInv /\ TypeInv /\ LeftInv /\ IntactInv /\ FailedInv
  <2> SUFFICES ASSUME Init PROVE LeftInv /\ IntactInv /\ FailedInv
    BY OwnInvInit, TypeInvInit
  <2>1. 0 \in Ids /\ hid = 0
    BY ServiceAssumption DEF Init, Ids
  <2>2. sess[0] = UserSession /\ \A i \in Ids : sess[i].by # "wrap"
    BY <2>1, NoSessionShape DEF Init
  <2>3. LeftInv
    BY <2>1, <2>2 DEF Init, LeftInv, Leftover
  <2>4. IntactInv
    BY <2>2 DEF Init, IntactInv, Marked
  <2>5. FailedInv
    BY DEF Init, FailedInv
  <2> QED
    BY <2>3, <2>4, <2>5
<1>2. OwnInv /\ TypeInv /\ LeftInv /\ IntactInv /\ FailedInv /\ [Next]_vars =>
        (OwnInv /\ TypeInv /\ LeftInv /\ IntactInv /\ FailedInv)'
  BY OwnInvNext, TypeInvNext, LeftNext, IntactNext, FailedInvNext
<1> QED
  BY <1>1, <1>2, PTL DEF Spec

(* The worker gives up its target only if something changed or it was told to end, and *)
(* the mirror's failure ends it only if the tunnel exited (Validate in helper.go, the  *)
(* loop of Run in service.go).                                                         *)
THEOREM StopAlwaysHasCause == Spec => []StopHasCause
<1>1. IntactInv /\ FailedInv => StopHasCause
  BY DEF IntactInv, FailedInv, StopHasCause
<1> QED
  BY HelperAlways, <1>1, PTL

(* The worker that ended without a cleanup error has removed its helper session and    *)
(* its key table, and the cleanup after a worker leaves at most a session that never   *)
(* got its mark (closeUnmarked, Close and CleanupHelper in helper.go).                 *)
THEOREM HelperAlwaysRemoved == Spec => []HelperRemoved
<1>1. OwnInv /\ LeftInv /\ IntactInv => HelperRemoved
  <2> SUFFICES ASSUME OwnInv, LeftInv, IntactInv PROVE HelperRemoved
    OBVIOUS
  <2>1. \A i \in Ids : Leftover(i) => i = hid
    BY DEF LeftInv, Leftover
  <2>2. ASSUME pc = "gone", ~kept, ~lost
        PROVE  (\A i \in Ids : ~Leftover(i)) /\ (table /\ gen = want => cause)
    BY <2>1, <2>2 DEF LeftInv, IntactInv, Marked
  <2>3. janitor = "done" => \A i \in Ids : Leftover(i) => ~sess[i].mark
    BY <2>1 DEF LeftInv
  <2> QED
    BY <2>2, <2>3 DEF HelperRemoved
<1> QED
  BY HelperAlways, <1>1, PTL
=============================================================================
