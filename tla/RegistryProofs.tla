--------------------------- MODULE RegistryProofs ---------------------------
(***************************************************************************)
(* Proofs about the registry for any number of workers, commands, windows, *)
(* names and any retention: no two records share a name or a window; a     *)
(* helper or a socket that outlives its worker is never forgotten; a start *)
(* reported as failed left nothing; and pruning keeps what a record names. *)
(*                                                                         *)
(* None of these rests on the leases, which the pruner can take away from  *)
(* a worker that is about to lock its file: they rest on the store lock,   *)
(* on the order in which a worker makes its parts and publishes them, and  *)
(* on the launcher that waits for its worker.  What does rest on them is   *)
(* proved at the end, from the premise that a held lease is on its path,   *)
(* and that premise from a retention no pruner exceeds.                    *)
(***************************************************************************)
EXTENDS Registry, FiniteSetTheorems, WellFoundedInduction, TLAPS

\* What a command process runs.
Kind == {"start", "list", "doctor", "kill", "reap"}

\* What a command process may remember.
CommandState ==
    [pc : Steps, kind : Kind, win : Windows \cup {None}, want : Names \cup {None},
     todo : SUBSET Listed, seen : SUBSET (Listed \X BOOLEAN),
     w : Workers \cup {None}, ino : {0} \cup Inodes, locked : BOOLEAN]

\* What PruneCompletedArtifacts remembers while it holds the store lock.
PruneState ==
    [by : Workers \cup {None}, todo : SUBSET Workers, id : Workers \cup {None},
     ino : {0} \cup Inodes, locked : BOOLEAN]

\* The steps of a command that concern one worker, and those of them that visit a record.
Busy     == Steps \ {"idle", "inspect"}
Visiting == Busy \ {"rename", "launched", "stopping"}

\* What a command knows at each of its steps: the worker it is about, an item of its list
\* that names that worker, the inode it opened.
Sane(s) ==
    /\ s.pc \in Busy => s.w \in Workers
    /\ s.pc = "flock" \/ s.locked => s.ino # 0
    /\ s.pc = "rename" => s.want \in Names
    /\ s.kind = "reap" => s.pc \in {"launched", "stopping", "open", "flock", "clean",
                                    "close", "abort"}
    /\ s.pc \in {"launched", "stopping"} => s.kind = "reap"
    /\ s.pc \in Visiting /\ s.kind # "reap" => \E item \in s.todo : item[1] = s.w

\* The files, the workers and the pruner have their types.
FileType ==
    /\ rec \in [Workers -> Names \cup {None}]
    /\ link \in [Workers -> {0} \cup Inodes]
    /\ helper \in [Workers -> {"none", "unmarked", "marked"}]
    /\ socket \in [Workers -> BOOLEAN] /\ diag \in [Workers -> BOOLEAN]

WorkerType ==
    /\ wpc \in [Workers -> Phases]
    /\ window \in [Workers -> Windows \cup {None}]
    /\ wname \in [Workers -> Names \cup {None}]
    /\ lease \in [Workers -> {0} \cup Inodes]
    /\ leased \in [Workers -> BOOLEAN]
    /\ published \in [Workers -> BOOLEAN] /\ dirty \in [Workers -> BOOLEAN]
    /\ stopped \in [Workers -> BOOLEAN] /\ ready \in [Workers -> BOOLEAN]

\* A worker that locks its lease has opened it; one that runs has a name; the one that
\* holds the store lock is pruning.
WorkerSane ==
    \A w \in Workers :
        /\ leased[w] \/ wpc[w] = "opened" => lease[w] # 0
        /\ wpc[w] \notin {"unused", "gone", "dead"} => wname[w] # None
        /\ pruner.by = w => wpc[w] = "pruning"

PruneType ==
    /\ pruner \in PruneState
    /\ pruner.locked => pruner.id # None
    /\ pruner.id # None => pruner.ino # 0

CommandType ==
    /\ cmd \in [Commands -> CommandState]
    /\ \A p \in Commands : Sane(cmd[p])

\* What TypeOK says, and what the steps of a command go by.
TypeInv ==
    /\ FileType /\ WorkerType /\ WorkerSane /\ PruneType /\ CommandType
    /\ killed \subseteq Workers /\ failed \subseteq Workers
    /\ unclean \subseteq Workers /\ swallowed \subseteq Workers

\* Before a worker has tried to publish its record.
Early == Startup \cup {"unused"}

\* Whoever is listed has published.
ListedInv ==
    /\ \A w \in Workers : rec[w] # None \/ ready[w] \/ published[w] => wpc[w] \notin Early
    /\ \A p \in Commands : \A item \in cmd[p].todo : wpc[item[1]] \notin Early

\* A launcher has a worker, and cleans up after it only when it has ended.
ReapInv ==
    \A p \in Commands : Reaping(p) =>
        /\ wpc[cmd[p].w] # "unused"
        /\ cmd[p].pc \notin {"launched", "stopping"} => ~Running(cmd[p].w)

\* The worker's tmux session and its socket are not there.
Clean(w) == helper[w] # "marked" /\ ~socket[w]

\* They are not there, but for a socket whose failed removal the worker never learned of.
Gone(w) == helper[w] # "marked" /\ (socket[w] => w \in swallowed)

\* Who is about to take a record away, or to report a failed start, has seen to it.
SweptInv ==
    /\ \A p \in Commands :
         /\ cmd[p].pc = "remove" \/ (Reaping(p) /\ cmd[p].pc = "close") => Clean(cmd[p].w)
         /\ Reaping(p) /\ cmd[p].pc = "abort" => cmd[p].w \in unclean
    /\ \A w \in Workers : published[w] /\ ~dirty[w] =>
         /\ wpc[w] \in {"closeHelper", "prune", "pruning", "release", "remove"} =>
              (socket[w] => w \in swallowed)
         /\ wpc[w] \in {"prune", "pruning", "release", "remove"} => helper[w] # "marked"

\* A record leads to what is there.
Known(w) == rec[w] # None \/ Gone(w)

\* Until a worker has published somebody answers for it.
KnownInv ==
    \A w \in Workers :
        /\ wpc[w] = "published" \/ ready[w] => Known(w)
        /\ LauncherAlive(w) \/ w \in unclean \/ (Known(w) /\ wpc[w] \notin Startup)
        /\ w \in failed \ unclean => ~Running(w) /\ wpc[w] # "unused" /\ Clean(w)

\* What the pruner has in hand has no record while it holds the store lock.
PruneInv ==
    /\ pruner.by = None => pruner = NoPrune
    /\ \A w \in Workers : w \in pruner.todo \/ w = pruner.id => rec[w] = None

\* Somebody answers for what a worker has made.
FateInv == ListedInv /\ ReapInv /\ SweptInv /\ KnownInv

-----------------------------------------------------------------------------
\* Opening a lease file

\* A set of natural numbers has a least element.
LEMMA LeastNatural ==
  ASSUME NEW S, S \subseteq Nat, S # {}
  PROVE  \E i \in S : \A j \in S : i <= j
<1>1. PICK i \in S : \A j \in S : ~(<<j, i>> \in OpToRel(<, Nat))
  BY WFMin, NatLessThanWellFounded
<1>2. ASSUME NEW j \in S PROVE i <= j
  <2>1. i \in Nat /\ j \in Nat
    OBVIOUS
  <2>2. ~(j < i)
    BY <1>1, <2>1 DEF OpToRel
  <2> QED BY <2>1, <2>2
<1> QED BY <1>2

\* An element more is at most one more.
LEMMA AddOne ==
  ASSUME NEW S, IsFiniteSet(S), NEW x
  PROVE  /\ IsFiniteSet(S \cup {x})
         /\ Cardinality(S) \in Nat /\ Cardinality(S \cup {x}) \in Nat
         /\ Cardinality(S \cup {x}) <= Cardinality(S) + 1
<1>1. IsFiniteSet(S \cup {x}) /\ Cardinality(S) \in Nat
  BY FS_AddElement, FS_CardinalityType
<1>2. Cardinality(S \cup {x}) \in Nat
  BY <1>1, FS_CardinalityType
<1>3. Cardinality(S \cup {x}) = IF x \in S THEN Cardinality(S) ELSE Cardinality(S) + 1
  BY FS_AddElement
<1> QED BY <1>1, <1>2, <1>3

\* The model has an inode for everybody who may have a file open: the worker, the pruner
\* and every command.
LEMMA InodeLeft ==
  ASSUME FileType, WorkerType, PruneType, CommandType, NEW w \in Workers, link[w] = 0
  PROVE  Inodes \ InUse(w) # {}
<1> DEFINE N == Cardinality(Commands)
           f == [p \in Commands |-> cmd[p].ino]
           A == {f[p] : p \in Commands}
           B == (A \cup {lease[w]}) \cup {pruner.ino}
<1>1. IsFiniteSet(Commands) /\ N \in Nat
  BY RegistryAssumption, FS_CardinalityType
<1>2. f \in Surjection(Commands, A)
  BY DEF Surjection
<1>3. IsFiniteSet(A) /\ Cardinality(A) <= N /\ Cardinality(A) \in Nat
  BY <1>1, <1>2, FS_Surjection, FS_CardinalityType
<1> HIDE DEF A, f
<1>4. IsFiniteSet(B) /\ Cardinality(B) \in Nat /\ Cardinality(B) <= N + 2
  <2> DEFINE C == A \cup {lease[w]}
  <2>1. /\ IsFiniteSet(C) /\ Cardinality(C) \in Nat
        /\ Cardinality(C) <= Cardinality(A) + 1
    BY <1>3, AddOne
  <2> HIDE DEF C
  <2>2. /\ IsFiniteSet(C \cup {pruner.ino}) /\ Cardinality(C \cup {pruner.ino}) \in Nat
        /\ Cardinality(C \cup {pruner.ino}) <= Cardinality(C) + 1
    BY <2>1, AddOne
  <2>3. B = C \cup {pruner.ino}
    BY DEF C
  <2>4. IsFiniteSet(B) /\ Cardinality(B) \in Nat /\ Cardinality(B) <= Cardinality(C) + 1
    BY <2>2, <2>3
  <2> HIDE DEF B, N
  <2> QED BY <1>1, <1>3, <2>1, <2>4
<1>5. InUse(w) \subseteq B \cup {0}
  BY DEF InUse, A, f
<1> HIDE DEF B, N
<1>6. Cardinality(Inodes) = N + 3 /\ 0 \notin Inodes
  BY <1>1, FS_Interval DEF Inodes, N
<1>7. ASSUME Inodes \ InUse(w) = {} PROVE FALSE
  <2>1. Inodes \in SUBSET B
    BY <1>5, <1>6, <1>7
  <2>2. Cardinality(Inodes) <= Cardinality(B)
    BY <1>4, <2>1, FS_Subset
  <2> QED BY <1>1, <1>4, <1>6, <2>2
<1> QED BY <1>7

\* Opening the path yields a file.
LEMMA OpenedInodeType ==
  ASSUME FileType, WorkerType, PruneType, CommandType, NEW w \in Workers
  PROVE  OpenedInode(w) \in Inodes /\ OpenedInode(w) # 0
<1>1. Inodes \subseteq Nat /\ 0 \notin Inodes
  BY RegistryAssumption, FS_CardinalityType DEF Inodes
<1>2. CASE link[w] # 0
  BY <1>1, <1>2 DEF OpenedInode, FileType
<1>3. CASE link[w] = 0
  <2>1. Inodes \ InUse(w) # {} /\ Inodes \ InUse(w) \subseteq Nat
    BY <1>1, <1>3, InodeLeft
  <2>2. \E i \in Inodes \ InUse(w) : \A j \in Inodes \ InUse(w) : i <= j
    BY <2>1, LeastNatural
  <2> QED BY <1>1, <1>3, <2>2 DEF OpenedInode
<1> QED BY <1>2, <1>3

-----------------------------------------------------------------------------
\* Types

\* Nobody prunes.
LEMMA NoPruneType ==
  /\ NoPrune \in PruneState
  /\ NoPrune.by \notin Workers /\ NoPrune.by = None /\ NoPrune.id = None
  /\ ~NoPrune.locked
  BY RegistryAssumption DEF NoPrune, PruneState

\* A command that waits for the user knows nothing.
LEMMA IdleType == Idle \in CommandState /\ Sane(Idle)
  BY DEF Idle, CommandState, Sane, Steps, Kind, Listed, Busy, Visiting

\* Everything is empty when nothing runs.
LEMMA TypeInvInit == Init => TypeInv
<1> SUFFICES ASSUME Init PROVE TypeInv
  OBVIOUS
<1> QED BY IdleType, NoPruneType
    DEF Init, TypeInv, FileType, WorkerType, WorkerSane, PruneType, CommandType, Phases

\* A worker that dies leaves its files, and the store lock if it had it.
LEMMA DiesType ==
  ASSUME TypeInv, NEW w \in Workers, Dies(w)
  PROVE  FileType' /\ WorkerType' /\ WorkerSane' /\ PruneType'
<1>1. PruneType'
  BY NoPruneType DEF Dies, TypeInv, PruneType
<1>2. FileType' /\ WorkerType' /\ WorkerSane'
  BY NoPruneType
      DEF Dies, WorkerEnds, WorkerGoto, Phases, files, TypeInv, FileType, WorkerType,
          WorkerSane
<1> QED BY <1>1, <1>2

\* A step of a worker keeps the types: it opens a file before it locks it, and forgets
\* both when it ends.
LEMMA WorkerTypeNext ==
  ASSUME TypeInv, NEW w \in Workers, WorkerStep(w) \/ ServingFails(w) \/ Crash(w)
  PROVE  TypeInv'
<1>0. OpenedInode(w) \in Inodes /\ OpenedInode(w) # 0
  BY OpenedInodeType DEF TypeInv
<1>1. CASE OpenLease(w)
  BY <1>1, <1>0
      DEF OpenLease, OpenLeaseFile, WorkerGoto, Phases, Startup, Teardown, TypeInv,
          FileType, WorkerType, WorkerSane, PruneType, CommandType, files, workers, hist
<1>2. CASE LockLease(w)
  BY <1>2 DEF LockLease, WorkerGoto, Phases, Startup, Teardown, TypeInv, FileType,
          WorkerType, WorkerSane, PruneType, CommandType, files, workers, hist
<1>3. CASE LeaseRefused(w)
  BY <1>3
      DEF LeaseRefused, WorkerEnds, WorkerGoto, Phases, Startup, Teardown, TypeInv,
          FileType, WorkerType, WorkerSane, PruneType, CommandType, files, workers, hist
<1>4. CASE CreateHelper(w)
  BY <1>4 DEF CreateHelper, WorkerGoto, Phases, Startup, Teardown, TypeInv, FileType,
          WorkerType, WorkerSane, PruneType, CommandType, files, workers, hist
<1>5. CASE MarkHelper(w)
  BY <1>5 DEF MarkHelper, WorkerGoto, Phases, Startup, Teardown, TypeInv, FileType,
          WorkerType, WorkerSane, PruneType, CommandType, files, workers, hist
<1>6. CASE \E left \in {"none", "unmarked", "marked"} : HelperFails(w, left)
  BY <1>6 DEF HelperFails, WorkerGoto, Phases, Startup, Teardown, TypeInv, FileType,
          WorkerType, WorkerSane, PruneType, CommandType, files, workers, hist
<1>7. CASE StartMirror(w)
  BY <1>7 DEF StartMirror, WorkerGoto, Phases, Startup, Teardown, TypeInv, FileType,
          WorkerType, WorkerSane, PruneType, CommandType, files, workers, hist
<1>8. CASE Listen(w)
  BY <1>8 DEF Listen, WorkerGoto, Phases, Startup, Teardown, TypeInv, FileType,
          WorkerType, WorkerSane, PruneType, CommandType, files, workers, hist
<1>9. CASE Publish(w)
  BY <1>9 DEF Publish, WorkerGoto, Phases, Startup, Teardown, TypeInv, FileType,
          WorkerType, WorkerSane, PruneType, CommandType, files, workers, hist
<1>10. CASE PublishFails(w)
  BY <1>10 DEF PublishFails, WorkerGoto, Phases, Startup, Teardown, TypeInv, FileType,
          WorkerType, WorkerSane, PruneType, CommandType, files, workers, hist
<1>11. CASE ReportReady(w)
  BY <1>11 DEF ReportReady, WorkerGoto, Phases, Startup, Teardown, TypeInv, FileType,
          WorkerType, WorkerSane, PruneType, CommandType, files, workers, hist
<1>12. CASE ReadyFails(w)
  BY <1>12 DEF ReadyFails, WorkerGoto, Phases, Startup, Teardown, TypeInv, FileType,
          WorkerType, WorkerSane, PruneType, CommandType, files, workers, hist
<1>13. CASE StopServing(w)
  BY <1>13 DEF StopServing, WorkerGoto, Phases, Startup, Teardown, TypeInv, FileType,
          WorkerType, WorkerSane, PruneType, CommandType, files, workers, hist
<1>14. CASE ServingFails(w)
  BY <1>14 DEF ServingFails, WorkerGoto, Phases, Startup, Teardown, TypeInv, FileType,
          WorkerType, WorkerSane, PruneType, CommandType, files, workers, hist
<1>15. CASE CloseControl(w)
  <2>1. PICK left \in {FALSE, socket[w]}, bad \in BOOLEAN :
             /\ socket' = [socket EXCEPT ![w] = left]
             /\ dirty' = [dirty EXCEPT ![w] = bad]
             /\ swallowed' = IF left /\ ~bad THEN swallowed \cup {w} ELSE swallowed
    BY <1>15 DEF CloseControl
  <2>2. left \in BOOLEAN
    BY <2>1 DEF TypeInv, FileType
  <2>3. /\ socket' \in [Workers -> BOOLEAN] /\ dirty' \in [Workers -> BOOLEAN]
        /\ swallowed' \subseteq Workers
    BY <2>1, <2>2 DEF TypeInv, FileType, WorkerType
  <2>4. FileType' /\ WorkerType'
    BY <1>15, <2>3
        DEF CloseControl, WorkerGoto, Phases, Startup, Teardown, TypeInv, FileType,
            WorkerType
  <2>5. WorkerSane' /\ PruneType' /\ CommandType'
    BY <1>15
        DEF CloseControl, WorkerGoto, TypeInv, WorkerType, WorkerSane, PruneType,
            CommandType
  <2> QED BY <1>15, <2>3, <2>4, <2>5 DEF CloseControl, TypeInv
<1>16. CASE CloseHelper(w)
  BY <1>16 DEF CloseHelper, WorkerGoto, Phases, Startup, Teardown, TypeInv, FileType,
          WorkerType, WorkerSane, PruneType, CommandType, files, workers, hist
<1>17. CASE PruneBegin(w)
  <2>1. PICK kept \in SUBSET Completed :
             pruner' = [NoPrune EXCEPT !.by = w, !.todo = Completed \ kept]
    BY <1>17 DEF PruneBegin
  <2>2. pruner' = [by |-> w, todo |-> Completed \ kept, id |-> None, ino |-> 0,
                   locked |-> FALSE]
    BY <2>1 DEF NoPrune
  <2>3. PruneType'
    BY <2>2 DEF PruneType, PruneState, Completed
  <2> QED BY <1>17, <2>2, <2>3
      DEF PruneBegin, WorkerGoto, Phases, Teardown, TypeInv, FileType, WorkerType,
          WorkerSane, CommandType, files, workers, hist
<1>18. CASE NothingToPrune(w)
  BY <1>18 DEF NothingToPrune, WorkerGoto, Phases, Startup, Teardown, TypeInv, FileType,
          WorkerType, WorkerSane, PruneType, CommandType, files, workers, hist
<1>19. CASE \E v \in Workers : PruneOpen(w, v)
  <2> PICK v \in Workers : PruneOpen(w, v)
    BY <1>19
  <2>1. OpenedInode(v) \in Inodes /\ OpenedInode(v) # 0
    BY OpenedInodeType DEF TypeInv
  <2> QED BY <2>1
      DEF PruneOpen, OpenLeaseFile, PruneState, TypeInv, FileType, WorkerType,
          WorkerSane, PruneType, CommandType, files, workers, hist
<1>20. CASE PruneLock(w)
  BY <1>20
      DEF PruneLock, PruneState, TypeInv, FileType, WorkerType, WorkerSane, PruneType,
          CommandType, files, workers, hist
<1>21. CASE PruneHeld(w)
  BY <1>21
      DEF PruneHeld, PruneState, TypeInv, FileType, WorkerType, WorkerSane, PruneType,
          CommandType, files, workers, hist
<1>22. CASE PruneDelete(w)
  BY <1>22
      DEF PruneDelete, PruneState, TypeInv, FileType, WorkerType, WorkerSane, PruneType,
          CommandType, files, workers, hist
<1>23. CASE PruneEnd(w)
  <2>1. PruneType'
    BY <1>23, NoPruneType DEF PruneEnd, PruneType
  <2> QED BY <1>23, <2>1, NoPruneType
      DEF PruneEnd, WorkerGoto, Phases, Teardown, TypeInv, FileType, WorkerType,
          WorkerSane, CommandType, files, workers, hist
<1>24. CASE ReleaseLease(w)
  BY <1>24 DEF ReleaseLease, WorkerGoto, Phases, Startup, Teardown, TypeInv, FileType,
          WorkerType, WorkerSane, PruneType, CommandType, files, workers, hist
<1>25. CASE RemoveOwnRecord(w)
  BY <1>25
      DEF RemoveOwnRecord, WorkerEnds, WorkerGoto, Phases, Startup, Teardown, TypeInv,
          FileType, WorkerType, WorkerSane, PruneType, CommandType, files, workers, hist
<1>26. CASE Crash(w)
  BY <1>26, DiesType DEF Crash, TypeInv, CommandType, hist
<1> QED BY <1>1, <1>2, <1>3, <1>4, <1>5, <1>6, <1>7, <1>8, <1>9, <1>10, <1>11, <1>12,
     <1>13, <1>14, <1>15, <1>16, <1>17, <1>18, <1>19, <1>20, <1>21, <1>22, <1>23, <1>24,
     <1>25, <1>26
    DEF WorkerStep

\* A command that goes on with a proper state keeps the type of all commands.
LEMMA BecomeType ==
  ASSUME TypeInv, NEW p \in Commands, NEW s \in CommandState, Sane(s), Become(p, s)
  PROVE  CommandType'
  BY DEF TypeInv, CommandType, Become

\* What a command remembers has its type.
LEMMA CommandStateOf ==
  ASSUME TypeInv, NEW p \in Commands
  PROVE  cmd[p] \in CommandState /\ Sane(cmd[p])
  BY DEF TypeInv, CommandType

\* While a command visits a record, its list has it.
LEMMA ItemIsListed ==
  ASSUME TypeInv, NEW p \in Commands, cmd[p].pc \in Visiting, cmd[p].kind # "reap"
  PROVE  /\ Item(p) \in cmd[p].todo /\ Item(p)[1] = cmd[p].w
         /\ cmd[p].w \in Workers
<1>1. \E item \in cmd[p].todo : item[1] = cmd[p].w
  BY CommandStateOf DEF Sane
<1>2. cmd[p].w \in Workers
  BY CommandStateOf DEF Sane, Visiting
<1> QED BY <1>1, <1>2 DEF Item

\* A command that is done with a record goes on with its list.
LEMMA DealtType ==
  ASSUME TypeInv, NEW p \in Commands, NEW item \in cmd[p].todo, NEW live \in BOOLEAN,
         cmd[p].kind # "reap"
  PROVE  /\ Dealt(p, item, live) \in CommandState /\ Sane(Dealt(p, item, live))
         /\ [Dealt(p, item, live) EXCEPT !.seen = cmd[p].seen] \in CommandState
         /\ Sane([Dealt(p, item, live) EXCEPT !.seen = cmd[p].seen])
<1>1. cmd[p] \in CommandState
  BY CommandStateOf
<1>2. item \in Listed
  BY <1>1 DEF CommandState
<1>3. <<item, live>> \in Listed \X BOOLEAN
  BY <1>2
<1>4. Dealt(p, item, live) \in CommandState
  BY <1>1, <1>3 DEF Dealt, CommandState, Steps
<1>5. /\ Dealt(p, item, live).pc = "inspect" /\ ~Dealt(p, item, live).locked
      /\ Dealt(p, item, live).kind = cmd[p].kind
  BY <1>1 DEF Dealt, CommandState
<1>6. [Dealt(p, item, live) EXCEPT !.seen = cmd[p].seen] \in CommandState
  BY <1>1, <1>4 DEF CommandState
<1>7. Sane(Dealt(p, item, live))
  BY <1>5 DEF Sane, Busy, Visiting
<1>8. Sane([Dealt(p, item, live) EXCEPT !.seen = cmd[p].seen])
  BY <1>4, <1>5 DEF Sane, Busy, Visiting, CommandState
<1> QED BY <1>4, <1>6, <1>7, <1>8

\* The records are a list of workers and names.
LEMMA RecordsType == ASSUME TypeInv PROVE Records \subseteq Listed
  BY DEF Records, Listed, TypeInv, FileType

\* A command begins with a list.
LEMMA BeginType ==
  ASSUME TypeInv, NEW p \in Commands, CommandBegin(p)
  PROVE  TypeInv'
<1>1. ASSUME NEW win \in Windows, NEW want \in Names \cup {None}, BeginStart(p, win, want)
      PROVE  TypeInv'
  <2> DEFINE s == [Idle EXCEPT !.pc = "inspect", !.kind = "start", !.win = win,
                               !.want = want, !.todo = Records]
  <2>1. s \in CommandState /\ Sane(s)
    BY RecordsType DEF Idle, CommandState, Sane, Steps, Kind, Busy, Visiting
  <2>2. CommandType'
    BY <1>1, <2>1, BecomeType DEF BeginStart
  <2> QED BY <1>1, <2>2
      DEF BeginStart, TypeInv, FileType, WorkerType, WorkerSane, PruneType, files,
          workers, hist
<1>2. ASSUME NEW kind \in {"list", "doctor"}, BeginList(p, kind)
      PROVE  TypeInv'
  <2> DEFINE s == [Idle EXCEPT !.pc = "inspect", !.kind = kind, !.todo = Records]
  <2>1. s \in CommandState /\ Sane(s)
    BY RecordsType DEF Idle, CommandState, Sane, Steps, Kind, Busy, Visiting
  <2>2. CommandType'
    BY <1>2, <2>1, BecomeType DEF BeginList
  <2> QED BY <1>2, <2>2
      DEF BeginList, TypeInv, FileType, WorkerType, WorkerSane, PruneType, files,
          workers, hist
<1>3. ASSUME NEW chosen \in SUBSET Records, BeginKill(p, chosen)
      PROVE  TypeInv'
  <2> DEFINE s == [Idle EXCEPT !.pc = "inspect", !.kind = "kill", !.todo = chosen]
  <2>1. s \in CommandState /\ Sane(s)
    BY RecordsType DEF Idle, CommandState, Sane, Steps, Kind, Busy, Visiting
  <2>2. CommandType'
    BY <1>3, <2>1, BecomeType DEF BeginKill
  <2> QED BY <1>3, <2>2
      DEF BeginKill, TypeInv, FileType, WorkerType, WorkerSane, PruneType, files,
          workers, hist
<1> QED BY <1>1, <1>2, <1>3 DEF CommandBegin

\* The states a command goes on with at each step are proper ones.
LEMMA CommandTypeNext ==
  ASSUME TypeInv, NEW p \in Commands, CommandStep(p) \/ CommandDies(p)
  PROVE  TypeInv'
<1>0. cmd[p] \in CommandState /\ Sane(cmd[p])
  BY CommandStateOf
<1>1. ASSUME NEW item \in Listed, StatusAnswered(p, item)
      PROVE  TypeInv'
  <2>1. Dealt(p, item, TRUE) \in CommandState /\ Sane(Dealt(p, item, TRUE))
    BY <1>0, <1>1, DealtType DEF StatusAnswered, Sane
  <2>2. CommandType'
    BY <1>1, <2>1, BecomeType DEF StatusAnswered
  <2> QED BY <1>1, <2>2
      DEF StatusAnswered, TypeInv, FileType, WorkerType, WorkerSane, PruneType, files,
          workers, hist
<1>2. ASSUME NEW item \in Listed, StatusFails(p, item)
      PROVE  TypeInv'
  <2> DEFINE step == IF cmd[p].kind = "doctor" THEN "check" ELSE "open"
             s == [cmd[p] EXCEPT !.w = item[1], !.pc = step]
  <2>0. item[1] \in Workers /\ step \in {"check", "open"}
    BY DEF Listed
  <2>1. s \in CommandState /\ Sane(s)
    <3> HIDE DEF step
    <3>1. s \in CommandState
      BY <1>0, <2>0 DEF CommandState, Steps
    <3>2. /\ s.w = item[1] /\ s.pc = step /\ s.todo = cmd[p].todo /\ s.kind = cmd[p].kind
          /\ s.locked = cmd[p].locked /\ s.ino = cmd[p].ino
      BY <1>0 DEF CommandState
    <3>3. cmd[p].pc = "inspect" /\ item \in cmd[p].todo
      BY <1>2 DEF StatusFails
    <3> HIDE DEF s
    <3> QED BY <1>0, <2>0, <3>1, <3>2, <3>3 DEF Sane, Busy, Visiting
  <2>2. CommandType'
    BY <1>2, <2>1, BecomeType DEF StatusFails
  <2> QED BY <1>2, <2>2
      DEF StatusFails, TypeInv, FileType, WorkerType, WorkerSane, PruneType, files,
          workers, hist
<1>3. ASSUME NEW item \in Listed, NEW answered \in BOOLEAN, ShutdownAsked(p, item, answered)
      PROVE  TypeInv'
  <2> DEFINE s == [cmd[p] EXCEPT !.w = item[1],
                                 !.pc = IF answered THEN "wait" ELSE "open"]
  <2>1. s \in CommandState /\ Sane(s)
    BY <1>0, <1>3
        DEF ShutdownAsked, CommandState, Sane, Steps, Kind, Busy, Visiting, Listed
  <2>2. CommandType'
    BY <1>3, <2>1, BecomeType DEF ShutdownAsked
  <2> QED BY <1>3, <2>2
      DEF ShutdownAsked, TypeInv, FileType, WorkerType, WorkerSane, PruneType, files,
          workers, hist
<1>4. ASSUME NEW item \in Listed, ShutdownFails(p, item)
      PROVE  TypeInv'
  <2> DEFINE s == [cmd[p] EXCEPT !.w = item[1], !.pc = "open"]
  <2>1. s \in CommandState /\ Sane(s)
    BY <1>0, <1>4
        DEF ShutdownFails, CommandState, Sane, Steps, Kind, Busy, Visiting, Listed
  <2>2. CommandType'
    BY <1>4, <2>1, BecomeType DEF ShutdownFails
  <2> QED BY <1>4, <2>2
      DEF ShutdownFails, TypeInv, FileType, WorkerType, WorkerSane, PruneType, files,
          workers, hist
<1>5. CASE OpenRecordLease(p)
  <2> DEFINE s == [cmd[p] EXCEPT !.pc = "flock", !.ino = OpenedInode(cmd[p].w)]
  <2>0. cmd[p].w \in Workers
    BY <1>0, <1>5 DEF OpenRecordLease, Sane, Busy, Steps
  <2>a. OpenedInode(cmd[p].w) \in Inodes /\ OpenedInode(cmd[p].w) # 0
    BY <2>0, OpenedInodeType DEF TypeInv
  <2>1. s \in CommandState /\ Sane(s)
    BY <1>0, <1>5, <2>a
        DEF OpenRecordLease, CommandState, Sane, Steps, Kind, Busy, Visiting
  <2>2. CommandType'
    BY <1>5, <2>1, BecomeType DEF OpenRecordLease
  <2> QED BY <1>5, <2>2, <2>0, <2>a
      DEF OpenRecordLease, OpenLeaseFile, TypeInv, FileType, WorkerType, WorkerSane,
          PruneType, files, workers, hist
<1>6. CASE LockRecordLease(p)
  <2> DEFINE s == [cmd[p] EXCEPT !.pc = "clean", !.locked = TRUE]
  <2>1. s \in CommandState /\ Sane(s)
    BY <1>0, <1>6 DEF LockRecordLease, CommandState, Sane, Steps, Kind, Busy, Visiting
  <2>2. CommandType'
    BY <1>6, <2>1, BecomeType DEF LockRecordLease
  <2> QED BY <1>6, <2>2
      DEF LockRecordLease, TypeInv, FileType, WorkerType, WorkerSane, PruneType, files,
          workers, hist
<1>7. CASE RecordLeaseHeld(p)
  <2>0. cmd[p].w \in Workers
    BY <1>0, <1>7 DEF RecordLeaseHeld, Sane, Busy, Steps
  <2>1. CommandType'
    <3>1. CASE Reaping(p)
      BY <1>7, <3>1, IdleType, BecomeType DEF RecordLeaseHeld
    <3>2. CASE ~Reaping(p)
      <4>1. cmd[p].pc \in Visiting /\ cmd[p].kind # "reap"
        BY <1>7, <3>2 DEF RecordLeaseHeld, Reaping, Visiting, Busy, Steps
      <4> QED BY <1>7, <3>2, <4>1, ItemIsListed, DealtType, BecomeType
          DEF RecordLeaseHeld
    <3> QED BY <3>1, <3>2
  <2>2. (killed \subseteq Workers /\ failed \subseteq Workers /\ unclean \subseteq Workers)'
    <3>1. CASE Reaping(p)
      BY <1>7, <2>0, <3>1 DEF RecordLeaseHeld, TypeInv
    <3>2. CASE ~Reaping(p)
      BY <1>7, <3>2 DEF RecordLeaseHeld, TypeInv
    <3> QED BY <3>1, <3>2
  <2> QED BY <1>7, <2>1, <2>2
      DEF RecordLeaseHeld, TypeInv, FileType, WorkerType, WorkerSane, PruneType, files,
          workers
<1>8. CASE CleanStale(p)
  <2> DEFINE s == [cmd[p] EXCEPT !.pc = IF Reaping(p) THEN "close" ELSE "remove"]
  <2>1. s \in CommandState /\ Sane(s)
    BY <1>0, <1>8
        DEF CleanStale, CommandState, Sane, Steps, Kind, Busy, Visiting, Reaping
  <2>2. CommandType'
    BY <1>8, <2>1, BecomeType DEF CleanStale
  <2> QED BY <1>8, <2>2
      DEF CleanStale, Swept, TypeInv, FileType, WorkerType, WorkerSane, PruneType,
          files, workers, hist
<1>9. CASE CleanStaleFails(p)
  <2> DEFINE s == [cmd[p] EXCEPT !.pc = "abort"]
  <2>1. s \in CommandState /\ Sane(s)
    BY <1>0, <1>9 DEF CleanStaleFails, CommandState, Sane, Steps, Kind, Busy, Visiting
  <2>2. CommandType'
    BY <1>9, <2>1, BecomeType DEF CleanStaleFails
  <2>3. cmd[p].w \in Workers
    BY <1>0, <1>9 DEF CleanStaleFails, Sane, Busy, Steps
  <2>4. FileType'
    BY <1>9, <2>3 DEF CleanStaleFails, Swept, TypeInv, FileType
  <2> QED BY <1>9, <2>2, <2>3, <2>4
      DEF CleanStaleFails, TypeInv, WorkerType, WorkerSane, PruneType, workers, hist
<1>10. CASE RemoveStale(p)
  <2> DEFINE s == [cmd[p] EXCEPT !.pc = IF rec[cmd[p].w] # None THEN "closeRemoved" ELSE "close"]
  <2>1. s \in CommandState /\ Sane(s)
    BY <1>0, <1>10 DEF RemoveStale, CommandState, Sane, Steps, Kind, Busy, Visiting
  <2>2. CommandType'
    BY <1>10, <2>1, BecomeType DEF RemoveStale
  <2> QED BY <1>10, <2>2
      DEF RemoveStale, TypeInv, FileType, WorkerType, WorkerSane, PruneType, files,
          workers, hist
<1>11. CASE CloseRecordLease(p)
  <2>0. cmd[p].w \in Workers
    BY <1>0, <1>11 DEF CloseRecordLease, Sane, Busy, Steps
  <2>1. CommandType'
    <3>1. CASE Reaping(p) \/ (cmd[p].pc = "abort" /\ cmd[p].kind # "kill")
      BY <1>11, <3>1, IdleType, BecomeType DEF CloseRecordLease
    <3>2. CASE ~(Reaping(p) \/ (cmd[p].pc = "abort" /\ cmd[p].kind # "kill"))
      <4>1. cmd[p].pc \in Visiting /\ cmd[p].kind # "reap"
        BY <1>11, <3>2 DEF CloseRecordLease, Reaping, Visiting, Busy, Steps
      <4>2. CASE cmd[p].pc = "closeRemoved"
        BY <1>11, <3>2, <4>1, <4>2, ItemIsListed, DealtType, BecomeType
            DEF CloseRecordLease
      <4>3. CASE cmd[p].pc # "closeRemoved"
        BY <1>11, <3>2, <4>1, <4>3, ItemIsListed, DealtType, BecomeType
            DEF CloseRecordLease
      <4> QED BY <4>2, <4>3
    <3> QED BY <3>1, <3>2
  <2> QED BY <1>11, <2>0, <2>1
      DEF CloseRecordLease, TypeInv, FileType, WorkerType, WorkerSane, PruneType, files,
          workers, hist
<1>12. CASE WaitResolve(p)
  <2> DEFINE s == [cmd[p] EXCEPT !.pc = "check"]
  <2>1. s \in CommandState /\ Sane(s)
    BY <1>0, <1>12 DEF WaitResolve, CommandState, Sane, Steps, Kind, Busy, Visiting
  <2>2. CommandType'
    BY <1>12, <2>1, BecomeType DEF WaitResolve
  <2> QED BY <1>12, <2>2
      DEF WaitResolve, TypeInv, FileType, WorkerType, WorkerSane, PruneType, files,
          workers, hist
<1>13. CASE ProbeLease(p)
  <2> DEFINE v == cmd[p].w
             s == [cmd[p] EXCEPT !.pc = "probe", !.ino = link[v], !.locked = link[v] # 0]
             r == [cmd[p] EXCEPT !.pc = "wait"]
  <2>1. /\ cmd[p].pc \in Visiting /\ cmd[p].kind # "reap"
        /\ v \in Workers
    BY <1>0, <1>13 DEF ProbeLease, Sane, Visiting, Busy, Steps
  <2>2. link[v] \in {0} \cup Inodes
    BY <2>1 DEF TypeInv, FileType
  <2>3. s \in CommandState /\ Sane(s)
    BY <1>0, <1>13, <2>1, <2>2
        DEF ProbeLease, CommandState, Sane, Steps, Kind, Busy, Visiting
  <2>4. r \in CommandState /\ Sane(r)
    BY <1>0, <1>13, <2>1 DEF ProbeLease, CommandState, Sane, Steps, Kind, Busy, Visiting
  <2>5. Dealt(p, Item(p), FALSE) \in CommandState /\ Sane(Dealt(p, Item(p), FALSE))
    BY <2>1, ItemIsListed, DealtType
  <2>6. Become(p, s) \/ Become(p, r) \/ Become(p, Dealt(p, Item(p), FALSE))
    BY <1>13 DEF ProbeLease
  <2>7. CommandType'
    BY <2>3, <2>4, <2>5, <2>6, BecomeType
  <2> QED BY <1>13, <2>7
      DEF ProbeLease, TypeInv, FileType, WorkerType, WorkerSane, PruneType, files,
          workers, hist
<1>14. CASE Probed(p)
  <2>1. cmd[p].pc \in Visiting /\ cmd[p].kind # "reap" /\ cmd[p].w \in Workers
    BY <1>0, <1>14 DEF Probed, Sane, Visiting, Busy, Steps
  <2>2. CommandType'
    BY <1>14, <2>1, ItemIsListed, DealtType, BecomeType DEF Probed
  <2> QED BY <1>14, <2>1, <2>2
      DEF Probed, TypeInv, FileType, WorkerType, WorkerSane, PruneType, files, workers,
          hist
<1>15. CASE WaitTimesOut(p)
  <2>1. cmd[p].pc \in Visiting /\ cmd[p].kind # "reap" /\ cmd[p].w \in Workers
    BY <1>0, <1>15 DEF WaitTimesOut, Sane, Visiting, Busy, Steps
  <2>2. CommandType'
    BY <1>15, <2>1, ItemIsListed, DealtType, BecomeType DEF WaitTimesOut
  <2> QED BY <1>15, <2>1, <2>2
      DEF WaitTimesOut, TypeInv, FileType, WorkerType, WorkerSane, PruneType, files,
          workers, hist
<1>16. CASE InspectDone(p)
  <2>1. CommandType'
    BY <1>16, IdleType, BecomeType DEF InspectDone
  <2> QED BY <1>16, <2>1
      DEF InspectDone, TypeInv, FileType, WorkerType, WorkerSane, PruneType, files,
          workers, hist
<1>17. CASE RenameFails(p)
  <2>1. CommandType'
    BY <1>17, IdleType, BecomeType DEF RenameFails
  <2> QED BY <1>17, <2>1
      DEF RenameFails, TypeInv, FileType, WorkerType, WorkerSane, PruneType, files,
          workers, hist
<1>18. CASE NameRefused(p)
  <2>1. CommandType'
    BY <1>18, IdleType, BecomeType DEF NameRefused
  <2> QED BY <1>18, <2>1
      DEF NameRefused, TypeInv, FileType, WorkerType, WorkerSane, PruneType, files,
          workers, hist
<1>19. CASE OutOfWorkers(p)
  <2>1. CommandType'
    BY <1>19, IdleType, BecomeType DEF OutOfWorkers
  <2> QED BY <1>19, <2>1
      DEF OutOfWorkers, TypeInv, FileType, WorkerType, WorkerSane, PruneType, files,
          workers, hist
<1>20. CASE ReuseExisting(p)
  <2>1. PICK e \in Existing(p) :
             Become(p, IF e[2] /\ cmd[p].want \notin {None, e[1][2]} \cup Taken(p)
                       THEN [cmd[p] EXCEPT !.pc = "rename", !.w = e[1][1]] ELSE Idle)
    BY <1>20 DEF ReuseExisting
  <2> DEFINE s == [cmd[p] EXCEPT !.pc = "rename", !.w = e[1][1]]
  <2>2. e[1][1] \in Workers
    BY <1>0 DEF Existing, CommandState, Listed
  <2>3. ASSUME cmd[p].want # None PROVE s \in CommandState /\ Sane(s)
    BY <1>0, <1>20, <2>2, <2>3
        DEF ReuseExisting, CommandState, Sane, Steps, Kind, Busy, Visiting
  <2>4. CommandType'
    BY <2>1, <2>3, IdleType, BecomeType
  <2> QED BY <1>20, <2>4
      DEF ReuseExisting, TypeInv, FileType, WorkerType, WorkerSane, PruneType, files,
          workers, hist
<1>21. CASE Rename(p)
  <2>1. CommandType'
    BY <1>21, IdleType, BecomeType DEF Rename
  <2>2. cmd[p].w \in Workers /\ cmd[p].want \in Names /\ cmd[p].want # None
    BY <1>0, <1>21, RegistryAssumption DEF Rename, Sane, Busy, Steps
  <2> QED BY <1>21, <2>1, <2>2
      DEF Rename, TypeInv, FileType, WorkerType, WorkerSane, PruneType, files, workers,
          hist
<1>22. ASSUME NEW w \in Workers, NEW name \in Names, Launch(p, w, name)
      PROVE  TypeInv'
  <2> DEFINE s == [Idle EXCEPT !.pc = "launched", !.kind = "reap", !.w = w]
  <2>1. s \in CommandState /\ Sane(s)
    BY DEF Idle, CommandState, Sane, Steps, Kind, Busy, Visiting
  <2>2. CommandType'
    BY <1>22, <2>1, BecomeType DEF Launch
  <2>3. cmd[p].win \in Windows \cup {None} /\ name # None
    BY <1>0, RegistryAssumption DEF CommandState
  <2> QED BY <1>22, <2>2, <2>3
      DEF Launch, WorkerGoto, Phases, Startup, TypeInv, FileType, WorkerType,
          WorkerSane, PruneType, files, workers, hist
<1>23. CASE StartSucceeds(p)
  <2>1. CommandType'
    BY <1>23, IdleType, BecomeType DEF StartSucceeds
  <2> QED BY <1>23, <2>1
      DEF StartSucceeds, TypeInv, FileType, WorkerType, WorkerSane, PruneType, files,
          workers, hist
<1>24. CASE WorkerReaped(p)
  <2> DEFINE s == [cmd[p] EXCEPT !.pc = "open"]
  <2>1. s \in CommandState /\ Sane(s)
    BY <1>0, <1>24 DEF WorkerReaped, CommandState, Sane, Steps, Kind, Busy, Visiting
  <2>2. CommandType'
    BY <1>24, <2>1, BecomeType DEF WorkerReaped
  <2> QED BY <1>24, <2>2
      DEF WorkerReaped, TypeInv, FileType, WorkerType, WorkerSane, PruneType, files,
          workers, hist
<1>25. CASE StartTimesOut(p)
  <2> DEFINE s == [cmd[p] EXCEPT !.pc = "stopping"]
  <2>1. s \in CommandState /\ Sane(s)
    BY <1>0, <1>25 DEF StartTimesOut, CommandState, Sane, Steps, Kind, Busy, Visiting
  <2>2. CommandType'
    BY <1>25, <2>1, BecomeType DEF StartTimesOut
  <2> QED BY <1>25, <2>2
      DEF StartTimesOut, TypeInv, FileType, WorkerType, WorkerSane, PruneType, files,
          workers, hist
<1>26. CASE ForceStop(p)
  <2> DEFINE s == [cmd[p] EXCEPT !.pc = "open"]
  <2>1. s \in CommandState /\ Sane(s) /\ cmd[p].w \in Workers
    BY <1>0, <1>26 DEF ForceStop, CommandState, Sane, Steps, Kind, Busy, Visiting
  <2>2. CommandType'
    BY <1>26, <2>1, BecomeType DEF ForceStop
  <2>3. FileType' /\ WorkerType' /\ WorkerSane' /\ PruneType'
    BY <1>26, <2>1, DiesType DEF ForceStop
  <2> QED BY <1>26, <2>2, <2>3 DEF ForceStop, TypeInv, hist
<1>27. CASE CommandDies(p)
  <2>1. CommandType'
    BY <1>27, IdleType, BecomeType DEF CommandDies
  <2>2. Reaping(p) => cmd[p].w \in Workers
    BY <1>0 DEF Reaping, Sane, Busy, Steps
  <2>3. /\ ready' \in [Workers -> BOOLEAN]
        /\ (killed \subseteq Workers /\ failed \subseteq Workers /\ unclean \subseteq Workers)'
    <3>1. CASE Reaping(p)
      BY <1>27, <2>2, <3>1 DEF CommandDies, TypeInv, WorkerType
    <3>2. CASE ~Reaping(p)
      BY <1>27, <3>2 DEF CommandDies, TypeInv, WorkerType
    <3> QED BY <3>1, <3>2
  <2> QED BY <1>27, <2>1, <2>3
      DEF CommandDies, TypeInv, FileType, WorkerType, WorkerSane, PruneType, files
<1> QED BY <1>1, <1>2, <1>3, <1>4, <1>5, <1>6, <1>7, <1>8, <1>9, <1>10, <1>11, <1>12,
     <1>13, <1>14, <1>15, <1>16, <1>17, <1>18, <1>19, <1>20, <1>21, <1>22, <1>23, <1>24,
     <1>25, <1>26, <1>27
    DEF CommandStep

\* Every step keeps the types.
LEMMA TypeInvNext == TypeInv /\ [Next]_vars => TypeInv'
<1> SUFFICES ASSUME TypeInv, [Next]_vars PROVE TypeInv'
  OBVIOUS
<1>1. CASE Next
  BY <1>1, WorkerTypeNext, BeginType, CommandTypeNext DEF Next
<1>2. CASE UNCHANGED vars
  BY <1>2 DEF vars, files, workers, hist, TypeInv, FileType, WorkerType, WorkerSane,
          PruneType, CommandType
<1> QED BY <1>1, <1>2

\* The registry is type correct: whatever is started, killed, pruned and lost, a process
\* that holds a lock has a file open for it, and there is always a file to be opened.
THEOREM RegistryTypeCorrect == Spec => []TypeOK
<1>1. TypeInv => TypeOK
  <2> SUFFICES ASSUME TypeInv PROVE TypeOK
    OBVIOUS
  <2>1. \A p \in Commands : cmd[p].locked => cmd[p].ino # 0
    BY CommandStateOf DEF Sane
  <2> QED BY <2>1 DEF TypeInv, FileType, WorkerType, WorkerSane, PruneType, CommandType,
                     TypeOK, PruneState, CommandState, Kind
<1> QED BY <1>1, TypeInvInit, TypeInvNext, PTL DEF Spec

-----------------------------------------------------------------------------
\* What a step may do to a worker and to a command

\* The phases in which a worker has closed its socket, and its helper too.
Closed  == {"prune", "pruning", "release", "remove"}
Closing == Closed \cup {"closeHelper"}

\* A worker never starts twice and does not come back; its parts appear only while it
\* starts; a record appears when it publishes, and goes when the worker or a command that
\* has cleaned up removes it.
Onward ==
    \A v \in Workers :
        /\ wpc[v] \notin Early => wpc'[v] \notin Early
        /\ wpc[v] \in {"gone", "dead"} => wpc'[v] = wpc[v]
        /\ wpc[v] # "unused" => wpc'[v] # "unused"
        /\ wpc'[v] \in Startup => wpc[v] \in Startup \/ LauncherAlive(v)'
        /\ wpc[v] \notin Startup /\ ~socket[v] => ~socket'[v]
        /\ wpc[v] \notin Startup /\ helper[v] # "marked" => helper'[v] # "marked"
        /\ rec[v] = None /\ rec'[v] # None =>
             StoreFree /\ wpc[v] \in Startup /\ wpc'[v] \notin Early
        /\ rec[v] # None /\ rec'[v] = None =>
             \/ wpc[v] = "remove" /\ published[v] /\ ~dirty[v]
             \/ \E p \in Commands : cmd[p].pc = "remove" /\ cmd[p].w = v
        /\ ready'[v] => ready[v] \/ (wpc[v] = "published" /\ wpc'[v] = "serving")
        /\ published'[v] => published[v] \/ wpc'[v] = "published"
        /\ wpc'[v] = "published" => wpc[v] = "published" \/ rec'[v] # None
        /\ published'[v] /\ ~dirty'[v] =>
             /\ wpc'[v] \in Closing =>
                  \/ ~socket'[v] \/ v \in swallowed'
                  \/ published[v] /\ ~dirty[v] /\ wpc[v] \in Closing
             /\ wpc'[v] \in Closed =>
                  helper'[v] # "marked" \/ (published[v] /\ ~dirty[v] /\ wpc[v] \in Closed)
        /\ v \in unclean => v \in unclean'
        /\ v \in swallowed => v \in swallowed'

\* A worker's own steps do no more than that.
LEMMA WorkerOnward ==
  ASSUME TypeInv, ListedInv, NEW w \in Workers,
         WorkerStep(w) \/ ServingFails(w) \/ Crash(w)
  PROVE  Onward
<1>0. published[w] => wpc[w] \notin Early
  BY DEF ListedInv
<1>1. CASE OpenLease(w)
  BY <1>1, <1>0
      DEF OpenLease, OpenLeaseFile, WorkerGoto, Onward, TypeInv, FileType, WorkerType,
          Early, Startup, Closing, Closed, files, workers, hist
<1>2. CASE LockLease(w)
  BY <1>2, <1>0
      DEF LockLease, WorkerGoto, Onward, TypeInv, FileType, WorkerType, Early, Startup,
          Closing, Closed, files, workers, hist
<1>3. CASE LeaseRefused(w)
  BY <1>3, <1>0
      DEF LeaseRefused, WorkerEnds, WorkerGoto, Onward, TypeInv, FileType, WorkerType,
          Early, Startup, Closing, Closed, files, workers, hist
<1>4. CASE CreateHelper(w)
  BY <1>4, <1>0
      DEF CreateHelper, WorkerGoto, Onward, TypeInv, FileType, WorkerType, Early,
          Startup, Closing, Closed, files, workers, hist
<1>5. CASE MarkHelper(w)
  BY <1>5, <1>0
      DEF MarkHelper, WorkerGoto, Onward, TypeInv, FileType, WorkerType, Early, Startup,
          Closing, Closed, files, workers, hist
<1>6. CASE \E left \in {"none", "unmarked", "marked"} : HelperFails(w, left)
  BY <1>6, <1>0
      DEF HelperFails, WorkerGoto, Onward, TypeInv, FileType, WorkerType, Early,
          Startup, Closing, Closed, files, workers, hist
<1>7. CASE StartMirror(w)
  BY <1>7, <1>0
      DEF StartMirror, WorkerGoto, Onward, TypeInv, FileType, WorkerType, Early,
          Startup, Closing, Closed, files, workers, hist
<1>8. CASE Listen(w)
  BY <1>8, <1>0
      DEF Listen, WorkerGoto, Onward, TypeInv, FileType, WorkerType, Early, Startup,
          Closing, Closed, files, workers, hist
<1>9. CASE Publish(w)
  BY <1>9, <1>0
      DEF Publish, WorkerGoto, Onward, TypeInv, FileType, WorkerType, Early, Startup,
          Closing, Closed, files, workers, hist, WorkerSane
<1>10. CASE PublishFails(w)
  BY <1>10, <1>0
      DEF PublishFails, WorkerGoto, Onward, TypeInv, FileType, WorkerType, WorkerSane,
          Early, Startup, Closing, Closed, files, workers, hist
<1>11. CASE ReportReady(w)
  BY <1>11, <1>0
      DEF ReportReady, WorkerGoto, Onward, TypeInv, FileType, WorkerType, Early,
          Startup, Closing, Closed, files, workers, hist
<1>12. CASE ReadyFails(w)
  BY <1>12, <1>0
      DEF ReadyFails, WorkerGoto, Onward, TypeInv, FileType, WorkerType, Early, Startup,
          Closing, Closed, files, workers, hist
<1>13. CASE StopServing(w)
  BY <1>13, <1>0
      DEF StopServing, WorkerGoto, Onward, TypeInv, FileType, WorkerType, Early,
          Startup, Closing, Closed, files, workers, hist
<1>14. CASE ServingFails(w)
  BY <1>14, <1>0
      DEF ServingFails, WorkerGoto, Onward, TypeInv, FileType, WorkerType, Early,
          Startup, Closing, Closed, files, workers, hist
<1>15. CASE CloseControl(w)
  <2>1. PICK left \in {FALSE, socket[w]}, bad \in BOOLEAN :
             /\ socket' = [socket EXCEPT ![w] = left]
             /\ dirty' = [dirty EXCEPT ![w] = bad]
             /\ swallowed' = IF left /\ ~bad THEN swallowed \cup {w} ELSE swallowed
    BY <1>15 DEF CloseControl
  <2>2. left \in BOOLEAN
    BY <2>1 DEF TypeInv, FileType
  <2>3. \A v \in Workers : v # w => socket'[v] = socket[v] /\ dirty'[v] = dirty[v]
    BY <2>1 DEF TypeInv, FileType, WorkerType
  <2>4. /\ socket'[w] => socket[w]
        /\ socket'[w] /\ ~dirty'[w] => w \in swallowed'
    BY <2>1, <2>2 DEF TypeInv, FileType, WorkerType
  <2>5. swallowed \subseteq swallowed'
    BY <2>1
  <2>6. \A v \in Workers : wpc'[v] = IF v = w THEN "closeHelper" ELSE wpc[v]
    BY <1>15 DEF CloseControl, WorkerGoto, TypeInv, WorkerType
  <2>7. wpc[w] = "stopControl" /\ UNCHANGED <<rec, helper, published, ready, unclean>>
    BY <1>15 DEF CloseControl
  <2> QED BY <2>3, <2>4, <2>5, <2>6, <2>7 DEF Onward, Early, Startup, Closing, Closed
<1>16. CASE CloseHelper(w)
  BY <1>16, <1>0
      DEF CloseHelper, WorkerGoto, Onward, TypeInv, FileType, WorkerType, Early,
          Startup, Closing, Closed, files, workers, hist
<1>17. CASE PruneBegin(w)
  BY <1>17
      DEF PruneBegin, WorkerGoto, Onward, TypeInv, FileType, WorkerType, Early, Startup,
          Closing, Closed, files, workers, hist
<1>18. CASE NothingToPrune(w)
  BY <1>18
      DEF NothingToPrune, WorkerGoto, Onward, TypeInv, FileType, WorkerType, Early,
          Startup, Closing, Closed, files, workers, hist
<1>19. CASE \E v \in Workers : PruneOpen(w, v)
  BY <1>19
      DEF PruneOpen, Onward, TypeInv, FileType, WorkerType, Early, Startup, Closing,
          Closed, files, workers, hist
<1>20. CASE PruneLock(w)
  BY <1>20
      DEF PruneLock, Onward, TypeInv, FileType, WorkerType, Early, Startup, Closing,
          Closed, files, workers, hist
<1>21. CASE PruneHeld(w)
  BY <1>21
      DEF PruneHeld, Onward, TypeInv, FileType, WorkerType, Early, Startup, Closing,
          Closed, files, workers, hist
<1>22. CASE PruneDelete(w)
  BY <1>22
      DEF PruneDelete, Onward, TypeInv, FileType, WorkerType, Early, Startup, Closing,
          Closed, files, workers, hist
<1>23. CASE PruneEnd(w)
  BY <1>23
      DEF PruneEnd, WorkerGoto, Onward, TypeInv, FileType, WorkerType, Early, Startup,
          Closing, Closed, files, workers, hist, WorkerSane
<1>24. CASE ReleaseLease(w)
  BY <1>24, <1>0
      DEF ReleaseLease, WorkerGoto, Onward, TypeInv, FileType, WorkerType, Early,
          Startup, Closing, Closed, files, workers, hist
<1>25. CASE RemoveOwnRecord(w)
  BY <1>25, <1>0
      DEF RemoveOwnRecord, WorkerEnds, WorkerGoto, Onward, TypeInv, FileType,
          WorkerType, Early, Startup, Closing, Closed, files, workers, hist
<1>26. CASE Crash(w)
  BY <1>26, <1>0
      DEF Crash, Dies, WorkerEnds, WorkerGoto, Running, Onward, TypeInv, FileType,
          WorkerType, Early, Startup, Closing, Closed, files, workers, hist
<1> QED BY <1>1, <1>2, <1>3, <1>4, <1>5, <1>6, <1>7, <1>8, <1>9, <1>10, <1>11, <1>12,
     <1>13, <1>14, <1>15, <1>16, <1>17, <1>18, <1>19, <1>20, <1>21, <1>22, <1>23, <1>24,
     <1>25, <1>26
    DEF WorkerStep

\* Nor do the steps of a command.
LEMMA CommandOnward ==
  ASSUME TypeInv, ListedInv, NEW p \in Commands,
         CommandBegin(p) \/ CommandStep(p) \/ CommandDies(p)
  PROVE  Onward
<1>0. /\ cmd[p] \in CommandState /\ Sane(cmd[p])
      /\ cmd[p].pc \in Busy => cmd[p].w \in Workers
  BY CommandStateOf DEF Sane
<1>1. CASE CommandBegin(p)
  BY <1>1
      DEF CommandBegin, BeginStart, BeginList, BeginKill, Onward, files, workers, hist
<1>2. CASE \E item \in Listed : StatusAnswered(p, item) \/ StatusFails(p, item)
                              \/ ShutdownFails(p, item)
  BY <1>2 DEF StatusAnswered, StatusFails, ShutdownFails, Onward, files, workers, hist
<1>3. CASE \E item \in Listed, answered \in BOOLEAN : ShutdownAsked(p, item, answered)
  BY <1>3 DEF ShutdownAsked, Onward, files, workers, hist
<1>4. CASE OpenRecordLease(p)
  BY <1>4 DEF OpenRecordLease, Onward, files, workers, hist
<1>5. CASE LockRecordLease(p) \/ WaitResolve(p) \/ ProbeLease(p) \/ WaitTimesOut(p)
  BY <1>5
      DEF LockRecordLease, WaitResolve, ProbeLease, WaitTimesOut, Onward, files,
          workers, hist
<1>6. CASE InspectDone(p) \/ ReuseExisting(p) \/ RenameFails(p) \/ NameRefused(p)
        \/ OutOfWorkers(p) \/ WorkerReaped(p)
  BY <1>6
      DEF InspectDone, ReuseExisting, RenameFails, NameRefused, OutOfWorkers,
          WorkerReaped, Onward, files, workers, hist
<1>7. CASE RecordLeaseHeld(p)
  BY <1>7 DEF RecordLeaseHeld, Onward, files, workers, hist
<1>8. CASE CleanStale(p)
  BY <1>8
      DEF CleanStale, Swept, Onward, TypeInv, FileType, WorkerType, Early, Startup,
          Closing, Closed, files, workers, hist
<1>9. CASE CleanStaleFails(p)
  BY <1>9
      DEF CleanStaleFails, Swept, Onward, TypeInv, FileType, WorkerType, Early, Startup,
          Closing, Closed, files, workers, hist
<1>10. CASE RemoveStale(p)
  BY <1>10
      DEF RemoveStale, Onward, TypeInv, FileType, WorkerType, Early, Startup, Closing,
          Closed, files, workers, hist
<1>11. CASE CloseRecordLease(p) \/ Probed(p)
  BY <1>11 DEF CloseRecordLease, Probed, Onward, files, workers, hist
<1>12. CASE Rename(p)
  <2>1. cmd[p].want # None
    BY <1>0, <1>12, RegistryAssumption DEF Rename, Sane
  <2> QED BY <1>0, <1>12, <2>1
      DEF Rename, Onward, TypeInv, FileType, WorkerType, Early, Startup, Closing,
          Closed, files, workers, hist
<1>13. CASE \E w \in Workers, name \in Names : Launch(p, w, name)
  <2>1. PICK w \in Workers, name \in Names : Launch(p, w, name)
    BY <1>13
  <2>2. LauncherAlive(w)'
    <3>1. cmd'[p] = [Idle EXCEPT !.pc = "launched", !.kind = "reap", !.w = w]
      BY <2>1 DEF Launch, Become, TypeInv, CommandType
    <3>2. cmd'[p].kind = "reap" /\ cmd'[p].w = w
      BY <3>1 DEF Idle
    <3> QED BY <3>2 DEF LauncherAlive, Reaping
  <2>3. ~published[w] /\ ~ready[w] /\ rec[w] = None
    BY <2>1 DEF ListedInv, Launch, Early
  <2> QED BY <2>1, <2>2, <2>3
      DEF Launch, WorkerGoto, Onward, TypeInv, FileType, WorkerType, Early, Startup,
          Closing, Closed, files, workers, hist
<1>14. CASE StartSucceeds(p)
  BY <1>14
      DEF StartSucceeds, Onward, TypeInv, FileType, WorkerType, Early, Startup, Closing,
          Closed, files, workers, hist
<1>15. CASE StartTimesOut(p)
  BY <1>15 DEF StartTimesOut, Onward, files, workers, hist
<1>16. CASE ForceStop(p)
  <2>1. cmd[p].w \in Workers
    BY <1>0, <1>16 DEF ForceStop, Busy, Steps
  <2> QED BY <1>16, <2>1
      DEF ForceStop, Dies, WorkerEnds, WorkerGoto, Running, Onward, TypeInv, FileType,
          WorkerType, Early, Startup, Closing, Closed, files, workers, hist
<1>17. CASE CommandDies(p)
  BY <1>17
      DEF CommandDies, Onward, TypeInv, FileType, WorkerType, Early, Startup, Closing,
          Closed, files, workers, hist
<1> QED BY <1>1, <1>2, <1>3, <1>4, <1>5, <1>6, <1>7, <1>8, <1>9, <1>10, <1>11, <1>12,
     <1>13, <1>14, <1>15, <1>16, <1>17
    DEF CommandStep

\* A command adds to its list only what has a record.  A launcher stays with its worker
\* until it is ready, or until it has cleaned up after it or said that it could not; it
\* begins to clean up when the worker has ended.
Errand(p) ==
    /\ \A item \in cmd'[p].todo : item \in cmd[p].todo \/ item \in Records
    /\ Reaping(p)' =>
         \/ /\ Reaping(p) /\ cmd'[p].w = cmd[p].w
            /\ cmd[p].pc \in {"launched", "stopping"} =>
                 cmd'[p].pc \in {"launched", "stopping"} \/ ~Running(cmd[p].w)'
         \/ cmd'[p].pc = "launched" /\ wpc'[cmd'[p].w] # "unused"
    /\ Reaping(p) =>
         \/ Reaping(p)' /\ cmd'[p].w = cmd[p].w
         \/ cmd[p].w \in unclean' \/ ready[cmd[p].w] \/ cmd[p].pc \in {"close", "abort"}
    /\ cmd'[p].pc = "remove" \/ (Reaping(p)' /\ cmd'[p].pc = "close") =>
         cmd'[p] = cmd[p] \/ Clean(cmd[p].w)'
    /\ Reaping(p)' /\ cmd'[p].pc = "abort" =>
         cmd'[p] = cmd[p] \/ cmd'[p].w \in unclean'

\* A start fails when its launcher has cleaned up, or has said that it could not.
Failing ==
    \A v \in failed' :
        \/ v \in failed \cup unclean'
        \/ \E p \in Commands :
              Reaping(p) /\ cmd[p].w = v /\ cmd[p].pc \in {"close", "abort"}

\* Who does nothing runs no errand.
LEMMA ErrandIdle ==
  ASSUME NEW p \in Commands, cmd'[p] = cmd[p]
  PROVE  Errand(p)
  BY DEF Errand, Reaping

\* What is left of a command's state when it is done with a record.
LEMMA DealtFields ==
  ASSUME TypeInv, NEW p \in Commands, NEW item, NEW live, NEW s,
         \/ s = Dealt(p, item, live)
         \/ s = [Dealt(p, item, live) EXCEPT !.seen = cmd[p].seen]
  PROVE  s.todo \subseteq cmd[p].todo /\ s.kind = cmd[p].kind /\ s.pc = "inspect"
<1> DEFINE seen == IF cmd[p].kind = "start" THEN cmd[p].seen \cup {<<item, live>>}
                   ELSE cmd[p].seen
           d == [cmd[p] EXCEPT !.pc = "inspect", !.todo = @ \ {item}, !.w = None, !.ino = 0,
                               !.locked = FALSE, !.seen = seen]
<1>1. cmd[p] \in CommandState
  BY CommandStateOf
<1>2. Dealt(p, item, live) = d
  BY <1>1 DEF Dealt, CommandState
<1> HIDE DEF seen
<1>3. d.todo \subseteq cmd[p].todo /\ d.kind = cmd[p].kind /\ d.pc = "inspect"
  BY <1>1 DEF CommandState
<1>4. ASSUME s = [d EXCEPT !.seen = cmd[p].seen]
      PROVE  s.todo = d.todo /\ s.kind = d.kind /\ s.pc = d.pc
  BY <1>1, <1>4 DEF CommandState
<1> QED BY <1>2, <1>3, <1>4

\* A command that is done with a record or altogether.
LEMMA ErrandOver ==
  ASSUME TypeInv, NEW p \in Commands, NEW s, Become(p, s),
         \/ s = Idle
         \/ cmd[p].kind # "reap" /\ \E item, live :
               \/ s = Dealt(p, item, live)
               \/ s = [Dealt(p, item, live) EXCEPT !.seen = cmd[p].seen],
         Reaping(p) => cmd[p].w \in unclean' \/ ready[cmd[p].w]
                       \/ cmd[p].pc \in {"close", "abort"}
  PROVE  Errand(p)
<1>1. cmd'[p] = s /\ cmd[p] \in CommandState
  BY CommandStateOf DEF Become, TypeInv, CommandType
<1>2. s.todo \subseteq cmd[p].todo /\ s.kind # "reap" /\ s.pc \in {"idle", "inspect"}
  <2>1. CASE s = Idle
    BY <2>1 DEF Idle
  <2>2. ASSUME cmd[p].kind # "reap", NEW item, NEW live, s = Dealt(p, item, live)
        PROVE  s.todo \subseteq cmd[p].todo /\ s.kind # "reap" /\ s.pc = "inspect"
    BY <2>2, DealtFields
  <2>3. ASSUME cmd[p].kind # "reap", NEW item, NEW live,
               s = [Dealt(p, item, live) EXCEPT !.seen = cmd[p].seen]
        PROVE  s.todo \subseteq cmd[p].todo /\ s.kind # "reap" /\ s.pc = "inspect"
    BY <2>3, DealtFields
  <2> QED BY <2>1, <2>2, <2>3
<1> QED BY <1>1, <1>2 DEF Errand, Reaping

\* The other commands are where they were.
LEMMA OthersIdle ==
  ASSUME TypeInv, NEW p \in Commands, NEW s, Become(p, s), Errand(p)
  PROVE  \A q \in Commands : Errand(q)
<1> SUFFICES ASSUME NEW q \in Commands, q # p PROVE Errand(q)
  OBVIOUS
<1>1. cmd'[q] = cmd[q]
  BY DEF Become, TypeInv, CommandType
<1> QED BY <1>1, ErrandIdle

\* A command begins with records.
LEMMA BeginErrand ==
  ASSUME TypeInv, NEW p \in Commands, CommandBegin(p)
  PROVE  (\A q \in Commands : Errand(q)) /\ Failing
<1>1. PICK s : Become(p, s) /\ s.todo \subseteq Records /\ s.kind # "reap"
               /\ s.pc = "inspect"
  <2>1. CASE \E win \in Windows, want \in Names \cup {None} : BeginStart(p, win, want)
    <3>1. PICK win \in Windows, want \in Names \cup {None} : BeginStart(p, win, want)
      BY <2>1
    <3> DEFINE s == [Idle EXCEPT !.pc = "inspect", !.kind = "start", !.win = win,
                                 !.want = want, !.todo = Records]
    <3>2. Become(p, s)
      BY <3>1 DEF BeginStart
    <3>3. s.todo \subseteq Records /\ s.pc = "inspect" /\ s.kind # "reap"
      BY DEF Idle
    <3> HIDE DEF s
    <3> QED BY <3>2, <3>3
  <2>2. CASE \E kind \in {"list", "doctor"} : BeginList(p, kind)
    <3>1. PICK kind \in {"list", "doctor"} : BeginList(p, kind)
      BY <2>2
    <3> DEFINE s == [Idle EXCEPT !.pc = "inspect", !.kind = kind, !.todo = Records]
    <3>2. Become(p, s)
      BY <3>1 DEF BeginList
    <3>3. s.todo \subseteq Records /\ s.pc = "inspect" /\ s.kind # "reap"
      BY DEF Idle
    <3> HIDE DEF s
    <3> QED BY <3>2, <3>3
  <2>3. CASE \E chosen \in SUBSET Records : BeginKill(p, chosen)
    <3>1. PICK chosen \in SUBSET Records : BeginKill(p, chosen)
      BY <2>3
    <3> DEFINE s == [Idle EXCEPT !.pc = "inspect", !.kind = "kill", !.todo = chosen]
    <3>2. Become(p, s)
      BY <3>1 DEF BeginKill
    <3>3. s.todo \subseteq Records /\ s.pc = "inspect" /\ s.kind # "reap"
      BY DEF Idle
    <3> HIDE DEF s
    <3> QED BY <3>2, <3>3
  <2> QED BY <2>1, <2>2, <2>3 DEF CommandBegin
<1>2. cmd[p].pc = "idle" /\ UNCHANGED failed
  BY DEF CommandBegin, BeginStart, BeginList, BeginKill, hist
<1>3. cmd'[p] = s /\ cmd[p].kind # "reap"
  BY <1>1, <1>2, CommandStateOf DEF Become, TypeInv, CommandType, Sane
<1>4. Errand(p)
  BY <1>1, <1>3 DEF Errand, Reaping
<1> QED BY <1>1, <1>2, <1>4, OthersIdle DEF Failing

\* A command's step is an errand, and only a launcher reports a failed start.
LEMMA CommandErrand ==
  ASSUME TypeInv, NEW p \in Commands, CommandStep(p) \/ CommandDies(p)
  PROVE  (\A q \in Commands : Errand(q)) /\ Failing
<1>0. /\ cmd[p] \in CommandState /\ Sane(cmd[p])
      /\ \A s : Become(p, s) => cmd'[p] = s
  BY CommandStateOf DEF Become, TypeInv, CommandType
<1> DEFINE Goal == (\A q \in Commands : Errand(q)) /\ Failing
<1>1. ASSUME NEW item \in Listed, StatusAnswered(p, item)
      PROVE  Goal
  <2>1. Become(p, Dealt(p, item, TRUE)) /\ UNCHANGED failed
    BY <1>1 DEF StatusAnswered, hist
  <2>2. cmd[p].kind # "reap"
    BY <1>0, <1>1 DEF StatusAnswered, Sane
  <2>3. Errand(p)
    BY <2>1, <2>2, ErrandOver DEF Reaping
  <2> QED BY <2>1, <2>3, OthersIdle DEF Failing
<1>2. ASSUME NEW item \in Listed, StatusFails(p, item)
      PROVE  Goal
  <2> DEFINE s == [cmd[p] EXCEPT !.w = item[1],
                             !.pc = IF cmd[p].kind = "doctor" THEN "check" ELSE "open"]
  <2>1. Become(p, s) /\ UNCHANGED failed
    BY <1>2 DEF StatusFails, hist
  <2>2. Errand(p)
    BY <1>0, <1>2, <2>1 DEF StatusFails, Sane, Errand, Reaping, CommandState
  <2> QED BY <2>1, <2>2, OthersIdle DEF Failing
<1>3. ASSUME NEW item \in Listed, NEW answered \in BOOLEAN, ShutdownAsked(p, item, answered)
      PROVE  Goal
  <2> DEFINE s == [cmd[p] EXCEPT !.w = item[1],
                             !.pc = IF answered THEN "wait" ELSE "open"]
  <2>1. Become(p, s) /\ UNCHANGED failed
    BY <1>3 DEF ShutdownAsked, hist
  <2>2. Errand(p)
    BY <1>0, <1>3, <2>1 DEF ShutdownAsked, Sane, Errand, Reaping, CommandState
  <2> QED BY <2>1, <2>2, OthersIdle DEF Failing
<1>4. ASSUME NEW item \in Listed, ShutdownFails(p, item)
      PROVE  Goal
  <2> DEFINE s == [cmd[p] EXCEPT !.w = item[1], !.pc = "open"]
  <2>1. Become(p, s) /\ UNCHANGED failed
    BY <1>4 DEF ShutdownFails, hist
  <2>2. Errand(p)
    BY <1>0, <1>4, <2>1 DEF ShutdownFails, Sane, Errand, Reaping, CommandState
  <2> QED BY <2>1, <2>2, OthersIdle DEF Failing
<1>5. CASE OpenRecordLease(p)
  <2> DEFINE s == [cmd[p] EXCEPT !.pc = "flock", !.ino = OpenedInode(cmd[p].w)]
  <2>1. Become(p, s) /\ UNCHANGED failed
    BY <1>5 DEF OpenRecordLease, hist
  <2>2. Errand(p)
    BY <1>0, <1>5, <2>1 DEF OpenRecordLease, Sane, Errand, Reaping, CommandState
  <2> QED BY <2>1, <2>2, OthersIdle DEF Failing
<1>6. CASE LockRecordLease(p)
  <2> DEFINE s == [cmd[p] EXCEPT !.pc = "clean", !.locked = TRUE]
  <2>1. Become(p, s) /\ UNCHANGED failed
    BY <1>6 DEF LockRecordLease, hist
  <2>2. Errand(p)
    BY <1>0, <1>6, <2>1 DEF LockRecordLease, Sane, Errand, Reaping, CommandState
  <2> QED BY <2>1, <2>2, OthersIdle DEF Failing
<1>7. CASE RecordLeaseHeld(p)
  <2>1. CASE Reaping(p)
    <3>1. Become(p, Idle) /\ cmd[p].w \in unclean' /\ failed' = failed \cup {cmd[p].w}
      BY <1>7, <2>1 DEF RecordLeaseHeld
    <3>2. Errand(p)
      BY <3>1, ErrandOver
    <3> QED BY <3>1, <3>2, OthersIdle DEF Failing
  <2>2. CASE ~Reaping(p)
    <3>1. Become(p, Dealt(p, Item(p), FALSE)) /\ UNCHANGED failed
      BY <1>7, <2>2 DEF RecordLeaseHeld
    <3>2. Errand(p)
      BY <2>2, <3>1, ErrandOver DEF Reaping
    <3> QED BY <3>1, <3>2, OthersIdle DEF Failing
  <2> QED BY <2>1, <2>2
<1>8. CASE CleanStale(p)
  <2> DEFINE s == [cmd[p] EXCEPT !.pc = IF Reaping(p) THEN "close" ELSE "remove"]
  <2>1. Become(p, s) /\ UNCHANGED failed /\ cmd[p].w \in Workers
    BY <1>0, <1>8 DEF CleanStale, hist, Sane, Busy, Steps
  <2>2. helper'[cmd[p].w] # "marked" /\ ~socket'[cmd[p].w]
    BY <1>8, <2>1 DEF CleanStale, Swept, TypeInv, FileType
  <2>3. cmd'[p].w = cmd[p].w /\ cmd'[p].kind = cmd[p].kind /\ cmd'[p].todo = cmd[p].todo
        /\ cmd'[p].pc \in {"close", "remove"}
    BY <1>0, <2>1 DEF CommandState
  <2>4. Clean(cmd[p].w)'
    BY <2>2, <2>3 DEF Clean
  <2>5. Errand(p)
    BY <1>8, <2>3, <2>4 DEF CleanStale, Errand, Reaping
  <2> QED BY <2>1, <2>5, OthersIdle DEF Failing
<1>9. CASE CleanStaleFails(p)
  <2> DEFINE s == [cmd[p] EXCEPT !.pc = "abort"]
  <2>1. Become(p, s) /\ UNCHANGED failed
    BY <1>9 DEF CleanStaleFails
  <2>2. Reaping(p) => cmd[p].w \in unclean'
    BY <1>9 DEF CleanStaleFails
  <2>3. Errand(p)
    BY <1>0, <1>9, <2>1, <2>2 DEF CleanStaleFails, Errand, Reaping, CommandState
  <2> QED BY <2>1, <2>3, OthersIdle DEF Failing
<1>10. CASE RemoveStale(p)
  <2> DEFINE s == [cmd[p] EXCEPT !.pc = IF rec[cmd[p].w] # None THEN "closeRemoved" ELSE "close"]
  <2>1. Become(p, s) /\ UNCHANGED failed
    BY <1>10 DEF RemoveStale, hist
  <2>2. Errand(p)
    BY <1>0, <1>10, <2>1 DEF RemoveStale, Sane, Errand, Reaping, CommandState
  <2> QED BY <2>1, <2>2, OthersIdle DEF Failing
<1>11. CASE CloseRecordLease(p)
  <2>1. Reaping(p) => cmd[p].pc \in {"close", "abort"}
    BY <1>0, <1>11 DEF CloseRecordLease, Reaping, Sane
  <2>2. Failing
    BY <1>11, <2>1 DEF CloseRecordLease, Failing
  <2>3. PICK s : Become(p, s) /\
                 \/ s = Idle
                 \/ cmd[p].kind # "reap" /\ \E item, live :
                      \/ s = Dealt(p, item, live)
                      \/ s = [Dealt(p, item, live) EXCEPT !.seen = cmd[p].seen]
    <3>1. CASE Reaping(p) \/ (cmd[p].pc = "abort" /\ cmd[p].kind # "kill")
      BY <1>11, <3>1 DEF CloseRecordLease
    <3>2. CASE ~(Reaping(p) \/ (cmd[p].pc = "abort" /\ cmd[p].kind # "kill"))
      <4>1. cmd[p].kind # "reap"
        BY <3>2 DEF Reaping
      <4>2. \/ Become(p, Dealt(p, Item(p), FALSE))
            \/ Become(p, [Dealt(p, Item(p), FALSE) EXCEPT !.seen = cmd[p].seen])
        BY <1>11, <3>2 DEF CloseRecordLease
      <4> QED BY <4>1, <4>2
    <3> QED BY <3>1, <3>2
  <2>4. Errand(p)
    BY <2>1, <2>3, ErrandOver
  <2> QED BY <2>2, <2>3, <2>4, OthersIdle
<1>12. CASE WaitResolve(p)
  <2> DEFINE s == [cmd[p] EXCEPT !.pc = "check"]
  <2>1. Become(p, s) /\ UNCHANGED failed
    BY <1>12 DEF WaitResolve, hist
  <2>2. Errand(p)
    BY <1>0, <1>12, <2>1 DEF WaitResolve, Sane, Errand, Reaping, CommandState
  <2> QED BY <2>1, <2>2, OthersIdle DEF Failing
<1>13. CASE ProbeLease(p)
  <2> DEFINE v == cmd[p].w
             s == [cmd[p] EXCEPT !.pc = "probe", !.ino = link[v], !.locked = link[v] # 0]
             r == [cmd[p] EXCEPT !.pc = "wait"]
  <2>1. cmd[p].kind # "reap" /\ UNCHANGED failed
    BY <1>0, <1>13 DEF ProbeLease, Sane, hist
  <2>2. CASE Become(p, s)
    <3>1. Errand(p)
      BY <1>0, <2>1, <2>2 DEF Errand, Reaping, CommandState
    <3> QED BY <2>1, <2>2, <3>1, OthersIdle DEF Failing
  <2>3. CASE Become(p, r)
    <3>1. Errand(p)
      BY <1>0, <2>1, <2>3 DEF Errand, Reaping, CommandState
    <3> QED BY <2>1, <2>3, <3>1, OthersIdle DEF Failing
  <2>4. CASE Become(p, Dealt(p, Item(p), FALSE))
    <3>1. Errand(p)
      BY <2>1, <2>4, ErrandOver DEF Reaping
    <3> QED BY <2>1, <2>4, <3>1, OthersIdle DEF Failing
  <2> QED BY <1>13, <2>2, <2>3, <2>4 DEF ProbeLease
<1>14. CASE Probed(p)
  <2>1. Become(p, Dealt(p, Item(p), FALSE)) /\ UNCHANGED failed
    BY <1>14 DEF Probed, hist
  <2>2. cmd[p].kind # "reap"
    BY <1>0, <1>14 DEF Probed, Sane
  <2>3. Errand(p)
    BY <2>1, <2>2, ErrandOver DEF Reaping
  <2> QED BY <2>1, <2>3, OthersIdle DEF Failing
<1>15. CASE WaitTimesOut(p)
  <2>1. Become(p, Dealt(p, Item(p), FALSE)) /\ UNCHANGED failed
    BY <1>15 DEF WaitTimesOut, hist
  <2>2. cmd[p].kind # "reap"
    BY <1>0, <1>15 DEF WaitTimesOut, Sane
  <2>3. Errand(p)
    BY <2>1, <2>2, ErrandOver DEF Reaping
  <2> QED BY <2>1, <2>3, OthersIdle DEF Failing
<1>16. CASE InspectDone(p)
  <2>1. Become(p, Idle) /\ UNCHANGED failed
    BY <1>16 DEF InspectDone, hist
  <2>2. cmd[p].kind # "reap"
    BY <1>0, <1>16 DEF InspectDone, Sane
  <2>3. Errand(p)
    BY <2>1, <2>2, ErrandOver DEF Reaping
  <2> QED BY <2>1, <2>3, OthersIdle DEF Failing
<1>17. CASE RenameFails(p)
  <2>1. Become(p, Idle) /\ UNCHANGED failed
    BY <1>17 DEF RenameFails, hist
  <2>2. cmd[p].kind # "reap"
    BY <1>0, <1>17 DEF RenameFails, Sane
  <2>3. Errand(p)
    BY <2>1, <2>2, ErrandOver DEF Reaping
  <2> QED BY <2>1, <2>3, OthersIdle DEF Failing
<1>18. CASE NameRefused(p)
  <2>1. Become(p, Idle) /\ UNCHANGED failed
    BY <1>18 DEF NameRefused, hist
  <2>2. cmd[p].kind # "reap"
    BY <1>0, <1>18 DEF NameRefused, Sane
  <2>3. Errand(p)
    BY <2>1, <2>2, ErrandOver DEF Reaping
  <2> QED BY <2>1, <2>3, OthersIdle DEF Failing
<1>19. CASE OutOfWorkers(p)
  <2>1. Become(p, Idle) /\ UNCHANGED failed
    BY <1>19 DEF OutOfWorkers, hist
  <2>2. cmd[p].kind # "reap"
    BY <1>0, <1>19 DEF OutOfWorkers, Sane
  <2>3. Errand(p)
    BY <2>1, <2>2, ErrandOver DEF Reaping
  <2> QED BY <2>1, <2>3, OthersIdle DEF Failing
<1>20. CASE Rename(p)
  <2>1. Become(p, Idle) /\ UNCHANGED failed
    BY <1>20 DEF Rename, hist
  <2>2. cmd[p].kind # "reap"
    BY <1>0, <1>20 DEF Rename, Sane
  <2>3. Errand(p)
    BY <2>1, <2>2, ErrandOver DEF Reaping
  <2> QED BY <2>1, <2>3, OthersIdle DEF Failing
<1>21. CASE ReuseExisting(p)
  <2>1. cmd[p].kind # "reap" /\ UNCHANGED failed
    BY <1>21 DEF ReuseExisting, hist
  <2>2. PICK s : Become(p, s) /\ (s = Idle \/ \E v : s = [cmd[p] EXCEPT !.pc = "rename", !.w = v])
    BY <1>21 DEF ReuseExisting
  <2>3. CASE s = Idle
    <3>1. Errand(p)
      BY <2>1, <2>2, <2>3, ErrandOver DEF Reaping
    <3> QED BY <2>1, <2>2, <3>1, OthersIdle DEF Failing
  <2>4. CASE \E v : s = [cmd[p] EXCEPT !.pc = "rename", !.w = v]
    <3>1. Errand(p)
      BY <1>0, <2>1, <2>2, <2>4 DEF Errand, Reaping, CommandState
    <3> QED BY <2>1, <2>2, <3>1, OthersIdle DEF Failing
  <2> QED BY <2>2, <2>3, <2>4
<1>22. ASSUME NEW w \in Workers, NEW name \in Names, Launch(p, w, name)
      PROVE  Goal
  <2> DEFINE s == [Idle EXCEPT !.pc = "launched", !.kind = "reap", !.w = w]
  <2>1. Become(p, s) /\ UNCHANGED failed
    BY <1>22 DEF Launch, hist
  <2>2. s.todo = {} /\ s.pc = "launched" /\ s.w = w
    BY DEF Idle
  <2>3. wpc'[w] # "unused" /\ cmd[p].kind # "reap"
    BY <1>22 DEF Launch, WorkerGoto, TypeInv, WorkerType
  <2>4. cmd'[p] = s
    BY <1>0, <2>1
  <2> HIDE DEF s
  <2>5. Errand(p)
    BY <2>2, <2>3, <2>4 DEF Errand, Reaping
  <2> QED BY <2>1, <2>5, OthersIdle DEF Failing
<1>23. CASE StartSucceeds(p)
  <2>1. Become(p, Idle) /\ UNCHANGED failed /\ ready[cmd[p].w]
    BY <1>23 DEF StartSucceeds, hist
  <2>2. Errand(p)
    BY <2>1, ErrandOver
  <2> QED BY <2>1, <2>2, OthersIdle DEF Failing
<1>24. CASE WorkerReaped(p)
  <2> DEFINE s == [cmd[p] EXCEPT !.pc = "open"]
  <2>1. Become(p, s) /\ UNCHANGED failed
    BY <1>24 DEF WorkerReaped, hist
  <2>2. Errand(p)
    BY <1>0, <1>24, <2>1
        DEF WorkerReaped, Sane, Errand, Reaping, CommandState, Running, workers
  <2> QED BY <2>1, <2>2, OthersIdle DEF Failing
<1>25. CASE StartTimesOut(p)
  <2> DEFINE s == [cmd[p] EXCEPT !.pc = "stopping"]
  <2>1. Become(p, s) /\ UNCHANGED failed
    BY <1>25 DEF StartTimesOut, hist
  <2>2. Errand(p)
    BY <1>0, <1>25, <2>1 DEF StartTimesOut, Sane, Errand, Reaping, CommandState
  <2> QED BY <2>1, <2>2, OthersIdle DEF Failing
<1>26. CASE ForceStop(p)
  <2> DEFINE s == [cmd[p] EXCEPT !.pc = "open"]
  <2>1. Become(p, s) /\ UNCHANGED failed /\ cmd[p].w \in Workers
    BY <1>0, <1>26 DEF ForceStop, hist, Sane, Busy, Steps
  <2>2. ~Running(cmd[p].w)'
    <3>1. wpc'[cmd[p].w] = "dead" /\ cmd'[p].w = cmd[p].w
      BY <1>0, <1>26, <2>1
          DEF ForceStop, Dies, WorkerEnds, WorkerGoto, TypeInv, WorkerType, CommandState
    <3> QED BY <3>1 DEF Running
  <2>3. Errand(p)
    BY <1>0, <1>26, <2>1, <2>2 DEF ForceStop, Errand, Reaping, CommandState
  <2> QED BY <2>1, <2>3, OthersIdle DEF Failing
<1>27. CASE CommandDies(p)
  <2>1. Become(p, Idle) /\ UNCHANGED failed /\ (Reaping(p) => cmd[p].w \in unclean')
    BY <1>27 DEF CommandDies
  <2>2. Errand(p)
    BY <2>1, ErrandOver
  <2> QED BY <2>1, <2>2, OthersIdle DEF Failing
<1> QED BY <1>1, <1>2, <1>3, <1>4, <1>5, <1>6, <1>7, <1>8, <1>9, <1>10, <1>11, <1>12,
     <1>13, <1>14, <1>15, <1>16, <1>17, <1>18, <1>19, <1>20, <1>21, <1>22, <1>23, <1>24,
     <1>25, <1>26, <1>27
    DEF CommandStep

\* A worker's step is no command's.
LEMMA WorkerErrand ==
  ASSUME NEW w \in Workers, WorkerStep(w) \/ ServingFails(w) \/ Crash(w)
  PROVE  (\A q \in Commands : Errand(q)) /\ Failing
<1>1. UNCHANGED <<cmd, failed>>
  BY DEF WorkerStep, OpenLease, LockLease, LeaseRefused, CreateHelper, MarkHelper,
         HelperFails, StartMirror, Listen, Publish, PublishFails, ReportReady,
         ReadyFails, StopServing, ServingFails, CloseControl, CloseHelper, PruneBegin,
         NothingToPrune, PruneOpen, PruneLock, PruneHeld, PruneDelete, PruneEnd,
         ReleaseLease, RemoveOwnRecord, Crash, files, hist
<1> QED BY <1>1, ErrandIdle DEF Failing

\* What a step may do.
LEMMA StepFacts ==
  ASSUME TypeInv, ListedInv, [Next]_vars
  PROVE  Onward /\ (\A q \in Commands : Errand(q)) /\ Failing
<1>1. CASE Next
  BY <1>1, WorkerOnward, CommandOnward, WorkerErrand, BeginErrand, CommandErrand
      DEF Next
<1>2. CASE UNCHANGED vars
  <2>1. Onward /\ Failing
    BY <1>2 DEF vars, files, workers, hist, Onward, Failing
  <2>2. \A q \in Commands : cmd'[q] = cmd[q]
    BY <1>2 DEF vars
  <2> QED BY <2>1, <2>2, ErrandIdle
<1> QED BY <1>1, <1>2

-----------------------------------------------------------------------------
\* Nothing is forgotten

\* The invariant holds before anything is started.
LEMMA FateInvInit == Init => FateInv
  BY DEF Init, FateInv, ListedInv, ReapInv, SweptInv, KnownInv, Reaping, Idle, Early,
         Startup, Known, Gone, Clean

\* Who is visited has published, and who is reaped has ended: neither starts.
LEMMA VisitedNotStarting ==
  ASSUME TypeInv, ListedInv, ReapInv, NEW p \in Commands
  PROVE  /\ cmd[p].pc = "remove" => cmd[p].w \in Workers /\ wpc[cmd[p].w] \notin Early
         /\ Reaping(p) => cmd[p].w \in Workers
         /\ Reaping(p) /\ cmd[p].pc \in {"close", "abort"} =>
              wpc[cmd[p].w] \in {"gone", "dead"}
<1>1. cmd[p] \in CommandState /\ Sane(cmd[p])
  BY CommandStateOf
<1>2. ASSUME cmd[p].pc = "remove"
      PROVE  cmd[p].w \in Workers /\ wpc[cmd[p].w] \notin Early
  <2>1. cmd[p].pc \in Visiting /\ cmd[p].kind # "reap"
    BY <1>1, <1>2 DEF Sane, Visiting, Busy, Steps
  <2> QED BY <2>1, ItemIsListed DEF ListedInv
<1>3. Reaping(p) => cmd[p].w \in Workers
  BY <1>1 DEF Reaping, Sane, Busy, Steps
<1>4. Reaping(p) /\ cmd[p].pc \in {"close", "abort"} => wpc[cmd[p].w] \in {"gone", "dead"}
  BY <1>3 DEF ReapInv, Running, TypeInv, WorkerType
<1> QED BY <1>2, <1>3, <1>4

\* Whoever is listed has published.
LEMMA ListedNext ==
  ASSUME TypeInv, ListedInv, TypeInv', Onward, \A q \in Commands : Errand(q)
  PROVE  ListedInv'
<1>1. ASSUME NEW w \in Workers, rec'[w] # None \/ ready'[w] \/ published'[w]
      PROVE  wpc'[w] \notin Early
  BY <1>1 DEF Onward, ListedInv, Early, Startup
<1>2. ASSUME NEW p \in Commands, NEW item \in cmd'[p].todo
      PROVE  wpc'[item[1]] \notin Early
  <2>1. item[1] \in Workers
    BY CommandStateOf, <1>2 DEF TypeInv, CommandType, CommandState, Listed
  <2>2. item \in cmd[p].todo \/ item \in Records
    BY <1>2 DEF Errand
  <2>3. wpc[item[1]] \notin Early
    BY <1>2, <2>2 DEF ListedInv, Records
  <2> QED BY <2>1, <2>3 DEF Onward
<1> QED BY <1>1, <1>2 DEF ListedInv

\* A launcher cleans up after a worker that has ended.
LEMMA ReapNext ==
  ASSUME TypeInv, ListedInv, ReapInv, TypeInv', Onward, \A q \in Commands : Errand(q)
  PROVE  ReapInv'
<1> SUFFICES ASSUME NEW p \in Commands, Reaping(p)'
             PROVE  /\ wpc'[cmd'[p].w] # "unused"
                    /\ cmd'[p].pc \notin {"launched", "stopping"} => ~Running(cmd[p].w)'
  BY DEF ReapInv
<1>1. Errand(p)
  OBVIOUS
<1>2. CASE cmd'[p].pc = "launched" /\ wpc'[cmd'[p].w] # "unused"
  BY <1>2
<1>3. CASE /\ Reaping(p) /\ cmd'[p].w = cmd[p].w
           /\ cmd[p].pc \in {"launched", "stopping"} =>
                cmd'[p].pc \in {"launched", "stopping"} \/ ~Running(cmd[p].w)'
  <2>1. cmd[p].w \in Workers
    BY <1>3, VisitedNotStarting
  <2>2. wpc'[cmd[p].w] # "unused"
    BY <1>3, <2>1 DEF ReapInv, Onward
  <2>3. CASE cmd[p].pc \in {"launched", "stopping"}
    BY <1>3, <2>2, <2>3
  <2>4. CASE cmd[p].pc \notin {"launched", "stopping"}
    <3>1. wpc[cmd[p].w] \in {"gone", "dead"}
      BY <1>3, <2>4 DEF ReapInv, Running
    <3>2. wpc'[cmd[p].w] \in {"gone", "dead"}
      BY <2>1, <3>1 DEF Onward
    <3> QED BY <1>3, <2>2, <3>2 DEF Running
  <2> QED BY <2>3, <2>4
<1> QED BY <1>1, <1>2, <1>3 DEF Errand

\* Who is about to take a record away has cleaned up.
LEMMA SweptNext ==
  ASSUME TypeInv, ListedInv, ReapInv, SweptInv, Onward, \A q \in Commands : Errand(q)
  PROVE  SweptInv'
<1>1. ASSUME NEW p \in Commands,
             cmd'[p].pc = "remove" \/ (Reaping(p)' /\ cmd'[p].pc = "close")
      PROVE  Clean(cmd[p].w)'
  <2>1. CASE cmd'[p] = cmd[p]
    <3>1. cmd[p].pc = "remove" \/ (Reaping(p) /\ cmd[p].pc = "close")
      BY <1>1, <2>1 DEF Reaping
    <3>2. cmd[p].w \in Workers /\ wpc[cmd[p].w] \notin Startup
      BY <3>1, VisitedNotStarting DEF Early, Startup
    <3>3. Clean(cmd[p].w)
      BY <3>1 DEF SweptInv
    <3> QED BY <2>1, <3>2, <3>3 DEF Clean, Onward
  <2> QED BY <1>1, <2>1 DEF Errand
<1>2. ASSUME NEW p \in Commands, Reaping(p)', cmd'[p].pc = "abort"
      PROVE  cmd'[p].w \in unclean'
  <2>1. CASE cmd'[p] = cmd[p]
    <3>1. Reaping(p) /\ cmd[p].pc = "abort"
      BY <1>2, <2>1 DEF Reaping
    <3>2. cmd[p].w \in Workers /\ cmd[p].w \in unclean
      BY <3>1, VisitedNotStarting DEF SweptInv
    <3> QED BY <2>1, <3>2 DEF Onward
  <2> QED BY <1>2, <2>1 DEF Errand
<1>3. ASSUME NEW w \in Workers, published'[w], ~dirty'[w]
      PROVE  /\ wpc'[w] \in Closing => (socket'[w] => w \in swallowed')
             /\ wpc'[w] \in Closed => helper'[w] # "marked"
  BY <1>3 DEF SweptInv, Onward, Closing, Closed, Startup
<1> QED BY <1>1, <1>2, <1>3 DEF SweptInv, Closing, Closed

\* A record stays until there is nothing it leads to.
LEMMA KnownStays ==
  ASSUME TypeInv, ListedInv, ReapInv, SweptInv, Onward, NEW w \in Workers,
         Known(w), wpc[w] \notin Startup
  PROVE  Known(w)'
<1>1. CASE Gone(w)
  BY <1>1 DEF Gone, Known, Onward
<1>2. CASE rec[w] # None /\ rec'[w] = None
  <2>1. CASE wpc[w] = "remove" /\ published[w] /\ ~dirty[w]
    BY <1>1, <2>1 DEF SweptInv, Gone
  <2>2. CASE \E p \in Commands : cmd[p].pc = "remove" /\ cmd[p].w = w
    BY <1>1, <2>2 DEF SweptInv, Clean, Gone
  <2> QED BY <1>2, <2>1, <2>2 DEF Onward
<1>3. CASE rec'[w] # None
  BY <1>3 DEF Known
<1> QED BY <1>1, <1>2, <1>3 DEF Known

\* Somebody answers for a worker until a record leads to it or nothing is left of it.
LEMMA KnownNext ==
  ASSUME TypeInv, FateInv, Onward, \A q \in Commands : Errand(q), Failing
  PROVE  KnownInv'
<1> USE DEF FateInv
<1>1. ASSUME NEW w \in Workers, wpc'[w] = "published" \/ ready'[w]
      PROVE  Known(w)'
  <2>1. CASE wpc[w] = "published" \/ ready[w]
    <3>1. Known(w) /\ wpc[w] \notin Startup
      BY <2>1 DEF KnownInv, ListedInv, Early, Startup
    <3> QED BY <3>1, KnownStays
  <2>2. CASE ~(wpc[w] = "published" \/ ready[w])
    BY <1>1, <2>2 DEF Onward, Known
  <2> QED BY <2>1, <2>2
<1>2. ASSUME NEW w \in Workers, Known(w), wpc[w] \notin Startup
      PROVE  LauncherAlive(w)' \/ (Known(w)' /\ wpc'[w] \notin Startup)
  BY <1>2, KnownStays DEF Onward
<1>3. ASSUME NEW w \in Workers, LauncherAlive(w)
      PROVE  LauncherAlive(w)' \/ w \in unclean' \/ (Known(w)' /\ wpc'[w] \notin Startup)
  <2>1. PICK p \in Commands : Reaping(p) /\ cmd[p].w = w
    BY <1>3 DEF LauncherAlive
  <2>2. CASE Reaping(p)' /\ cmd'[p].w = cmd[p].w
    BY <2>1, <2>2 DEF LauncherAlive
  <2>3. CASE ready[w]
    BY <1>2, <2>3 DEF KnownInv, ListedInv, Early
  <2>4. CASE cmd[p].pc = "close"
    <3>1. Clean(w) /\ wpc[w] \notin Startup
      BY <2>1, <2>4, VisitedNotStarting DEF SweptInv, Startup
    <3> QED BY <1>2, <3>1 DEF Known, Gone, Clean
  <2>5. CASE cmd[p].pc = "abort"
    BY <2>1, <2>5 DEF SweptInv, Onward
  <2>6. Errand(p)
    OBVIOUS
  <2> QED BY <2>1, <2>2, <2>3, <2>4, <2>5, <2>6 DEF Errand
<1>4. ASSUME NEW w \in Workers
      PROVE  LauncherAlive(w)' \/ w \in unclean' \/ (Known(w)' /\ wpc'[w] \notin Startup)
  BY <1>2, <1>3 DEF KnownInv, Onward
<1>5. ASSUME NEW w \in Workers, w \in failed' \ unclean'
      PROVE  ~Running(w)' /\ wpc'[w] # "unused" /\ Clean(w)'
  <2>1. wpc[w] \in {"gone", "dead"} /\ Clean(w)
    <3>1. CASE w \in failed
      BY <1>5, <3>1 DEF KnownInv, Onward, Running, TypeInv, WorkerType
    <3>2. CASE \E p \in Commands :
                  Reaping(p) /\ cmd[p].w = w /\ cmd[p].pc \in {"close", "abort"}
      BY <1>5, <3>2, VisitedNotStarting DEF SweptInv, Onward
    <3> QED BY <1>5, <3>1, <3>2 DEF Failing
  <2> QED BY <2>1 DEF Onward, Clean, Running, Startup
<1> QED BY <1>1, <1>4, <1>5 DEF KnownInv

\* Every step keeps the invariant.
LEMMA FateInvNext == TypeInv /\ FateInv /\ [Next]_vars => FateInv'
<1> SUFFICES ASSUME TypeInv, FateInv, [Next]_vars PROVE FateInv'
  OBVIOUS
<1>1. TypeInv' /\ Onward /\ (\A q \in Commands : Errand(q)) /\ Failing
  BY TypeInvNext, StepFacts DEF FateInv
<1>2. ListedInv' /\ ReapInv' /\ SweptInv'
  BY <1>1, ListedNext, ReapNext, SweptNext DEF FateInv
<1> QED BY <1>1, <1>2, KnownNext DEF FateInv

\* A helper session or a control socket that outlives its worker is never forgotten, for
\* any number of workers and commands: a record leads to it, a launcher is about to remove
\* it, or the launcher died or said that it could not; only a socket whose failed removal
\* Run never learned of is left without a record.
THEOREM NothingEverForgotten == Spec => []NothingForgotten
<1>1. FateInv => NothingForgotten
  BY DEF FateInv, KnownInv, Known, Gone, NothingForgotten
<1> QED BY <1>1, TypeInvInit, TypeInvNext, FateInvInit, FateInvNext, PTL DEF Spec

\* A start that is reported as failed, without a complaint about cleanup, has left no
\* process, helper or socket, however the deadline raced the worker's readiness.
THEOREM FailedStartsLeaveNothing == Spec => []FailedStartIsGone
<1>1. TypeInv /\ FateInv => FailedStartIsGone
  BY DEF FateInv, KnownInv, Clean, FailedStartIsGone, TypeInv
<1> QED BY <1>1, TypeInvInit, TypeInvNext, FateInvInit, FateInvNext, PTL DEF Spec

-----------------------------------------------------------------------------
\* Records are unambiguous

\* What the steps of a command change of the files and of the store lock.
LEMMA CommandFrame ==
  ASSUME NEW p \in Commands, CommandBegin(p) \/ CommandStep(p) \/ CommandDies(p)
  PROVE  /\ \/ UNCHANGED <<rec, window>> \/ RemoveStale(p) \/ Rename(p)
            \/ \E w \in Workers, name \in Names : Launch(p, w, name)
         /\ UNCHANGED pruner \/ pruner' = NoPrune
         /\ UNCHANGED <<link, diag>> \/ OpenRecordLease(p)
<1> DEFINE Listing == \E item \in Listed :
                        \/ StatusAnswered(p, item) \/ StatusFails(p, item)
                        \/ \E answered \in BOOLEAN : ShutdownAsked(p, item, answered)
                        \/ ShutdownFails(p, item)
           Cleaning == \/ OpenRecordLease(p) \/ LockRecordLease(p) \/ RecordLeaseHeld(p)
                       \/ CleanStale(p) \/ CleanStaleFails(p) \/ CloseRecordLease(p)
           Waiting == \/ WaitResolve(p) \/ ProbeLease(p) \/ Probed(p) \/ WaitTimesOut(p)
                      \/ InspectDone(p) \/ ReuseExisting(p) \/ RenameFails(p)
                      \/ NameRefused(p) \/ OutOfWorkers(p)
           Starting == \/ StartSucceeds(p) \/ WorkerReaped(p) \/ StartTimesOut(p)
                       \/ ForceStop(p) \/ CommandDies(p)
<1>1. CASE CommandBegin(p) \/ Listing
  BY <1>1
      DEF CommandBegin, BeginStart, BeginList, BeginKill, StatusAnswered, StatusFails,
          ShutdownAsked, ShutdownFails, files, workers
<1>2. CASE Cleaning
  BY <1>2
      DEF OpenRecordLease, LockRecordLease, RecordLeaseHeld, CleanStale,
          CleanStaleFails, CloseRecordLease, files, workers
<1>3. CASE Waiting
  BY <1>3
      DEF WaitResolve, ProbeLease, Probed, WaitTimesOut, InspectDone, ReuseExisting,
          RenameFails, NameRefused, OutOfWorkers, files, workers
<1>4. CASE Starting
  BY <1>4
      DEF StartSucceeds, WorkerReaped, StartTimesOut, ForceStop, Dies, CommandDies,
          files, workers
<1>5. CASE RemoveStale(p)
  BY <1>5 DEF RemoveStale
<1>6. CASE Rename(p)
  BY <1>6 DEF Rename
<1>7. CASE \E w \in Workers, name \in Names : Launch(p, w, name)
  BY <1>7 DEF Launch, files
<1> QED BY <1>1, <1>2, <1>3, <1>4, <1>5, <1>6, <1>7 DEF CommandStep

\* The steps that may change a record or the window of a worker.
LEMMA RecordSteps ==
  ASSUME Next
  PROVE  \/ UNCHANGED <<rec, window>>
         \/ \E w \in Workers : Publish(w) \/ PublishFails(w) \/ RemoveOwnRecord(w)
         \/ \E p \in Commands : RemoveStale(p) \/ Rename(p)
         \/ \E p \in Commands, w \in Workers, name \in Names : Launch(p, w, name)
<1>1. CASE \E w \in Workers : WorkerStep(w) \/ ServingFails(w) \/ Crash(w)
  BY <1>1
      DEF WorkerStep, OpenLease, LockLease, LeaseRefused, CreateHelper, MarkHelper,
          HelperFails, StartMirror, Listen, ReportReady, ReadyFails, StopServing,
          ServingFails, CloseControl, CloseHelper, PruneBegin, NothingToPrune,
          PruneOpen, PruneLock, PruneHeld, PruneDelete, PruneEnd, ReleaseLease, Crash,
          Dies, files, workers
<1>2. CASE \E p \in Commands : CommandBegin(p) \/ CommandStep(p) \/ CommandDies(p)
  BY <1>2, CommandFrame
<1> QED BY <1>1, <1>2 DEF Next

\* Create and RenameIfPID look at every other record under the store lock, and a worker
\* has its window before it can have a record.
LEMMA UnambiguousNext ==
  ASSUME TypeInv, ListedInv, UnambiguousRecords, Next
  PROVE  UnambiguousRecords'
<1>1. CASE UNCHANGED <<rec, window>>
  BY <1>1 DEF UnambiguousRecords
<1>2. ASSUME NEW w \in Workers, Publish(w) \/ PublishFails(w)
      PROVE  UnambiguousRecords'
  <2>1. UNCHANGED window /\ (UNCHANGED rec \/ (~Clashes(w) /\ rec' = [rec EXCEPT ![w] = wname[w]]))
    BY <1>2 DEF Publish, PublishFails
  <2> QED BY <2>1 DEF Clashes, UnambiguousRecords, TypeInv, FileType
<1>3. ASSUME NEW w \in Workers, RemoveOwnRecord(w)
      PROVE  UnambiguousRecords'
  BY <1>3 DEF RemoveOwnRecord, UnambiguousRecords, TypeInv, FileType
<1>4. ASSUME NEW p \in Commands, RemoveStale(p)
      PROVE  UnambiguousRecords'
  BY <1>4 DEF RemoveStale, workers, UnambiguousRecords, TypeInv, FileType
<1>5. ASSUME NEW p \in Commands, Rename(p)
      PROVE  UnambiguousRecords'
  BY <1>5 DEF Rename, UnambiguousRecords, TypeInv, FileType
<1>6. ASSUME NEW p \in Commands, NEW w \in Workers, NEW name \in Names, Launch(p, w, name)
      PROVE  UnambiguousRecords'
  <2>1. rec[w] = None /\ UNCHANGED rec
    BY <1>6 DEF Launch, ListedInv, Early, files
  <2> QED BY <1>6, <2>1 DEF Launch, UnambiguousRecords, TypeInv, WorkerType
<1> QED BY <1>1, <1>2, <1>3, <1>4, <1>5, <1>6, RecordSteps

\* Two records never share a name or a tmux window, for any number of commands that start
\* and rename from lists that are out of date.
THEOREM RecordsAlwaysUnambiguous == Spec => []UnambiguousRecords
<1>1. Init => UnambiguousRecords
  BY DEF Init, UnambiguousRecords
<1>2. FateInv => ListedInv
  BY DEF FateInv
<1>3. TypeInv /\ ListedInv /\ UnambiguousRecords /\ [Next]_vars => UnambiguousRecords'
  BY UnambiguousNext DEF vars, files, workers, UnambiguousRecords
<1> QED BY <1>1, <1>2, <1>3, TypeInvInit, TypeInvNext, FateInvInit, FateInvNext, PTL
      DEF Spec

-----------------------------------------------------------------------------
\* Pruning

\* The steps that use the store lock for pruning.
LEMMA PruneSteps ==
  ASSUME Next
  PROVE  \/ UNCHANGED pruner \/ pruner' = NoPrune
         \/ \E w \in Workers : \/ PruneBegin(w) \/ (\E v \in Workers : PruneOpen(w, v))
                               \/ PruneLock(w) \/ PruneHeld(w) \/ PruneDelete(w)
<1>1. CASE \E w \in Workers : WorkerStep(w) \/ ServingFails(w) \/ Crash(w)
  BY <1>1
      DEF WorkerStep, OpenLease, LockLease, LeaseRefused, CreateHelper, MarkHelper,
          HelperFails, StartMirror, Listen, ReportReady, ReadyFails, StopServing,
          ServingFails, CloseControl, CloseHelper, NothingToPrune, PruneEnd,
          ReleaseLease, Crash, Dies, Publish, PublishFails, RemoveOwnRecord
<1>2. CASE \E p \in Commands : CommandBegin(p) \/ CommandStep(p) \/ CommandDies(p)
  BY <1>2, CommandFrame
<1> QED BY <1>1, <1>2 DEF Next

\* What the pruner has in hand stays without a record, because a record is written under
\* the lock that the pruner holds.
LEMMA PruneInvNext ==
  ASSUME TypeInv, ListedInv, PruneInv, [Next]_vars
  PROVE  PruneInv'
<1>1. \A v \in Workers : rec[v] = None /\ rec'[v] # None => pruner.by = None
  BY StepFacts DEF Onward, StoreFree
<1>2. ASSUME UNCHANGED pruner PROVE PruneInv'
  BY <1>1, <1>2, RegistryAssumption DEF PruneInv, NoPrune
<1>3. ASSUME pruner' = NoPrune PROVE PruneInv'
  BY <1>3, RegistryAssumption DEF PruneInv, NoPrune
<1>4. ASSUME NEW w \in Workers, PruneBegin(w) PROVE PruneInv'
  <2>1. PICK kept \in SUBSET Completed :
             pruner' = [NoPrune EXCEPT !.by = w, !.todo = Completed \ kept]
    BY <1>4 DEF PruneBegin
  <2>2. pruner'.by = w /\ pruner'.todo \subseteq Completed /\ pruner'.id = None
    BY <2>1 DEF NoPrune
  <2> QED BY <1>4, <2>2, RegistryAssumption DEF PruneBegin, files, Completed, PruneInv
<1>5. ASSUME NEW w \in Workers, NEW v \in Workers, PruneOpen(w, v) PROVE PruneInv'
  <2>1. /\ pruner'.by = w /\ pruner'.todo \subseteq pruner.todo /\ pruner'.id = v
        /\ v \in pruner.todo /\ UNCHANGED rec
    BY <1>5 DEF PruneOpen, TypeInv, PruneType, PruneState
  <2> QED BY <2>1, RegistryAssumption DEF PruneInv
<1>6. ASSUME NEW w \in Workers, PruneLock(w) \/ PruneHeld(w) \/ PruneDelete(w)
      PROVE  PruneInv'
  <2>1. /\ pruner'.by = w /\ pruner'.todo = pruner.todo /\ pruner'.id \in {pruner.id, None}
        /\ UNCHANGED rec
    BY <1>6 DEF PruneLock, PruneHeld, PruneDelete, files, TypeInv, PruneType, PruneState
  <2> QED BY <2>1, RegistryAssumption DEF PruneInv
<1>7. CASE Next
  BY <1>2, <1>3, <1>4, <1>5, <1>6, <1>7, PruneSteps
<1>8. CASE UNCHANGED vars
  BY <1>2, <1>8 DEF vars
<1> QED BY <1>7, <1>8

\* Only the pruner takes a lease file or the diagnostics away.
LEMMA FileSteps ==
  ASSUME TypeInv, NEW v \in Workers, Next,
         (link[v] # 0 /\ link'[v] = 0) \/ (diag[v] /\ ~diag'[v])
  PROVE  \E w \in Workers : PruneDelete(w) /\ pruner.id = v
<1>1. CASE \E w \in Workers : PruneDelete(w)
  BY <1>1 DEF PruneDelete, TypeInv, FileType
<1>2. ASSUME NEW u \in Workers, link' = [link EXCEPT ![u] = OpenedInode(u)], UNCHANGED diag
      PROVE  FALSE
  <2>1. OpenedInode(u) # 0
    BY OpenedInodeType DEF TypeInv
  <2> QED BY <1>2, <2>1 DEF TypeInv, FileType
<1>3. CASE \E w \in Workers : WorkerStep(w) \/ ServingFails(w) \/ Crash(w)
  <2>1. CASE \E w \in Workers : OpenLease(w) \/ \E u \in Workers : PruneOpen(w, u)
    BY <1>2, <2>1 DEF OpenLease, PruneOpen, OpenLeaseFile
  <2>2. CASE \E w \in Workers : StartMirror(w)
    BY <2>2 DEF StartMirror, TypeInv, FileType
  <2>3. CASE UNCHANGED <<link, diag>>
    BY <2>3
  <2> QED BY <1>1, <1>3, <2>1, <2>2, <2>3
      DEF WorkerStep, LockLease, LeaseRefused, CreateHelper, MarkHelper, HelperFails,
          Listen, ReportReady, ReadyFails, StopServing, ServingFails, CloseControl,
          CloseHelper, PruneBegin, NothingToPrune, PruneLock, PruneHeld, PruneEnd,
          ReleaseLease, Crash, Dies, Publish, PublishFails, RemoveOwnRecord, files
<1>4. CASE \E p \in Commands : CommandBegin(p) \/ CommandStep(p) \/ CommandDies(p)
  <2>1. CASE \E p \in Commands : OpenRecordLease(p)
    <3>1. PICK p \in Commands : OpenRecordLease(p)
      BY <2>1
    <3>2. cmd[p].w \in Workers
      BY <3>1, CommandStateOf DEF OpenRecordLease, Sane, Busy, Steps
    <3> QED BY <1>2, <3>1, <3>2 DEF OpenRecordLease, OpenLeaseFile
  <2>2. CASE UNCHANGED <<link, diag>>
    BY <2>2
  <2> QED BY <1>4, <2>1, <2>2, CommandFrame
<1> QED BY <1>3, <1>4 DEF Next

\* Pruning never takes the lease file or the diagnostics of an instance that has a record,
\* for any number of workers and any retention.
THEOREM PruneAlwaysKeepsRecorded == Spec => PruneKeepsRecorded
<1>1. Init => PruneInv
  BY RegistryAssumption DEF Init, PruneInv, NoPrune
<1>2. FateInv => ListedInv
  BY DEF FateInv
<1>3. TypeInv /\ ListedInv /\ PruneInv /\ [Next]_vars => PruneInv'
  BY PruneInvNext
<1> DEFINE Keeps == \A w \in Workers :
              (link[w] # 0 /\ link'[w] = 0) \/ (diag[w] /\ ~diag'[w]) => rec[w] = None
<1>4. TypeInv /\ PruneInv /\ [Next]_vars => [Keeps]_vars
  BY FileSteps DEF PruneInv
<1>5. PruneKeepsRecorded <=> [][Keeps]_vars
  BY DEF PruneKeepsRecorded
<1> QED BY <1>1, <1>2, <1>3, <1>4, <1>5, TypeInvInit, TypeInvNext, FateInvInit,
          FateInvNext, PTL DEF Spec

-----------------------------------------------------------------------------
\* What the lease guards

\* The phases in which a worker holds its lease, has its helper and its socket.
Holding == {"leased", "made", "prune", "pruning", "release"} \cup
           {"helped", "mirrored", "listening", "published", "serving", "stopControl",
            "closeHelper"}
Helped  == {"helped", "mirrored", "listening", "published", "serving", "stopControl",
            "closeHelper"}
Heard   == {"listening", "published", "serving"}
Over    == {"remove", "gone", "dead"}

\* The steps of a command that has locked a record's lease, or only opened it.
Taking  == {"clean", "remove", "close", "closeRemoved", "abort"}
Opening == Taking \cup {"flock"}

\* A worker holds its lease while it has something to lose.  A command that visits it has
\* opened the same file, and so has not locked it.
HoldInv ==
    /\ \A w \in Workers : leased[w] <=> wpc[w] \in Holding
    /\ \A p \in Commands : ~Reaping(p) =>
         /\ cmd[p].pc \in Opening /\ leased[cmd[p].w] => cmd[p].ino = lease[cmd[p].w]
         /\ cmd[p].pc \in Taking \cup {"probe"} => ~leased[cmd[p].w]

\* What a command has listed had a record; when it reports a worker as killed, the record
\* has gone and nothing is left that it led to.
KillInv ==
    \A p \in Commands :
        /\ \A item \in cmd[p].todo : Known(item[1])
        /\ \/ cmd[p].pc = "closeRemoved"
           \/ cmd[p].kind = "kill" /\ cmd[p].pc \in {"check", "probe"}
           => rec[cmd[p].w] = None /\ Gone(cmd[p].w)

\* A command is about to clean up after a worker.
Sweeping(v) == \E p \in Commands : cmd[p].pc = "clean" /\ cmd[p].w = v

\* A worker keeps the lease it took while it started until it lets go of it; its helper
\* and its socket go only when it closes them or a command sweeps them away.
Guarded ==
    \A v \in Workers :
        /\ (leased[v] <=> wpc[v] \in Holding) => (leased'[v] <=> wpc'[v] \in Holding)
        /\ leased'[v] /\ wpc[v] \notin Startup => leased[v] /\ lease'[v] = lease[v]
        /\ wpc'[v] \in Helped =>
             \/ helper'[v] = "marked" \/ Sweeping(v)
             \/ wpc[v] \in Helped /\ helper[v] # "marked"
        /\ wpc'[v] \in Heard =>
             socket'[v] \/ Sweeping(v) \/ (wpc[v] \in Heard /\ ~socket[v])
        /\ published'[v] => published[v] \/ rec'[v] # None
        /\ wpc[v] \in Over => wpc'[v] \in Over

\* A worker's own steps do no more than that.
LEMMA WorkerGuarded ==
  ASSUME TypeInv, NEW w \in Workers, WorkerStep(w) \/ ServingFails(w) \/ Crash(w)
  PROVE  Guarded
<1>1. CASE OpenLease(w)
  BY <1>1
      DEF OpenLease, OpenLeaseFile, WorkerGoto, Guarded, TypeInv, FileType, WorkerType,
          Holding, Helped, Heard, Over, Startup, files, workers
<1>2. CASE LockLease(w)
  BY <1>2
      DEF LockLease, WorkerGoto, Guarded, TypeInv, FileType, WorkerType, Holding,
          Helped, Heard, Over, Startup, files, workers
<1>3. CASE LeaseRefused(w)
  BY <1>3
      DEF LeaseRefused, WorkerEnds, WorkerGoto, Guarded, TypeInv, FileType, WorkerType,
          Holding, Helped, Heard, Over, Startup, files, workers
<1>4. CASE CreateHelper(w)
  BY <1>4
      DEF CreateHelper, WorkerGoto, Guarded, TypeInv, FileType, WorkerType, Holding,
          Helped, Heard, Over, Startup, files, workers
<1>5. CASE MarkHelper(w)
  BY <1>5
      DEF MarkHelper, WorkerGoto, Guarded, TypeInv, FileType, WorkerType, Holding,
          Helped, Heard, Over, Startup, files, workers
<1>6. CASE \E left \in {"none", "unmarked", "marked"} : HelperFails(w, left)
  BY <1>6
      DEF HelperFails, WorkerGoto, Guarded, TypeInv, FileType, WorkerType, Holding,
          Helped, Heard, Over, Startup, files, workers
<1>7. CASE StartMirror(w)
  BY <1>7
      DEF StartMirror, WorkerGoto, Guarded, TypeInv, FileType, WorkerType, Holding,
          Helped, Heard, Over, Startup, files, workers
<1>8. CASE Listen(w)
  BY <1>8
      DEF Listen, WorkerGoto, Guarded, TypeInv, FileType, WorkerType, Holding, Helped,
          Heard, Over, Startup, files, workers
<1>9. CASE Publish(w)
  BY <1>9
      DEF Publish, WorkerGoto, Guarded, TypeInv, FileType, WorkerType, Holding, Helped,
          Heard, Over, Startup, files, workers, WorkerSane
<1>10. CASE PublishFails(w)
  BY <1>10
      DEF PublishFails, WorkerGoto, Guarded, TypeInv, FileType, WorkerType, Holding,
          Helped, Heard, Over, Startup, files, workers
<1>11. CASE ReportReady(w)
  BY <1>11
      DEF ReportReady, WorkerGoto, Guarded, TypeInv, FileType, WorkerType, Holding,
          Helped, Heard, Over, Startup, files, workers
<1>12. CASE ReadyFails(w)
  BY <1>12
      DEF ReadyFails, WorkerGoto, Guarded, TypeInv, FileType, WorkerType, Holding,
          Helped, Heard, Over, Startup, files, workers
<1>13. CASE StopServing(w)
  BY <1>13
      DEF StopServing, WorkerGoto, Guarded, TypeInv, FileType, WorkerType, Holding,
          Helped, Heard, Over, Startup, files, workers
<1>14. CASE ServingFails(w)
  BY <1>14
      DEF ServingFails, WorkerGoto, Guarded, TypeInv, FileType, WorkerType, Holding,
          Helped, Heard, Over, Startup, files, workers
<1>15. CASE CloseControl(w)
  BY <1>15
      DEF CloseControl, WorkerGoto, Guarded, TypeInv, FileType, WorkerType, Holding,
          Helped, Heard, Over, Startup, files, workers
<1>16. CASE CloseHelper(w)
  BY <1>16
      DEF CloseHelper, WorkerGoto, Guarded, TypeInv, FileType, WorkerType, Holding,
          Helped, Heard, Over, Startup, files, workers
<1>17. CASE PruneBegin(w)
  BY <1>17
      DEF PruneBegin, WorkerGoto, Guarded, TypeInv, FileType, WorkerType, Holding,
          Helped, Heard, Over, Startup, files, workers
<1>18. CASE NothingToPrune(w)
  BY <1>18
      DEF NothingToPrune, WorkerGoto, Guarded, TypeInv, FileType, WorkerType, Holding,
          Helped, Heard, Over, Startup, files, workers
<1>19. CASE \E v \in Workers : PruneOpen(w, v)
  BY <1>19
      DEF PruneOpen, Guarded, TypeInv, FileType, WorkerType, Holding, Helped, Heard,
          Over, Startup, files, workers
<1>20. CASE PruneLock(w)
  BY <1>20
      DEF PruneLock, Guarded, TypeInv, FileType, WorkerType, Holding, Helped, Heard,
          Over, Startup, files, workers
<1>21. CASE PruneHeld(w)
  BY <1>21
      DEF PruneHeld, Guarded, TypeInv, FileType, WorkerType, Holding, Helped, Heard,
          Over, Startup, files, workers
<1>22. CASE PruneDelete(w)
  BY <1>22
      DEF PruneDelete, Guarded, TypeInv, FileType, WorkerType, Holding, Helped, Heard,
          Over, Startup, files, workers
<1>23. CASE PruneEnd(w)
  BY <1>23
      DEF PruneEnd, WorkerGoto, Guarded, TypeInv, FileType, WorkerType, Holding, Helped,
          Heard, Over, Startup, files, workers, WorkerSane
<1>24. CASE ReleaseLease(w)
  BY <1>24
      DEF ReleaseLease, WorkerGoto, Guarded, TypeInv, FileType, WorkerType, Holding,
          Helped, Heard, Over, Startup, files, workers
<1>25. CASE RemoveOwnRecord(w)
  BY <1>25
      DEF RemoveOwnRecord, WorkerEnds, WorkerGoto, Guarded, TypeInv, FileType,
          WorkerType, Holding, Helped, Heard, Over, Startup, files, workers
<1>26. CASE Crash(w)
  BY <1>26
      DEF Crash, Dies, WorkerEnds, WorkerGoto, Running, Guarded, TypeInv, FileType,
          WorkerType, Holding, Helped, Heard, Over, Startup, files, workers
<1> QED BY <1>1, <1>2, <1>3, <1>4, <1>5, <1>6, <1>7, <1>8, <1>9, <1>10, <1>11, <1>12,
     <1>13, <1>14, <1>15, <1>16, <1>17, <1>18, <1>19, <1>20, <1>21, <1>22, <1>23, <1>24,
     <1>25, <1>26
    DEF WorkerStep

\* A command takes parts away only when it sweeps.
LEMMA CommandGuarded ==
  ASSUME TypeInv, NEW p \in Commands, CommandBegin(p) \/ CommandStep(p) \/ CommandDies(p)
  PROVE  Guarded
<1>0. cmd[p].pc \in Busy => cmd[p].w \in Workers
  BY CommandStateOf DEF Sane
<1>1. CASE CommandBegin(p)
  BY <1>1 DEF CommandBegin, BeginStart, BeginList, BeginKill, Guarded, files, workers
<1>2. CASE \E item \in Listed : StatusAnswered(p, item) \/ StatusFails(p, item)
                              \/ ShutdownFails(p, item)
  BY <1>2 DEF StatusAnswered, StatusFails, ShutdownFails, Guarded, files, workers
<1>3. CASE \E item \in Listed, answered \in BOOLEAN : ShutdownAsked(p, item, answered)
  BY <1>3 DEF ShutdownAsked, Guarded, files, workers
<1>4. CASE OpenRecordLease(p) \/ RecordLeaseHeld(p)
  BY <1>4 DEF OpenRecordLease, RecordLeaseHeld, Guarded, files, workers
<1>5. CASE LockRecordLease(p) \/ WaitResolve(p) \/ ProbeLease(p) \/ WaitTimesOut(p)
  BY <1>5
      DEF LockRecordLease, WaitResolve, ProbeLease, WaitTimesOut, Guarded, files,
          workers
<1>6. CASE InspectDone(p) \/ ReuseExisting(p) \/ RenameFails(p) \/ NameRefused(p)
        \/ OutOfWorkers(p) \/ WorkerReaped(p)
  BY <1>6
      DEF InspectDone, ReuseExisting, RenameFails, NameRefused, OutOfWorkers,
          WorkerReaped, Guarded, files, workers
<1>7. CASE CleanStale(p)
  BY <1>7
      DEF CleanStale, Sweeping, Guarded, TypeInv, FileType, WorkerType, Holding, Helped,
          Heard, Over, Startup, files, workers
<1>8. CASE CleanStaleFails(p)
  BY <1>8
      DEF CleanStaleFails, Sweeping, Guarded, TypeInv, FileType, WorkerType, Holding,
          Helped, Heard, Over, Startup, files, workers
<1>9. CASE RemoveStale(p) \/ CloseRecordLease(p) \/ Probed(p)
  BY <1>9 DEF RemoveStale, CloseRecordLease, Probed, Guarded, files, workers
<1>10. CASE Rename(p)
  BY <1>10 DEF Rename, Guarded, files, workers
<1>11. CASE \E w \in Workers, name \in Names : Launch(p, w, name)
  BY <1>11
      DEF Launch, WorkerGoto, Guarded, TypeInv, FileType, WorkerType, Holding, Helped,
          Heard, Over, Startup, files, workers
<1>12. CASE StartSucceeds(p) \/ StartTimesOut(p)
  BY <1>12 DEF StartSucceeds, StartTimesOut, Guarded, files, workers
<1>13. CASE ForceStop(p)
  <2>1. cmd[p].w \in Workers
    BY <1>0, <1>13 DEF ForceStop, Busy, Steps
  <2> QED BY <1>13, <2>1
      DEF ForceStop, Dies, WorkerEnds, WorkerGoto, Running, Guarded, TypeInv, FileType,
          WorkerType, Holding, Helped, Heard, Over, Startup, files, workers
<1>14. CASE CommandDies(p)
  BY <1>14 DEF CommandDies, Guarded, files, workers
<1> QED BY <1>1, <1>2, <1>3, <1>4, <1>5, <1>6, <1>7, <1>8, <1>9, <1>10, <1>11, <1>12,
     <1>13, <1>14
    DEF CommandStep

\* A command opens the lease path, locks what it opened if nobody has it locked, and says
\* that a worker is killed when it has removed the record or seen it removed.
Visit(p) ==
    /\ cmd'[p].kind # "reap" /\ cmd'[p].pc \in Opening =>
         /\ cmd[p].kind # "reap" /\ cmd'[p].w = cmd[p].w
         /\ \/ cmd[p].pc \in Opening /\ cmd'[p].ino = cmd[p].ino
            \/ cmd[p].pc = "open" /\ cmd'[p].ino = OpenedInode(cmd[p].w)
    /\ cmd'[p].kind # "reap" /\ cmd'[p].pc \in Taking =>
         cmd[p].pc \in Taking \/ (cmd[p].pc = "flock" /\ ~Locked(cmd[p].w, cmd[p].ino))
    /\ cmd'[p].pc = "probe" =>
         \/ cmd'[p] = cmd[p]
         \/ /\ cmd[p].pc = "check" /\ cmd'[p].w = cmd[p].w
            /\ link[cmd[p].w] # 0 => ~Locked(cmd[p].w, link[cmd[p].w])
    /\ cmd'[p].pc = "closeRemoved" =>
         \/ cmd'[p] = cmd[p]
         \/ cmd[p].pc = "remove" /\ cmd'[p].w = cmd[p].w /\ rec'[cmd[p].w] = None
    /\ cmd'[p].kind = "kill" /\ cmd'[p].pc \in {"check", "probe"} =>
         /\ cmd'[p].w = cmd[p].w
         /\ \/ cmd[p].kind = "kill" /\ cmd[p].pc \in {"check", "probe"}
            \/ cmd[p].pc = "wait" /\ rec[cmd[p].w] = None

\* Who is reported killed was visited by a command that saw it gone.
Killing ==
    \A v \in killed' :
        \/ v \in killed
        \/ \E p \in Commands :
              /\ cmd[p].w = v
              /\ cmd[p].pc = "closeRemoved" \/ (cmd[p].pc = "probe" /\ cmd[p].kind = "kill")

\* Who does nothing visits nobody.
LEMMA VisitIdle ==
  ASSUME NEW p \in Commands, cmd'[p] = cmd[p]
  PROVE  Visit(p)
  BY DEF Visit

\* The steps that are about a lease or a kill are few.
LEMMA VisitElse ==
  ASSUME NEW p \in Commands, cmd'[p].pc \notin Opening \cup {"check", "probe"}
  PROVE  Visit(p)
  BY DEF Visit, Opening, Taking

\* The other commands are where they were.
LEMMA OthersVisit ==
  ASSUME TypeInv, NEW p \in Commands, NEW s, Become(p, s), Visit(p)
  PROVE  \A q \in Commands : Visit(q)
<1> SUFFICES ASSUME NEW q \in Commands, q # p PROVE Visit(q)
  OBVIOUS
<1>1. cmd'[q] = cmd[q]
  BY DEF Become, TypeInv, CommandType
<1> QED BY <1>1, VisitIdle

\* A command begins with a list.
LEMMA BeginVisit ==
  ASSUME TypeInv, NEW p \in Commands, CommandBegin(p)
  PROVE  (\A q \in Commands : Visit(q)) /\ Killing
<1>1. PICK s : Become(p, s) /\ s.pc = "inspect"
  <2>1. ASSUME NEW win, NEW want, BeginStart(p, win, want)
        PROVE  \E s : Become(p, s) /\ s.pc = "inspect"
    <3> DEFINE s == [Idle EXCEPT !.pc = "inspect", !.kind = "start", !.win = win,
                                 !.want = want, !.todo = Records]
    <3>1. Become(p, s)
      BY <2>1 DEF BeginStart
    <3>2. s.pc = "inspect"
      BY DEF Idle
    <3> HIDE DEF s
    <3> QED BY <3>1, <3>2
  <2>2. ASSUME NEW kind, BeginList(p, kind)
        PROVE  \E s : Become(p, s) /\ s.pc = "inspect"
    <3> DEFINE s == [Idle EXCEPT !.pc = "inspect", !.kind = kind, !.todo = Records]
    <3>1. Become(p, s)
      BY <2>2 DEF BeginList
    <3>2. s.pc = "inspect"
      BY DEF Idle
    <3> HIDE DEF s
    <3> QED BY <3>1, <3>2
  <2>3. ASSUME NEW chosen, BeginKill(p, chosen)
        PROVE  \E s : Become(p, s) /\ s.pc = "inspect"
    <3> DEFINE s == [Idle EXCEPT !.pc = "inspect", !.kind = "kill", !.todo = chosen]
    <3>1. Become(p, s)
      BY <2>3 DEF BeginKill
    <3>2. s.pc = "inspect"
      BY DEF Idle
    <3> HIDE DEF s
    <3> QED BY <3>1, <3>2
  <2> QED BY <2>1, <2>2, <2>3 DEF CommandBegin
<1>2. UNCHANGED killed
  BY DEF CommandBegin, BeginStart, BeginList, BeginKill, hist
<1>3. Visit(p)
  <2>1. cmd'[p].pc = "inspect"
    BY <1>1 DEF Become, TypeInv, CommandType
  <2> QED BY <2>1, VisitElse DEF Opening, Taking
<1> QED BY <1>1, <1>2, <1>3, OthersVisit DEF Killing

\* A command's step is a visit.
LEMMA CommandVisit ==
  ASSUME TypeInv, NEW p \in Commands, CommandStep(p) \/ CommandDies(p)
  PROVE  (\A q \in Commands : Visit(q)) /\ Killing
<1>0. /\ cmd[p] \in CommandState /\ Sane(cmd[p])
      /\ \A s : Become(p, s) => cmd'[p] = s
  BY CommandStateOf DEF Become, TypeInv, CommandType
<1> DEFINE Goal == (\A q \in Commands : Visit(q)) /\ Killing
<1>a. ASSUME NEW s, Become(p, s), s.pc \notin Opening \cup {"check", "probe"}
      PROVE  \A q \in Commands : Visit(q)
  BY <1>0, <1>a, VisitElse, OthersVisit
<1>b. ASSUME NEW s, Become(p, s),
             s = Idle \/ \E item, live :
                           \/ s = Dealt(p, item, live)
                           \/ s = [Dealt(p, item, live) EXCEPT !.seen = cmd[p].seen]
      PROVE  \A q \in Commands : Visit(q)
  <2>1. s.pc \in {"idle", "inspect"}
    BY <1>b, DealtFields DEF Idle
  <2> QED BY <1>a, <1>b, <2>1 DEF Opening, Taking
<1>1. ASSUME NEW item \in Listed, StatusAnswered(p, item)
      PROVE  Goal
  <2>1. Become(p, Dealt(p, item, TRUE)) /\ UNCHANGED killed
    BY <1>1 DEF StatusAnswered, hist
  <2> QED BY <1>b, <2>1 DEF Killing
<1>2. ASSUME NEW item \in Listed, StatusFails(p, item)
      PROVE  Goal
  <2> DEFINE step == IF cmd[p].kind = "doctor" THEN "check" ELSE "open"
             s == [cmd[p] EXCEPT !.w = item[1], !.pc = step]
  <2>1. Become(p, s) /\ UNCHANGED killed /\ cmd[p].kind # "kill"
    BY <1>2 DEF StatusFails, hist
  <2>2. step \in {"check", "open"}
    OBVIOUS
  <2> HIDE DEF step
  <2>3. cmd'[p].kind # "kill" /\ cmd'[p].pc \in {"check", "open"}
    BY <1>0, <2>1, <2>2 DEF CommandState
  <2>4. Visit(p)
    BY <2>3 DEF Visit, Opening, Taking
  <2> QED BY <2>1, <2>4, OthersVisit DEF Killing
<1>3. ASSUME NEW item \in Listed, NEW answered \in BOOLEAN, ShutdownAsked(p, item, answered)
      PROVE  Goal
  <2> DEFINE s == [cmd[p] EXCEPT !.w = item[1],
                             !.pc = IF answered THEN "wait" ELSE "open"]
  <2>1. Become(p, s) /\ UNCHANGED killed
    BY <1>3 DEF ShutdownAsked, hist
  <2>2. s.pc \notin Opening \cup {"check", "probe"}
    BY <1>0 DEF CommandState, Opening, Taking
  <2> QED BY <1>a, <2>1, <2>2 DEF Killing
<1>4. ASSUME NEW item \in Listed, ShutdownFails(p, item)
      PROVE  Goal
  <2> DEFINE s == [cmd[p] EXCEPT !.w = item[1], !.pc = "open"]
  <2>1. Become(p, s) /\ UNCHANGED killed
    BY <1>4 DEF ShutdownFails, hist
  <2>2. s.pc \notin Opening \cup {"check", "probe"}
    BY <1>0 DEF CommandState, Opening, Taking
  <2> QED BY <1>a, <2>1, <2>2 DEF Killing
<1>5. CASE OpenRecordLease(p)
  <2> DEFINE s == [cmd[p] EXCEPT !.pc = "flock", !.ino = OpenedInode(cmd[p].w)]
  <2>1. Become(p, s) /\ UNCHANGED killed
    BY <1>5 DEF OpenRecordLease, hist
  <2>2. Visit(p)
    BY <1>0, <1>5, <2>1 DEF OpenRecordLease, Visit, Opening, Taking, CommandState
  <2> QED BY <2>1, <2>2, OthersVisit DEF Killing
<1>6. CASE LockRecordLease(p)
  <2> DEFINE s == [cmd[p] EXCEPT !.pc = "clean", !.locked = TRUE]
  <2>1. Become(p, s) /\ UNCHANGED killed
    BY <1>6 DEF LockRecordLease, hist
  <2>2. Visit(p)
    BY <1>0, <1>6, <2>1 DEF LockRecordLease, Visit, Opening, Taking, CommandState
  <2> QED BY <2>1, <2>2, OthersVisit DEF Killing
<1>7. CASE RecordLeaseHeld(p)
  <2>1. (Become(p, Idle) \/ Become(p, Dealt(p, Item(p), FALSE))) /\ UNCHANGED killed
    BY <1>7 DEF RecordLeaseHeld
  <2> QED BY <1>b, <2>1 DEF Killing
<1>8. CASE CleanStale(p)
  <2> DEFINE s == [cmd[p] EXCEPT !.pc = IF Reaping(p) THEN "close" ELSE "remove"]
  <2>1. Become(p, s) /\ UNCHANGED killed
    BY <1>8 DEF CleanStale, hist
  <2>2. Visit(p)
    BY <1>0, <1>8, <2>1 DEF CleanStale, Visit, Opening, Taking, CommandState
  <2> QED BY <2>1, <2>2, OthersVisit DEF Killing
<1>9. CASE CleanStaleFails(p)
  <2> DEFINE s == [cmd[p] EXCEPT !.pc = "abort"]
  <2>1. Become(p, s) /\ UNCHANGED killed
    BY <1>9 DEF CleanStaleFails, hist
  <2>2. Visit(p)
    BY <1>0, <1>9, <2>1 DEF CleanStaleFails, Visit, Opening, Taking, CommandState
  <2> QED BY <2>1, <2>2, OthersVisit DEF Killing
<1>10. CASE RemoveStale(p)
  <2> DEFINE step == IF rec[cmd[p].w] # None THEN "closeRemoved" ELSE "close"
             s == [cmd[p] EXCEPT !.pc = step]
  <2>1. Become(p, s) /\ UNCHANGED killed
    BY <1>10 DEF RemoveStale, hist
  <2>2. step \in {"closeRemoved", "close"}
    OBVIOUS
  <2>3. rec'[cmd[p].w] = None
    <3>1. cmd[p].w \in Workers
      BY <1>0, <1>10 DEF RemoveStale, Sane, Busy, Steps
    <3> QED BY <1>10, <3>1 DEF RemoveStale, TypeInv, FileType
  <2> HIDE DEF step
  <2>4. Visit(p)
    BY <1>0, <1>10, <2>1, <2>2, <2>3
        DEF RemoveStale, Visit, Opening, Taking, CommandState
  <2> QED BY <2>1, <2>4, OthersVisit DEF Killing
<1>11. CASE CloseRecordLease(p)
  <2>1. \/ Become(p, Idle) \/ Become(p, Dealt(p, Item(p), FALSE))
        \/ Become(p, [Dealt(p, Item(p), FALSE) EXCEPT !.seen = cmd[p].seen])
    BY <1>11 DEF CloseRecordLease
  <2>2. Killing
    BY <1>11 DEF CloseRecordLease, Killing
  <2> QED BY <1>b, <2>1, <2>2
<1>12. CASE WaitResolve(p)
  <2> DEFINE s == [cmd[p] EXCEPT !.pc = "check"]
  <2>1. Become(p, s) /\ UNCHANGED killed
    BY <1>12 DEF WaitResolve, hist
  <2>2. Visit(p)
    BY <1>0, <1>12, <2>1 DEF WaitResolve, Visit, Opening, Taking, CommandState
  <2> QED BY <2>1, <2>2, OthersVisit DEF Killing
<1>13. CASE ProbeLease(p)
  <2> DEFINE v == cmd[p].w
             s == [cmd[p] EXCEPT !.pc = "probe", !.ino = link[v], !.locked = link[v] # 0]
             r == [cmd[p] EXCEPT !.pc = "wait"]
  <2>1. UNCHANGED killed
    BY <1>13 DEF ProbeLease, hist
  <2>2. CASE Become(p, s) /\ ~(link[v] # 0 /\ Locked(v, link[v]))
    <3>1. Visit(p)
      BY <1>0, <1>13, <2>2 DEF ProbeLease, Visit, Opening, Taking, CommandState
    <3> QED BY <2>1, <2>2, <3>1, OthersVisit DEF Killing
  <2>3. CASE Become(p, r)
    <3>1. r.pc = "wait"
      BY <1>0 DEF CommandState
    <3> QED BY <1>a, <2>1, <2>3, <3>1 DEF Killing, Opening, Taking
  <2>4. CASE Become(p, Dealt(p, Item(p), FALSE))
    BY <1>b, <2>1, <2>4 DEF Killing
  <2> QED BY <1>13, <2>2, <2>3, <2>4 DEF ProbeLease
<1>14. CASE Probed(p)
  <2>1. Become(p, Dealt(p, Item(p), FALSE)) /\ Killing
    BY <1>14 DEF Probed, Killing
  <2> QED BY <1>b, <2>1
<1>15. CASE WaitTimesOut(p)
  <2>1. Become(p, Dealt(p, Item(p), FALSE)) /\ UNCHANGED killed
    BY <1>15 DEF WaitTimesOut, hist
  <2> QED BY <1>b, <2>1 DEF Killing
<1>16. CASE \/ InspectDone(p) \/ RenameFails(p) \/ NameRefused(p) \/ OutOfWorkers(p)
            \/ Rename(p) \/ StartSucceeds(p) \/ CommandDies(p)
  <2>1. Become(p, Idle) /\ UNCHANGED killed
    BY <1>16
        DEF InspectDone, RenameFails, NameRefused, OutOfWorkers, Rename, StartSucceeds,
            CommandDies, hist
  <2> QED BY <1>b, <2>1 DEF Killing
<1>17. CASE ReuseExisting(p)
  <2>1. UNCHANGED killed
    BY <1>17 DEF ReuseExisting, hist
  <2>2. PICK s : Become(p, s) /\ (s = Idle \/ \E v : s = [cmd[p] EXCEPT !.pc = "rename", !.w = v])
    BY <1>17 DEF ReuseExisting
  <2>3. CASE s = Idle
    BY <1>b, <2>1, <2>2, <2>3 DEF Killing
  <2>4. ASSUME NEW v, s = [cmd[p] EXCEPT !.pc = "rename", !.w = v]
        PROVE  s.pc = "rename"
    BY <1>0, <2>4 DEF CommandState
  <2> QED BY <1>a, <2>1, <2>2, <2>3, <2>4 DEF Killing, Opening, Taking
<1>18. ASSUME NEW w \in Workers, NEW name \in Names, Launch(p, w, name)
      PROVE  Goal
  <2> DEFINE s == [Idle EXCEPT !.pc = "launched", !.kind = "reap", !.w = w]
  <2>1. Become(p, s) /\ UNCHANGED killed
    BY <1>18 DEF Launch, hist
  <2>2. s.pc = "launched"
    BY DEF Idle
  <2> HIDE DEF s
  <2> QED BY <1>a, <2>1, <2>2 DEF Killing, Opening, Taking
<1>19. CASE WorkerReaped(p)
  <2> DEFINE s == [cmd[p] EXCEPT !.pc = "open"]
  <2>1. Become(p, s) /\ UNCHANGED killed
    BY <1>19 DEF WorkerReaped, hist
  <2>2. s.pc \notin Opening \cup {"check", "probe"}
    BY <1>0 DEF CommandState, Opening, Taking
  <2> QED BY <1>a, <2>1, <2>2 DEF Killing
<1>20. CASE StartTimesOut(p)
  <2> DEFINE s == [cmd[p] EXCEPT !.pc = "stopping"]
  <2>1. Become(p, s) /\ UNCHANGED killed
    BY <1>20 DEF StartTimesOut, hist
  <2>2. s.pc \notin Opening \cup {"check", "probe"}
    BY <1>0 DEF CommandState, Opening, Taking
  <2> QED BY <1>a, <2>1, <2>2 DEF Killing
<1>21. CASE ForceStop(p)
  <2> DEFINE s == [cmd[p] EXCEPT !.pc = "open"]
  <2>1. Become(p, s) /\ UNCHANGED killed
    BY <1>21 DEF ForceStop, hist
  <2>2. s.pc \notin Opening \cup {"check", "probe"}
    BY <1>0 DEF CommandState, Opening, Taking
  <2> QED BY <1>a, <2>1, <2>2 DEF Killing
<1> QED BY <1>1, <1>2, <1>3, <1>4, <1>5, <1>6, <1>7, <1>8, <1>9, <1>10, <1>11, <1>12,
     <1>13, <1>14, <1>15, <1>16, <1>17, <1>18, <1>19, <1>20, <1>21
    DEF CommandStep

\* What a step may do to a lease and to who is reported as killed.
LEMMA LeaseFacts ==
  ASSUME TypeInv, [Next]_vars
  PROVE  Guarded /\ (\A q \in Commands : Visit(q)) /\ Killing
<1>1. ASSUME UNCHANGED <<cmd, killed>>
      PROVE  (\A q \in Commands : Visit(q)) /\ Killing
  BY <1>1, VisitIdle DEF Killing
<1>2. ASSUME NEW w \in Workers, WorkerStep(w) \/ ServingFails(w) \/ Crash(w)
      PROVE  UNCHANGED <<cmd, killed>>
  BY <1>2
      DEF WorkerStep, OpenLease, LockLease, LeaseRefused, CreateHelper, MarkHelper,
          HelperFails, StartMirror, Listen, Publish, PublishFails, ReportReady,
          ReadyFails, StopServing, ServingFails, CloseControl, CloseHelper, PruneBegin,
          NothingToPrune, PruneOpen, PruneLock, PruneHeld, PruneDelete, PruneEnd,
          ReleaseLease, RemoveOwnRecord, Crash, files, hist
<1>3. CASE Next
  BY <1>1, <1>2, <1>3, WorkerGuarded, CommandGuarded, BeginVisit, CommandVisit DEF Next
<1>4. CASE UNCHANGED vars
  BY <1>1, <1>4 DEF vars, files, workers, hist, Guarded
<1> QED BY <1>3, <1>4

\* Whoever a command visits has published, and was listed.
LEMMA VisitedPublished ==
  ASSUME TypeInv, ListedInv, NEW p \in Commands, cmd[p].pc \in Visiting,
         cmd[p].kind # "reap"
  PROVE  /\ cmd[p].w \in Workers /\ wpc[cmd[p].w] \notin Early
         /\ \E item \in cmd[p].todo : item[1] = cmd[p].w
  BY ItemIsListed DEF ListedInv

\* A worker that has published and does not hold its lease any more is over.
LEMMA LetGo ==
  ASSUME TypeInv, HoldInv, NEW w \in Workers, wpc[w] \notin Early, ~leased[w]
  PROVE  wpc[w] \in Over
  BY DEF TypeInv, WorkerType, HoldInv, Phases, Startup, Teardown, Early, Holding, Over

\* A command cannot lock the file of a worker that holds its lease on the path.
LEMMA HoldNext ==
  ASSUME TypeInv, FateInv, HoldInv, HeldLeaseIsOnPath, Onward, Guarded,
         \A q \in Commands : Visit(q)
  PROVE  HoldInv'
<1>0. TypeInv /\ ListedInv
  BY DEF FateInv
<1>1. \A w \in Workers : leased'[w] <=> wpc'[w] \in Holding
  BY DEF HoldInv, Guarded
<1>2. ASSUME NEW w \in Workers, wpc[w] \notin Early, leased'[w]
      PROVE  /\ leased[w] /\ lease'[w] = lease[w]
             /\ lease[w] # 0 /\ link[w] = lease[w] /\ Locked(w, lease[w])
  <2>1. leased[w] /\ lease'[w] = lease[w]
    BY <1>2 DEF Guarded, Early
  <2> QED BY <2>1 DEF HeldLeaseIsOnPath, TypeInv, WorkerSane, Locked
<1>3. ASSUME NEW p \in Commands, cmd'[p].kind # "reap", cmd'[p].pc \in Opening
      PROVE  /\ leased'[cmd'[p].w] => cmd'[p].ino = lease'[cmd'[p].w]
             /\ cmd'[p].pc \in Taking => ~leased'[cmd'[p].w]
  <2>1. /\ cmd[p].kind # "reap" /\ cmd'[p].w = cmd[p].w
        /\ cmd[p].pc \in Opening \cup {"open"}
    BY <1>3 DEF Visit
  <2>2. cmd[p].w \in Workers /\ wpc[cmd[p].w] \notin Early
    BY <1>0, <2>1, VisitedPublished DEF Opening, Taking, Visiting, Busy, Steps
  <2>3. ASSUME leased'[cmd[p].w] PROVE cmd'[p].ino = lease'[cmd[p].w]
    <3>1. CASE cmd[p].pc \in Opening /\ cmd'[p].ino = cmd[p].ino
      BY <1>2, <2>1, <2>2, <2>3, <3>1 DEF HoldInv, Reaping
    <3>2. CASE cmd[p].pc = "open" /\ cmd'[p].ino = OpenedInode(cmd[p].w)
      BY <1>2, <2>2, <2>3, <3>2 DEF OpenedInode
    <3> QED BY <1>3, <3>1, <3>2 DEF Visit
  <2>4. ASSUME cmd'[p].pc \in Taking, leased'[cmd[p].w] PROVE FALSE
    <3>1. CASE cmd[p].pc \in Taking
      BY <1>2, <2>1, <2>2, <2>4, <3>1 DEF HoldInv, Reaping
    <3>2. CASE cmd[p].pc = "flock" /\ ~Locked(cmd[p].w, cmd[p].ino)
      <4>1. cmd[p].ino = lease[cmd[p].w]
        BY <1>2, <2>1, <2>2, <2>4, <3>2 DEF HoldInv, Reaping, Opening
      <4> QED BY <1>2, <2>2, <2>4, <3>2, <4>1
    <3> QED BY <1>3, <2>4, <3>1, <3>2 DEF Visit
  <2> QED BY <2>1, <2>3, <2>4
<1>4. ASSUME NEW p \in Commands, cmd'[p].kind # "reap", cmd'[p].pc = "probe"
      PROVE  ~leased'[cmd'[p].w]
  <2>1. CASE cmd'[p] = cmd[p]
    <3>1. cmd[p].w \in Workers /\ wpc[cmd[p].w] \notin Early /\ ~leased[cmd[p].w]
      BY <1>0, <1>4, <2>1, VisitedPublished DEF Visiting, Busy, Steps, HoldInv, Reaping
    <3> QED BY <1>2, <2>1, <3>1
  <2>2. CASE /\ cmd[p].pc = "check" /\ cmd'[p].w = cmd[p].w
             /\ link[cmd[p].w] # 0 => ~Locked(cmd[p].w, link[cmd[p].w])
    <3>1. cmd[p].kind # "reap"
      BY <2>2, CommandStateOf DEF Sane
    <3>2. cmd[p].w \in Workers /\ wpc[cmd[p].w] \notin Early
      BY <1>0, <2>2, <3>1, VisitedPublished DEF Visiting, Busy, Steps
    <3> QED BY <1>2, <2>2, <3>2
  <2> QED BY <1>4, <2>1, <2>2 DEF Visit
<1> QED BY <1>1, <1>3, <1>4 DEF HoldInv, Reaping, Opening, Taking

\* When a worker is reported as killed, nothing is left of it.
LEMMA KillNext ==
  ASSUME TypeInv, FateInv, HoldInv, KillInv, KilledIsStopped, TypeInv', Onward, Guarded,
         \A q \in Commands : Errand(q) /\ Visit(q), Killing
  PROVE  KillInv' /\ KilledIsStopped'
<1>0. ListedInv /\ ReapInv /\ SweptInv
  BY DEF FateInv
<1>1. ASSUME NEW w \in Workers, wpc[w] \notin Early, rec[w] = None, Gone(w)
      PROVE  rec'[w] = None /\ Gone(w)'
  BY <1>1 DEF Onward, Early, Gone
<1>2. ASSUME NEW p \in Commands, NEW item \in cmd'[p].todo
      PROVE  Known(item[1])'
  <2>1. item[1] \in Workers
    BY <1>2 DEF TypeInv, CommandType, CommandState, Listed
  <2>2. item \in cmd[p].todo \/ item \in Records
    BY <1>2 DEF Errand
  <2>3. Known(item[1]) /\ wpc[item[1]] \notin Startup
    BY <1>0, <1>2, <2>2 DEF KillInv, Records, Known, ListedInv, Early
  <2> QED BY <1>0, <2>1, <2>3, KnownStays
<1>3. ASSUME NEW p \in Commands,
             \/ cmd[p].pc = "closeRemoved"
             \/ cmd[p].kind = "kill" /\ cmd[p].pc \in {"check", "probe"}
             \/ cmd[p].pc = "wait" /\ rec[cmd[p].w] = None
      PROVE  /\ cmd[p].w \in Workers /\ wpc[cmd[p].w] \notin Early
             /\ rec[cmd[p].w] = None /\ Gone(cmd[p].w)
  <2>1. cmd[p].pc \in Visiting /\ cmd[p].kind # "reap"
    BY <1>3, CommandStateOf DEF Sane, Visiting, Busy, Steps
  <2>2. /\ cmd[p].w \in Workers /\ wpc[cmd[p].w] \notin Early
        /\ \E item \in cmd[p].todo : item[1] = cmd[p].w
    BY <1>0, <2>1, VisitedPublished
  <2>3. Known(cmd[p].w)
    BY <2>2 DEF KillInv
  <2> QED BY <1>3, <2>2, <2>3 DEF KillInv, Known
<1>4. ASSUME NEW p \in Commands,
             \/ cmd'[p].pc = "closeRemoved"
             \/ cmd'[p].kind = "kill" /\ cmd'[p].pc \in {"check", "probe"}
      PROVE  rec'[cmd'[p].w] = None /\ Gone(cmd[p].w)'
  <2>1. ASSUME cmd'[p].w = cmd[p].w, cmd[p].w \in Workers, wpc[cmd[p].w] \notin Early,
               rec[cmd[p].w] = None, Gone(cmd[p].w)
        PROVE  rec'[cmd'[p].w] = None /\ Gone(cmd[p].w)'
    BY <1>1, <2>1 DEF Gone
  <2>2. CASE cmd'[p].pc = "closeRemoved" /\ cmd[p].pc = "remove"
    <3>1. cmd'[p].w = cmd[p].w /\ rec'[cmd[p].w] = None
      BY <2>2 DEF Visit
    <3>2. cmd[p].w \in Workers /\ wpc[cmd[p].w] \notin Startup /\ Gone(cmd[p].w)
      BY <1>0, <2>2, VisitedNotStarting DEF SweptInv, Early, Clean, Gone
    <3> QED BY <3>1, <3>2 DEF Onward, Gone
  <2>3. CASE cmd'[p].pc = "closeRemoved" /\ cmd[p].pc # "remove"
    <3>1. cmd'[p] = cmd[p]
      BY <2>3 DEF Visit
    <3> QED BY <1>3, <2>1, <2>3, <3>1
  <2>4. CASE cmd'[p].kind = "kill" /\ cmd'[p].pc \in {"check", "probe"}
    <3>1. /\ cmd'[p].w = cmd[p].w
          /\ \/ cmd[p].kind = "kill" /\ cmd[p].pc \in {"check", "probe"}
             \/ cmd[p].pc = "wait" /\ rec[cmd[p].w] = None
      BY <2>4 DEF Visit
    <3> QED BY <1>3, <2>1, <3>1
  <2> QED BY <1>4, <2>2, <2>3, <2>4
<1>5. ASSUME NEW v \in killed'
      PROVE  v \in Workers /\ wpc[v] \in Over /\ rec[v] = None /\ Gone(v)
  <2>1. CASE v \in killed
    BY <2>1 DEF KilledIsStopped, TypeInv, Over, Gone
  <2>2. ASSUME NEW p \in Commands, cmd[p].w = v,
               cmd[p].pc = "closeRemoved" \/ (cmd[p].pc = "probe" /\ cmd[p].kind = "kill")
        PROVE  v \in Workers /\ wpc[v] \in Over /\ rec[v] = None /\ Gone(v)
    <3>1. v \in Workers /\ wpc[v] \notin Early /\ rec[v] = None /\ Gone(v)
      BY <1>3, <2>2
    <3>2. cmd[p].kind # "reap"
      BY <2>2, CommandStateOf DEF Sane
    <3>3. ~leased[v]
      BY <2>2, <3>2 DEF HoldInv, Reaping, Taking
    <3> QED BY <3>1, <3>3, LetGo
  <2> QED BY <1>5, <2>1, <2>2 DEF Killing
<1>6. ASSUME NEW v \in killed'
      PROVE  wpc'[v] \in Over /\ rec'[v] = None /\ Gone(v)'
  <2>1. v \in Workers /\ wpc[v] \in Over /\ rec[v] = None /\ Gone(v)
    BY <1>5, <1>6
  <2>2. wpc[v] \notin Early
    BY <2>1 DEF Over, Early, Startup
  <2> QED BY <1>1, <2>1, <2>2 DEF Guarded
<1>7. KilledIsStopped'
  BY <1>6 DEF KilledIsStopped, Over, Gone
<1> QED BY <1>2, <1>4, <1>7 DEF KillInv

\* Nobody takes from a worker what it is using.
LEMMA GuardsNext ==
  ASSUME TypeInv, FateInv, HoldInv, LeaseGuards, Onward, Guarded
  PROVE  LeaseGuards'
<1>0. ListedInv /\ ReapInv
  BY DEF FateInv
<1> SUFFICES ASSUME NEW w \in Workers
             PROVE  /\ wpc'[w] \in Helped => helper'[w] = "marked"
                    /\ wpc'[w] \in Heard => socket'[w]
                    /\ published'[w] /\ Running(w)' /\ wpc'[w] # "remove" =>
                         rec'[w] # None
  BY DEF LeaseGuards, Helped, Heard, Answering
<1>1. ASSUME NEW p \in Commands, cmd[p].w = w, cmd[p].pc \in {"clean", "remove"}
      PROVE  wpc'[w] \in Over
  <2>1. CASE Reaping(p)
    <3>1. wpc[w] \in {"gone", "dead"}
      BY <1>0, <1>1, <2>1 DEF ReapInv, Running
    <3> QED BY <3>1 DEF Guarded, Over
  <2>2. CASE ~Reaping(p)
    <3>1. wpc[w] \notin Early
      BY <1>0, <1>1, <2>2, VisitedPublished DEF Reaping, Visiting, Busy, Steps
    <3>2. ~leased[w]
      BY <1>1, <2>2 DEF HoldInv, Taking
    <3> QED BY <3>1, <3>2, LetGo DEF Guarded
  <2> QED BY <2>1, <2>2
<1>2. Helped \cap Over = {} /\ Heard \cap Over = {}
  BY DEF Helped, Heard, Over
<1>3. ASSUME wpc'[w] \in Helped PROVE helper'[w] = "marked"
  <2>1. ~Sweeping(w)
    BY <1>1, <1>2, <1>3 DEF Sweeping
  <2> QED BY <1>3, <2>1 DEF Guarded, LeaseGuards, Helped
<1>4. ASSUME wpc'[w] \in Heard PROVE socket'[w]
  <2>1. ~Sweeping(w)
    BY <1>1, <1>2, <1>4 DEF Sweeping
  <2> QED BY <1>4, <2>1 DEF Guarded, LeaseGuards, Heard, Answering
<1>5. ASSUME published'[w], Running(w)', wpc'[w] # "remove", rec'[w] = None PROVE FALSE
  <2>1. wpc'[w] \notin Over
    BY <1>5 DEF Over, Running
  <2>2. wpc[w] \notin Over /\ published[w]
    BY <1>5, <2>1 DEF Guarded
  <2>3. wpc[w] # "unused"
    BY <1>0, <2>2 DEF ListedInv, Early
  <2>4. rec[w] # None
    BY <2>2, <2>3 DEF LeaseGuards, Running, Over
  <2>5. wpc[w] # "remove" /\ \A p \in Commands : ~(cmd[p].pc = "remove" /\ cmd[p].w = w)
    BY <1>1, <2>1, <2>2 DEF Over
  <2> QED BY <1>5, <2>4, <2>5 DEF Onward
<1> QED BY <1>3, <1>4, <1>5

\* What holds as long as a held lease is on its path.
LeaseInv == HoldInv /\ KillInv /\ LeaseGuards /\ KilledIsStopped

\* Before anything is started nothing is held.
LEMMA LeaseInvInit == Init => LeaseInv
  BY DEF Init, LeaseInv, HoldInv, KillInv, LeaseGuards, KilledIsStopped, Holding, Idle,
         Opening, Taking, Answering, Running

\* As long as the leases that are held are on the path.
LEMMA LeaseInvNext ==
  TypeInv /\ FateInv /\ LeaseInv /\ HeldLeaseIsOnPath /\ [Next]_vars => LeaseInv'
<1> SUFFICES ASSUME TypeInv, FateInv, LeaseInv, HeldLeaseIsOnPath, [Next]_vars
             PROVE  LeaseInv'
  OBVIOUS
<1>1. TypeInv' /\ Onward /\ Guarded /\ (\A q \in Commands : Errand(q) /\ Visit(q)) /\ Killing
  BY TypeInvNext, StepFacts, LeaseFacts DEF FateInv
<1> QED BY <1>1, HoldNext, KillNext, GuardsNext DEF LeaseInv

\* The lease guards what it should, and "Killed" means stopped, for any number of workers
\* and commands, as long as no lease is unlinked under the worker that holds it.
THEOREM LeaseOnPathGuards ==
  Spec /\ []HeldLeaseIsOnPath => []LeaseGuards /\ []KilledIsStopped
<1>1. LeaseInv => LeaseGuards /\ KilledIsStopped
  BY DEF LeaseInv
<1> QED BY <1>1, TypeInvInit, TypeInvNext, FateInvInit, FateInvNext, LeaseInvInit,
          LeaseInvNext, PTL DEF Spec

-----------------------------------------------------------------------------
\* Who may unlink a lease

\* No pruner holds the lock on the lease of a worker that has opened it and not locked it
\* yet: the race between the two halves of AcquireLease does not happen.
NobodyPrunesInTheGap ==
    \A w \in Workers : wpc[w] = "opened" => ~(pruner.locked /\ pruner.id = w)

\* The path names the lease file that a worker has taken and the one that a pruner has in
\* hand, so that the lock on it keeps one of them from the other.
PathInv ==
    /\ \A w \in Workers : wpc[w] = "opened" \/ leased[w] => lease[w] # 0 /\ link[w] = lease[w]
    /\ pruner.id # None => pruner.ino # 0 /\ link[pruner.id] = pruner.ino
    /\ pruner.locked => pruner.id # None /\ ~leased[pruner.id]

\* A worker opens its lease file once, on the path; the file it has open it keeps.
LEMMA LeaseSteps ==
  ASSUME TypeInv, Next, NEW v \in Workers
  PROVE  lease'[v] \in {lease[v], 0} \/ OpenLease(v)
<1>1. ASSUME NEW w \in Workers, WorkerStep(w) \/ ServingFails(w) \/ Crash(w)
      PROVE  lease'[v] \in {lease[v], 0} \/ OpenLease(v)
  <2>1. CASE OpenLease(w)
    BY <2>1 DEF OpenLease, TypeInv, WorkerType
  <2>2. CASE LeaseRefused(w) \/ ReleaseLease(w) \/ RemoveOwnRecord(w) \/ Crash(w)
    BY <2>2
        DEF LeaseRefused, ReleaseLease, RemoveOwnRecord, Crash, Dies, WorkerEnds,
            TypeInv, WorkerType
  <2>3. CASE UNCHANGED lease
    BY <2>3
  <2> QED BY <1>1, <2>1, <2>2, <2>3
      DEF WorkerStep, LockLease, CreateHelper, MarkHelper, HelperFails, StartMirror,
          Listen, Publish, PublishFails, ReportReady, ReadyFails, StopServing,
          ServingFails, CloseControl, CloseHelper, PruneBegin, NothingToPrune,
          PruneOpen, PruneLock, PruneHeld, PruneDelete, PruneEnd, workers
<1>2. ASSUME NEW p \in Commands, CommandBegin(p) \/ CommandStep(p) \/ CommandDies(p)
      PROVE  lease'[v] \in {lease[v], 0}
  <2>1. CASE ForceStop(p)
    BY <2>1 DEF ForceStop, Dies, WorkerEnds, TypeInv, WorkerType
  <2>2. CASE UNCHANGED lease
    BY <2>2
  <2> QED BY <1>2, <2>1, <2>2
      DEF CommandBegin, BeginStart, BeginList, BeginKill, CommandStep, CommandDies,
          StatusAnswered, StatusFails, ShutdownAsked, ShutdownFails, OpenRecordLease,
          LockRecordLease, RecordLeaseHeld, CleanStale, CleanStaleFails, RemoveStale,
          CloseRecordLease, WaitResolve, ProbeLease, Probed, WaitTimesOut, InspectDone,
          ReuseExisting, Rename, RenameFails, NameRefused, Launch, OutOfWorkers,
          StartSucceeds, WorkerReaped, StartTimesOut, workers
<1> QED BY <1>1, <1>2 DEF Next

\* A path that names a file goes on naming it until the pruner deletes it.
LEMMA LinkSteps ==
  ASSUME TypeInv, Next, NEW v \in Workers, link[v] # 0,
         \A w \in Workers : ~PruneDelete(w)
  PROVE  link'[v] = link[v]
<1>1. ASSUME NEW u \in Workers, OpenLeaseFile(u)
      PROVE  link'[v] = link[v]
  BY <1>1 DEF OpenLeaseFile, OpenedInode, TypeInv, FileType
<1>2. ASSUME NEW w \in Workers, WorkerStep(w) \/ ServingFails(w) \/ Crash(w)
      PROVE  link'[v] = link[v]
  <2>1. CASE OpenLease(w) \/ \E u \in Workers : PruneOpen(w, u)
    BY <1>1, <2>1 DEF OpenLease, PruneOpen
  <2>2. CASE UNCHANGED link
    BY <2>2
  <2> QED BY <1>2, <2>1, <2>2
      DEF WorkerStep, LockLease, LeaseRefused, CreateHelper, MarkHelper, HelperFails,
          StartMirror, Listen, ReportReady, ReadyFails, StopServing, ServingFails,
          CloseControl, CloseHelper, PruneBegin, NothingToPrune, PruneLock, PruneHeld,
          PruneEnd, ReleaseLease, Crash, Dies, Publish, PublishFails, RemoveOwnRecord,
          files
<1>3. ASSUME NEW p \in Commands, CommandBegin(p) \/ CommandStep(p) \/ CommandDies(p)
      PROVE  link'[v] = link[v]
  <2>1. CASE OpenRecordLease(p)
    <3>1. cmd[p].w \in Workers
      BY <2>1, CommandStateOf DEF OpenRecordLease, Sane, Busy, Steps
    <3> QED BY <1>1, <2>1, <3>1 DEF OpenRecordLease
  <2> QED BY <1>3, <2>1, CommandFrame
<1> QED BY <1>2, <1>3 DEF Next

\* A worker has a lease open or locked because it opened it or locked it.
LEMMA TakeSteps ==
  ASSUME TypeInv, Next, NEW v \in Workers
  PROVE  /\ wpc'[v] = "opened" => wpc[v] = "opened" \/ OpenLease(v)
         /\ leased'[v] => leased[v] \/ LockLease(v)
<1>1. ASSUME NEW w \in Workers, WorkerStep(w) \/ ServingFails(w) \/ Crash(w)
      PROVE  /\ wpc'[v] = "opened" => wpc[v] = "opened" \/ OpenLease(v)
             /\ leased'[v] => leased[v] \/ LockLease(v)
  <2>1. CASE OpenLease(w) \/ LockLease(w)
    BY <2>1 DEF OpenLease, LockLease, WorkerGoto, TypeInv, WorkerType
  <2>2. CASE LeaseRefused(w) \/ ReleaseLease(w) \/ RemoveOwnRecord(w) \/ Crash(w)
    BY <2>2
        DEF LeaseRefused, ReleaseLease, RemoveOwnRecord, Crash, Dies, WorkerEnds,
            WorkerGoto, TypeInv, WorkerType
  <2>3. CASE \/ CreateHelper(w) \/ MarkHelper(w) \/ StartMirror(w) \/ Listen(w)
             \/ \E left \in {"none", "unmarked", "marked"} : HelperFails(w, left)
             \/ Publish(w) \/ PublishFails(w) \/ ReportReady(w) \/ ReadyFails(w)
    BY <2>3
        DEF CreateHelper, MarkHelper, StartMirror, Listen, HelperFails, Publish,
            PublishFails, ReportReady, ReadyFails, WorkerGoto, TypeInv, WorkerType
  <2>4. CASE \/ StopServing(w) \/ ServingFails(w) \/ CloseControl(w) \/ CloseHelper(w)
             \/ PruneBegin(w) \/ NothingToPrune(w) \/ PruneEnd(w)
    BY <2>4
        DEF StopServing, ServingFails, CloseControl, CloseHelper, PruneBegin,
            NothingToPrune, PruneEnd, WorkerGoto, TypeInv, WorkerType
  <2>5. CASE \/ \E u \in Workers : PruneOpen(w, u)
             \/ PruneLock(w) \/ PruneHeld(w) \/ PruneDelete(w)
    BY <2>5 DEF PruneOpen, PruneLock, PruneHeld, PruneDelete, workers
  <2> QED BY <1>1, <2>1, <2>2, <2>3, <2>4, <2>5 DEF WorkerStep
<1>2. ASSUME NEW p \in Commands, CommandBegin(p) \/ CommandStep(p) \/ CommandDies(p)
      PROVE  /\ wpc'[v] = "opened" => wpc[v] = "opened"
             /\ leased'[v] => leased[v]
  <2>1. CASE ForceStop(p)
    BY <2>1 DEF ForceStop, Dies, WorkerEnds, WorkerGoto, TypeInv, WorkerType
  <2>2. CASE \E w \in Workers, name \in Names : Launch(p, w, name)
    BY <2>2 DEF Launch, WorkerGoto, TypeInv, WorkerType
  <2>3. CASE UNCHANGED <<wpc, leased>>
    BY <2>3
  <2> QED BY <1>2, <2>1, <2>2, <2>3
      DEF CommandBegin, BeginStart, BeginList, BeginKill, CommandStep, CommandDies,
          StatusAnswered, StatusFails, ShutdownAsked, ShutdownFails, OpenRecordLease,
          LockRecordLease, RecordLeaseHeld, CleanStale, CleanStaleFails, RemoveStale,
          CloseRecordLease, WaitResolve, ProbeLease, Probed, WaitTimesOut, InspectDone,
          ReuseExisting, Rename, RenameFails, NameRefused, OutOfWorkers,
          StartSucceeds, WorkerReaped, StartTimesOut, workers
<1> QED BY <1>1, <1>2 DEF Next

\* What a worker or a pruner has taken stays on the path.
LEMMA PathInvNext ==
  ASSUME TypeInv, TypeInv', PathInv, NobodyPrunesInTheGap, Next
  PROVE  PathInv'
<1>1. ASSUME NEW v \in Workers, link[v] # 0, link'[v] # link[v]
      PROVE  /\ pruner.locked /\ pruner.id = v
             /\ pruner' = [pruner EXCEPT !.id = None, !.ino = 0, !.locked = FALSE]
  <2>1. PICK w \in Workers : PruneDelete(w)
    BY <1>1, LinkSteps
  <2> QED BY <1>1, <2>1 DEF PruneDelete, TypeInv, FileType
<1>2. ASSUME NEW v \in Workers, wpc'[v] = "opened" \/ leased'[v]
      PROVE  lease'[v] # 0 /\ link'[v] = lease'[v]
  <2>1. CASE OpenLease(v)
    <3>1. OpenedInode(v) # 0
      BY OpenedInodeType DEF TypeInv
    <3> QED BY <2>1, <3>1 DEF OpenLease, OpenLeaseFile, TypeInv, FileType, WorkerType
  <2>2. CASE ~OpenLease(v)
    <3>1. wpc[v] = "opened" \/ leased[v]
      BY <1>2, <2>2, TakeSteps DEF LockLease
    <3>2. lease[v] # 0 /\ link[v] = lease[v]
      BY <3>1 DEF PathInv
    <3>3. link'[v] = link[v]
      BY <1>1, <3>1, <3>2 DEF PathInv, NobodyPrunesInTheGap
    <3>4. lease'[v] # 0
      BY <1>2 DEF TypeInv, WorkerSane
    <3> QED BY <2>2, <3>2, <3>3, <3>4, LeaseSteps
  <2> QED BY <2>1, <2>2
<1>3. ASSUME NEW v \in Workers, pruner.id = v, leased[v] \/ wpc[v] = "opened"
      PROVE  lease[v] = pruner.ino
  BY <1>3, RegistryAssumption DEF PathInv
<1>4. ASSUME UNCHANGED pruner
      PROVE  /\ pruner'.id # None => pruner'.ino # 0 /\ link'[pruner'.id] = pruner'.ino
             /\ pruner'.locked => pruner'.id # None /\ ~leased'[pruner'.id]
  <2>1. ASSUME pruner.id # None PROVE link'[pruner.id] = link[pruner.id]
    <3>1. pruner.id \in Workers
      BY <2>1 DEF TypeInv, PruneType, PruneState
    <3>2. pruner.ino # 0 /\ link[pruner.id] # 0
      BY <2>1 DEF PathInv
    <3> QED BY <1>1, <1>4, <2>1, <3>1, <3>2 DEF TypeInv, PruneType, PruneState
  <2>2. ASSUME pruner.locked PROVE ~leased'[pruner.id]
    <3>1. pruner.id # None /\ ~leased[pruner.id] /\ pruner.id \in Workers
      BY <2>2 DEF PathInv, TypeInv, PruneType, PruneState
    <3>2. ~LockLease(pruner.id)
      BY <1>3, <2>2, <3>1 DEF LockLease, Locked
    <3> QED BY <3>1, <3>2, TakeSteps
  <2> QED BY <1>4, <2>1, <2>2 DEF PathInv
<1>5. ASSUME pruner'.id = None /\ ~pruner'.locked
      PROVE  /\ pruner'.id # None => pruner'.ino # 0 /\ link'[pruner'.id] = pruner'.ino
             /\ pruner'.locked => pruner'.id # None /\ ~leased'[pruner'.id]
  BY <1>5
<1>6. ASSUME NEW w \in Workers, NEW v \in Workers, PruneOpen(w, v)
      PROVE  /\ pruner'.ino # 0 /\ link'[pruner'.id] = pruner'.ino
             /\ ~pruner'.locked
  <2>1. OpenedInode(v) # 0
    BY OpenedInodeType DEF TypeInv
  <2>2. ~pruner.locked
    BY <1>6 DEF PathInv, PruneOpen
  <2> QED BY <1>6, <2>1, <2>2
      DEF PruneOpen, OpenLeaseFile, TypeInv, FileType, PruneType, PruneState
<1>7. ASSUME NEW w \in Workers, PruneLock(w)
      PROVE  /\ pruner'.ino # 0 /\ link'[pruner'.id] = pruner'.ino
             /\ pruner'.id # None /\ ~leased'[pruner'.id]
  <2>1. /\ pruner'.id = pruner.id /\ pruner'.ino = pruner.ino
        /\ UNCHANGED <<link, leased>> /\ pruner.id \in Workers
    BY <1>7 DEF PruneLock, files, workers, TypeInv, PruneType, PruneState
  <2>2. ~leased[pruner.id]
    BY <1>3, <1>7, <2>1 DEF PruneLock, Locked
  <2> QED BY <1>7, <2>1, <2>2 DEF PathInv, PruneLock
<1>8. ASSUME \E w \in Workers : PruneBegin(w) \/ PruneHeld(w) \/ PruneDelete(w)
      PROVE  pruner'.id = None /\ ~pruner'.locked
  BY <1>8
      DEF PruneBegin, PruneHeld, PruneDelete, NoPrune, TypeInv, PruneType, PruneState
<1>9. pruner' = NoPrune => pruner'.id = None /\ ~pruner'.locked
  BY DEF NoPrune
<1>10. /\ pruner'.id # None => pruner'.ino # 0 /\ link'[pruner'.id] = pruner'.ino
       /\ pruner'.locked => pruner'.id # None /\ ~leased'[pruner'.id]
  BY <1>4, <1>5, <1>6, <1>7, <1>8, <1>9, PruneSteps
<1> QED BY <1>2, <1>10 DEF PathInv

\* The gap between the two halves of AcquireLease is all there is to fear from pruning.
\* For any number of workers and commands and any retention, in every behaviour in which
\* no pruner locks a lease that its worker has opened and not locked yet, a held lease is
\* on its path, the cleanup of the commands respects it and "Killed" means stopped.
THEOREM OnlyTheGapMatters ==
  Spec /\ []NobodyPrunesInTheGap =>
    []HeldLeaseIsOnPath /\ []LeaseGuards /\ []KilledIsStopped
<1>1. Init => PathInv
  BY DEF Init, PathInv, NoPrune
<1>2. PathInv => HeldLeaseIsOnPath
  BY DEF PathInv, HeldLeaseIsOnPath
<1>3. TypeInv /\ TypeInv' /\ PathInv /\ NobodyPrunesInTheGap /\ [Next]_vars => PathInv'
  <2>1. UNCHANGED vars /\ PathInv => PathInv'
    BY DEF vars, files, workers, PathInv
  <2> QED BY <2>1, PathInvNext
<1> QED BY <1>1, <1>2, <1>3, LeaseOnPathGuards, TypeInvInit, TypeInvNext, PTL DEF Spec
=============================================================================
