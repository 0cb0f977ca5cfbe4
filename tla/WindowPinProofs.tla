-------------------------- MODULE WindowPinProofs --------------------------
(***************************************************************************)
(* Proofs about the window pin for any number of viewers, sizes, sessions  *)
(* and attempts, lists that stop midway and workers that die included: a   *)
(* size option of the host survives every pin that heard of it, and one    *)
(* that differs from the pin's own survives anyway; the pin counts its     *)
(* viewers, leaves nothing behind but what is named when the last one      *)
(* goes, and keeps the geometry its viewers were told.                     *)
(***************************************************************************)
EXTENDS WindowPin, FiniteSetTheorems, TLAPS

\* If the pin and the host want the same value, the mark outlived the host's command.
MarkWarned == mark # None /\ host = "manual" => unheard

\* Marks are values of newViewerWindowPinOwner.
MarkKnown == mark \in Owners \cup {None}

\* pin and busy have the fields they were declared with.
Shapes ==
    /\ DOMAIN pin = {"refs", "restore", "owner"}
    /\ DOMAIN busy = {"kind", "step", "v", "tries", "inherited", "mode", "size",
                      "owner", "conflict"}

\* A restore or a rollback only runs for a pin that was claimed, by its owner.
CallsKnown ==
    /\ Shapes
    /\ busy.inherited => busy.owner \in Owners
    /\ pin.restore => pin.owner \in Owners
    /\ busy.step = "restore" => pin.restore
    /\ busy.step = "rollback" => busy.inherited

\* The host's option as HostAuthoritative has it, and the same after the window
\* is gone.
HostKept == host # "unset" /\ ~(host = "manual" /\ unheard) => local = host

\* What is true of the window, and of the factory.
WindowInv == MarkKnown /\ HostKept /\ MarkWarned
HostInv   == WindowInv /\ CallsKnown

\* Before the first viewer there is no pin, no mark and no call.
LEMMA HostInvInit == Init => HostInv
  BY WindowPinAssumption
     DEF Init, HostInv, WindowInv, HostKept, MarkWarned, MarkKnown, CallsKnown, Shapes,
         NoPin, Idle

\* A step that leaves option, mark and host alone keeps what is known of the window.
LEMMA WindowInvStutters ==
  WindowInv /\ UNCHANGED <<local, mark, host, unheard>> => WindowInv'
  BY DEF WindowInv, HostKept, MarkWarned, MarkKnown

\* A step that leaves the pin and the call alone keeps what is known of the call.
LEMMA CallsKnownStutters == CallsKnown /\ UNCHANGED <<pin, busy>> => CallsKnown'
  BY DEF CallsKnown, Shapes

\* The host touches neither the factory nor the list of missed hooks.
LEMMA HostFrame ==
  ASSUME HostStep
  PROVE  UNCHANGED <<factory, hooks, missed, leaked>>
  BY DEF HostStep, HostMakes, HostSetsOption, HostUnsetsOption, HostResizesWindow,
         HostSizesAnother, HostTerminal, HostSetsGlobal, WindowGone, hist

\* A command of the host's never sets a mark.
LEMMA HeardMark == ASSUME NEW kind, NEW s PROVE Heard(kind, s) \in {mark, None}
  BY DEF Heard

\* What the host makes of the option is what the option is.
LEMMA HostMakesInv ==
  ASSUME HostInv, NEW option, NEW kind, NEW s, HostMakes(option, kind, s)
  PROVE  WindowInv'
<1>1. local' = option /\ host' = option /\ mark' \in {mark, None} /\ unheard' = (mark' # None)
  BY HeardMark DEF HostMakes
<1> QED
  BY <1>1 DEF HostInv, WindowInv, HostKept, MarkWarned, MarkKnown

\* Losing the mark vouches for nothing.
LEMMA MarkLostInv ==
  ASSUME HostInv, mark' \in {mark, None}, UNCHANGED <<local, host, unheard>>
  PROVE  WindowInv'
  BY DEF HostInv, WindowInv, HostKept, MarkWarned, MarkKnown

\* None of the host's own commands leaves a mark behind that vouches for it.
LEMMA HostInvHost ==
  ASSUME HostInv, HostStep
  PROVE  HostInv'
<1>1. CallsKnown'
  BY HostFrame, CallsKnownStutters DEF HostInv, factory
<1>2. ASSUME NEW s \in Sessions,
             \/ \E m \in Modes : HostSetsOption(m, s)
             \/ HostUnsetsOption(s)
             \/ \E z \in Sizes : HostResizesWindow(z, s)
      PROVE  WindowInv'
  BY <1>2, HostMakesInv DEF HostSetsOption, HostUnsetsOption, HostResizesWindow
<1>3. ASSUME NEW s \in Sessions, NEW kind \in Kinds, HostSizesAnother(kind, s)
      PROVE  WindowInv'
  BY <1>3, HeardMark, MarkLostInv DEF HostSizesAnother
<1>4. ASSUME NEW z \in Sizes, HostTerminal(z) PROVE WindowInv'
  BY <1>4, WindowInvStutters DEF HostTerminal, HostInv, hist
<1>5. ASSUME NEW m \in Modes, NEW s \in Sessions \cup {None}, HostSetsGlobal(m, s)
      PROVE  WindowInv'
  BY <1>5, HeardMark, MarkLostInv DEF HostSetsGlobal
<1>6. CASE WindowGone
  BY <1>1, <1>6, WindowInvStutters DEF WindowGone, HostInv, hist
<1> QED
  BY <1>1, <1>2, <1>3, <1>4, <1>5, <1>6 DEF HostStep, HostInv

\* However far the list of a claim got.
Installing == \E s \in Sessions : Install(s) \/ InstallTorn(s)

\* It set the option first, and the mark is its own, or gone, or another pin's.
LEMMA InstallingWindow ==
  ASSUME Installing
  PROVE  /\ local' = "manual" /\ size' \in Sizes \cup {busy.size}
         /\ UNCHANGED <<alive, global, term>>
         /\ mark' \in {mark, busy.owner, None} /\ disowned' \in BOOLEAN
         /\ \/ mark' = busy.owner
            \/ disowned' /\ mark' \in {mark, None}
<1> PICK s \in Sessions : Install(s) \/ InstallTorn(s)
  BY DEF Installing
<1>1. CASE ClaimMarkResize(s)
  BY <1>1 DEF ClaimMarkResize, Claim, Watched
<1>2. CASE Claim /\ mark' = Heard("set", s) /\ disowned' = TRUE
  BY <1>2, HeardMark DEF Claim
<1>3. CASE Claim /\ mark' = busy.owner /\ disowned' = FALSE
  BY <1>3 DEF Claim
<1> QED
  BY <1>1, <1>2, <1>3 DEF Install, InstallTorn

\* A claim finds the option unset, so the host has none, or one the pin did not hear of
\* and has taken off already.
LEMMA InstallKeepsHost ==
  ASSUME HostInv, Installing, ClaimFree, busy.inherited, UNCHANGED <<host, unheard>>
  PROVE  WindowInv'
<1>1. host = "unset" \/ (host = "manual" /\ unheard)
  BY DEF HostInv, WindowInv, HostKept, ClaimFree
<1>2. busy.owner \in Owners
  BY DEF HostInv, CallsKnown
<1>3. mark' \in {mark, busy.owner, None}
  BY InstallingWindow
<1> QED
  BY <1>1, <1>2, <1>3 DEF HostInv, WindowInv, HostKept, MarkWarned, MarkKnown

\* The option is removed only under the mark of the one who asks, and then it is not the
\* host's.
LEMMA RemovalKeepsHost ==
  ASSUME HostInv, NEW o \in Owners, UNCHANGED <<host, unheard>>, mark' \in {mark, None},
         local' = local \/ (Owned(o) /\ local' = "unset")
  PROVE  WindowInv'
<1>1. MarkKnown' /\ MarkWarned'
  BY DEF HostInv, WindowInv, MarkKnown, MarkWarned
<1>2. HostKept'
  <2>1. CASE local' = local
    BY <2>1 DEF HostInv, WindowInv, HostKept
  <2>2. CASE Owned(o)
    <3>1. mark # None /\ Effective = "manual"
      BY <2>2, WindowPinAssumption DEF Owned
    <3>2. host = "manual" => unheard
      BY <3>1 DEF HostInv, WindowInv, MarkWarned
    <3>3. host # "unset" /\ host # "manual" => FALSE
      BY <3>1 DEF HostInv, WindowInv, HostKept, Effective
    <3> QED
      BY <3>2, <3>3 DEF HostKept
  <2> QED
    BY <2>1, <2>2
<1> QED
  BY <1>1, <1>2 DEF WindowInv

\* However far the list of a restore got.
Restoring(o) ==
    \E s \in Sessions : Restored(o, s) \/ (alive /\ RestoreTorn(o, s)) \/ UNCHANGED window

\* It removed the option only if it was its own.
LEMMA RestoringWindow ==
  ASSUME NEW o, Restoring(o)
  PROVE  /\ UNCHANGED <<alive, global, term>> /\ mark' \in {mark, None}
         /\ hooks' \subseteq hooks
         /\ \/ UNCHANGED <<local, size>>
            \/ Owned(o) /\ local' = "unset" /\ size' = Sized(global)
<1> PICK s \in Sessions : Restored(o, s) \/ (alive /\ RestoreTorn(o, s)) \/ UNCHANGED window
  BY DEF Restoring
<1>1. CASE Restored(o, s)
  BY <1>1 DEF Restored, Unwatched
<1>2. CASE RestoreTorn(o, s)
  BY <1>2 DEF RestoreTorn, Unwatched
<1>3. CASE UNCHANGED window
  BY <1>3 DEF window
<1> QED
  BY <1>1, <1>2, <1>3

\* A restore that failed got somewhere between nothing and everything.
LEMMA FaultRestores ==
  ASSUME NEW o, NEW fault \in {"before", "torn", "after"}, RestoreFault(o, fault)
  PROVE  Restoring(o)
  BY DEF RestoreFault, Restoring

\* Whatever is restored, in whole or in part, the host keeps its option.
LEMMA RestoreKeepsHost ==
  ASSUME HostInv, NEW o \in Owners, Restoring(o), UNCHANGED <<host, unheard>>
  PROVE  WindowInv'
  BY RestoringWindow, RemovalKeepsHost

\* A call that ends, and the next attempt of pinWindow, have nothing to restore.
LEMMA IdleKnown ==
  ASSUME CallsKnown, busy' = Idle,
         pin' = pin \/ pin' = NoPin
  PROVE  CallsKnown'
  BY DEF CallsKnown, Shapes, Idle, NoPin

\* A refused viewer ends its call.
LEMMA RefuseKnown == CallsKnown /\ Refuse => CallsKnown'
  BY IdleKnown DEF Refuse

\* The next attempt of a pin begins with a capture and has claimed nothing.
LEMMA RetryKnown == CallsKnown /\ Retry => CallsKnown'
<1> SUFFICES ASSUME CallsKnown, Retry PROVE CallsKnown'
  OBVIOUS
<1>1. CASE Refuse
  BY <1>1, RefuseKnown
<1>2. CASE ~Refuse
  <2>1. /\ busy' = [Idle EXCEPT !.kind = "pin", !.step = "capture", !.v = busy.v,
                                !.tries = busy.tries + 1]
        /\ pin' = pin
    BY <1>2 DEF Retry
  <2>2. /\ DOMAIN busy' = DOMAIN Idle
        /\ busy'.step = "capture" /\ busy'.inherited = FALSE
    BY <2>1 DEF Idle
  <2> QED
    BY <2>1, <2>2 DEF Idle, CallsKnown, Shapes
<1> QED
  BY <1>1, <1>2

\* A rollback is entered with the claim that it takes back.
LEMMA RollbackKnown ==
  ASSUME CallsKnown, NEW conflict \in BOOLEAN, Rollback(conflict), busy.inherited
  PROVE  CallsKnown'
  BY DEF Rollback, CallsKnown, Shapes

\* Every step of the factory preserves the invariant.
LEMMA HostInvFactory ==
  ASSUME HostInv, FactoryStep
  PROVE  HostInv'
<1> USE DEF HostInv
<1>1. CASE Capture
  <2>1. WindowInv'
    BY <1>1, WindowInvStutters DEF Capture, window, hist
  <2>2. CASE pin # NoPin
    <3>1. pin' = [pin EXCEPT !.refs = @ + 1] /\ busy' = Idle
      BY <1>1, <2>2 DEF Capture, Accept
    <3> QED
      BY <2>1, <3>1 DEF CallsKnown, Shapes, Idle
  <2>3. CASE pin = NoPin
    BY <1>1, <2>1, <2>3 DEF Capture, Unused, NoPin, CallsKnown, Shapes
  <2> QED
    BY <2>2, <2>3
<1>2. CASE CaptureFails
  BY <1>2, RefuseKnown, WindowInvStutters DEF CaptureFails, window, hist
<1>3. CASE PinMismatch
  BY <1>3, RetryKnown, WindowInvStutters DEF PinMismatch, window, hist
<1>4. CASE PinInstalled
  <2>1. WindowInv'
    <3>1. CASE busy.inherited
      BY <1>4, <3>1, InstallKeepsHost DEF PinInstalled, Installing
    <3>2. CASE ~busy.inherited
      BY <1>4, <3>2, WindowInvStutters DEF PinInstalled, window
    <3> QED
      BY <3>1, <3>2
  <2> QED
    BY <1>4, <2>1 DEF PinInstalled, Accept, Idle, CallsKnown, Shapes
<1>5. CASE PinConflict
  BY <1>5, RollbackKnown, WindowInvStutters DEF PinConflict, window, hist
<1>6. ASSUME NEW fault \in {"before", "torn", "after"}, PinFails(fault) PROVE HostInv'
  <2>1. WindowInv'
    <3>1. CASE fault = "before"
      BY <1>6, <3>1, WindowInvStutters DEF PinFails, window
    <3>2. CASE fault # "before"
      BY <1>6, <3>2, InstallKeepsHost DEF PinFails, Installing
    <3> QED
      BY <3>1, <3>2
  <2>2. CASE busy.inherited
    BY <1>6, <2>1, <2>2, RollbackKnown DEF PinFails
  <2>3. CASE ~busy.inherited
    BY <1>6, <2>1, <2>3, RefuseKnown DEF PinFails
  <2> QED
    BY <2>2, <2>3
<1>7. ASSUME NEW fault \in {"before", "torn", "after"}, RollbackFails(fault) PROVE HostInv'
  BY <1>7, FaultRestores, RestoreKeepsHost, RefuseKnown DEF RollbackFails, CallsKnown
<1>8. ASSUME NEW fault \in {"before", "torn", "after"}, RestoreFails(fault) PROVE HostInv'
  BY <1>8, FaultRestores, RestoreKeepsHost, IdleKnown DEF RestoreFails, CallsKnown
<1>9. CASE RolledBack
  <2>1. WindowInv'
    BY <1>9, RestoreKeepsHost DEF RolledBack, Restoring, CallsKnown
  <2> QED
    BY <1>9, <2>1, RetryKnown, RefuseKnown DEF RolledBack
<1>10. CASE RestoreDone
  BY <1>10, RestoreKeepsHost, IdleKnown DEF RestoreDone, Restoring, CallsKnown
<1> QED
  BY <1>1, <1>2, <1>3, <1>4, <1>5, <1>6, <1>7, <1>8, <1>9, <1>10 DEF FactoryStep

\* Every step of the factory, the host and a dying worker preserves the invariant.
LEMMA HostInvNext ==
  ASSUME HostInv, [Next]_vars
  PROVE  HostInv'
<1>1. CASE HostStep
  BY <1>1, HostInvHost
<1>2. CASE FactoryStep
  BY <1>2, HostInvFactory
<1>3. ASSUME NEW v \in Viewers, PinWindow(v) PROVE HostInv'
  BY <1>3, WindowInvStutters
      DEF PinWindow, Idle, window, hist, HostInv, CallsKnown, Shapes
<1>4. ASSUME NEW v \in Viewers, ReleaseWindow(v) PROVE HostInv'
  <2>1. WindowInv'
    BY <1>4, WindowInvStutters DEF ReleaseWindow, window, hist, HostInv
  <2>2. CASE NoReferenceLeft /\ pin.restore
    BY <1>4, <2>1, <2>2 DEF ReleaseWindow, Idle, HostInv, CallsKnown, Shapes
  <2>3. CASE ~(NoReferenceLeft /\ pin.restore)
    BY <1>4, <2>1, <2>3 DEF ReleaseWindow, Idle, NoPin, HostInv, CallsKnown, Shapes
  <2> QED
    BY <2>2, <2>3
<1>5. CASE Cleanup
  BY <1>5, WindowInvStutters
      DEF Cleanup, Idle, window, hist, HostInv, CallsKnown, Shapes
<1>6. CASE WorkerDies
  <2>1. WindowInv'
    BY <1>6, WindowInvStutters DEF WorkerDies, window, HostInv
  <2> QED
    BY <1>6, <2>1, IdleKnown DEF WorkerDies, HostInv
<1>7. CASE UNCHANGED vars
  BY <1>7, WindowInvStutters, CallsKnownStutters
      DEF vars, window, factory, hist, HostInv
<1> QED
  BY <1>1, <1>2, <1>3, <1>4, <1>5, <1>6, <1>7 DEF Next, StaysGone

(* Whatever viewers come and go, however far tmux gets with a list, and     *)
(* whenever and in whichever session the host sets, unsets or resizes, the  *)
(* restore, the rollback and the claim leave the host's option alone, but   *)
(* for a manual size whose setting no hook heard.                           *)
THEOREM HostAlwaysAuthoritative == Spec => []HostAuthoritative
<1>1. Init => HostInv
  BY HostInvInit
<1>2. HostInv /\ [Next]_vars => HostInv'
  BY HostInvNext
<1>3. HostInv => HostAuthoritative
  BY DEF HostInv, WindowInv, HostKept, HostAuthoritative
<1> QED
  BY <1>1, <1>2, <1>3, PTL DEF Spec

-----------------------------------------------------------------------------
(***************************************************************************)
(* The type invariant, with the count of the viewers.                      *)
(***************************************************************************)
\* The viewers that hold the pin.
Held == {v \in Viewers : viewer[v] = "held"}

\* A call works for a viewer that holds nothing yet.  It claims and rolls back while the
\* factory has no pin, and restores a pin without references.
CallInv ==
    /\ busy.step \in {"capture", "claim", "rollback"} =>
        busy.v \in Viewers /\ viewer[busy.v] = "new"
    /\ busy.step \in {"claim", "rollback"} => pin = NoPin /\ busy.size \in Sizes
    /\ busy.inherited => busy.owner \in Owners
    /\ busy.step = "rollback" => busy.inherited
    /\ pin.restore => pin.owner \in Owners
    /\ busy.step = "restore" => pin.restore /\ pin.refs = 0

\* Who may have marked the window: the owner of the pin, or of a claim being undone.
Claimants ==
    IF pin.restore THEN {pin.owner}
    ELSE IF busy.step = "rollback" THEN {busy.owner} ELSE {}

\* Nothing of a pin is on the window but what its claimant put there and the hooks a
\* restore missed, and the option is the host's unless the mark is there to take it off
\* again.
LeftInv ==
    alive /\ ~leaked =>
        /\ mark \in Claimants \cup {None} /\ \A h \in hooks : h[1] \in Claimants \cup missed
        /\ local \in {"unset", host} \/ disowned \/ (local = "manual" /\ mark # None)

\* The geometry is kept from the pin on, also while a restore that failed has left the
\* pin without viewers.
GeoInv ==
    alive /\ pin.restore /\ ~touched =>
        local = "manual" /\ \A v \in Held : size = geo[v]


\* The parts of the type invariant.
Calls ==
    [kind : {"none", "pin", "release", "cleanup"},
     step : {"idle", "capture", "claim", "rollback", "restore"},
     v : Viewers \cup {None}, tries : 0..Attempts, inherited : BOOLEAN,
     mode : Modes, size : Sizes \cup {None}, owner : Owners \cup {None},
     conflict : BOOLEAN]

\* What the factory knows of a pin.
Pins == [refs : Nat, restore : BOOLEAN, owner : Owners \cup {None}]

\* The window, the viewers and the history have their types.
WindowType ==
    /\ alive \in BOOLEAN
    /\ local \in {"unset"} \cup Modes /\ global \in Modes
    /\ size \in Sizes /\ term \in Sizes
    /\ mark \in Owners \cup {None} /\ hooks \subseteq Owners \X Kinds \X Sessions
ViewType ==
    /\ viewer \in [Viewers -> {"new", "held", "gone"}]
    /\ geo \in [Viewers -> Sizes \cup {None}]
HistType ==
    /\ host \in {"unset"} \cup Modes
    /\ touched \in BOOLEAN /\ unheard \in BOOLEAN /\ disowned \in BOOLEAN
    /\ missed \subseteq Owners /\ leaked \in BOOLEAN

\* What the factory keeps: well typed, counted and as the call under way needs it.
FactoryInv ==
    /\ pin \in Pins /\ pin.refs = Cardinality(Held)
    /\ ViewType
    /\ busy \in Calls
    /\ CallInv

\* The inductive invariant behind TypeOK.
PinInv == WindowType /\ HistType /\ FactoryInv

\* The invariant implies the types the run checks.
LEMMA PinInvTypes == PinInv => TypeOK
  BY DEF PinInv, WindowType, HistType, FactoryInv, ViewType, Calls, Pins, Held, TypeOK

\* No call and no pin.
LEMMA NothingTyped ==
    /\ Idle \in Calls /\ Idle.step = "idle" /\ Idle.inherited = FALSE
    /\ NoPin \in Pins /\ NoPin.refs = 0 /\ NoPin.restore = FALSE
<1>1. 0 \in 0..Attempts
  BY WindowPinAssumption
<1>2. Idle \in Calls
  BY <1>1, Zenon DEF Idle, Calls, Modes
<1>3. NoPin \in Pins
  BY DEF NoPin, Pins
<1> QED
  BY <1>2, <1>3 DEF Idle, NoPin

\* The viewers that hold the pin are finitely many.
LEMMA HeldFinite ==
    /\ IsFiniteSet(Held) /\ Cardinality(Held) \in Nat
    /\ Cardinality(Held) = 0 => Held = {}
<1>1. IsFiniteSet(Held)
  BY WindowPinAssumption, FS_Subset DEF Held
<1> QED
  BY <1>1, FS_CardinalityType, FS_EmptySet

\* One viewer more, one less.
LEMMA HeldCounts ==
    ASSUME ViewType, NEW v \in Viewers
    PROVE  /\ viewer[v] # "held" /\ viewer' = [viewer EXCEPT ![v] = "held"] =>
                Cardinality(Held') = Cardinality(Held) + 1
           /\ viewer[v] = "held" /\ viewer' = [viewer EXCEPT ![v] = "gone"] =>
                Cardinality(Held') = Cardinality(Held) - 1 /\ Cardinality(Held) > 0
           /\ viewer[v] = "new" /\ viewer' = [viewer EXCEPT ![v] = "gone"] => Held' = Held
<1>1. ASSUME viewer[v] # "held", viewer' = [viewer EXCEPT ![v] = "held"]
      PROVE  Cardinality(Held') = Cardinality(Held) + 1
  <2>1. Held' = Held \cup {v} /\ v \notin Held
    BY <1>1 DEF Held, ViewType
  <2> QED
    BY <2>1, HeldFinite, FS_AddElement
<1>2. ASSUME viewer[v] = "held", viewer' = [viewer EXCEPT ![v] = "gone"]
      PROVE  Cardinality(Held') = Cardinality(Held) - 1 /\ Cardinality(Held) > 0
  <2>1. Held' = Held \ {v} /\ v \in Held
    BY <1>2 DEF Held, ViewType
  <2>2. Cardinality(Held') = Cardinality(Held) - 1
    BY <2>1, HeldFinite, FS_RemoveElement
  <2>3. Cardinality(Held) # 0
    BY <2>1, HeldFinite
  <2> QED
    BY <2>2, <2>3, HeldFinite
<1>3. ASSUME viewer[v] = "new", viewer' = [viewer EXCEPT ![v] = "gone"]
      PROVE  Held' = Held
  BY <1>3 DEF Held, ViewType
<1> QED
  BY <1>1, <1>2, <1>3

\* Before the first viewer nothing is counted.
LEMMA PinInvInit == Init => PinInv
<1> SUFFICES ASSUME Init PROVE PinInv
  OBVIOUS
<1>1. WindowType /\ HistType
  BY DEF Init, WindowType, HistType
<1>2. ViewType /\ Held = {}
  BY DEF Init, ViewType, Held
<1>3. pin = NoPin /\ busy = Idle
  BY DEF Init
<1>4. CallInv
  BY <1>3, NothingTyped DEF CallInv
<1> QED
  BY <1>1, <1>2, <1>3, <1>4, NothingTyped, FS_EmptySet DEF PinInv, FactoryInv

\* A step that leaves the factory alone keeps what it counts.
LEMMA FactoryKept == FactoryInv /\ UNCHANGED factory => FactoryInv'
<1> SUFFICES ASSUME FactoryInv, UNCHANGED factory PROVE FactoryInv'
  OBVIOUS
<1> USE DEF factory
<1>1. CallInv'
  BY DEF FactoryInv, CallInv
<1>2. ViewType' /\ Held' = Held
  BY DEF FactoryInv, ViewType, Held
<1> QED
  BY <1>1, <1>2 DEF FactoryInv

\* A viewer that is turned away was not counted.
LEMMA RefuseCounts ==
    ASSUME FactoryInv, Refuse, busy.step \in {"capture", "claim", "rollback"}
    PROVE  FactoryInv'
<1>1. busy.v \in Viewers /\ viewer[busy.v] = "new" /\ ViewType
  BY DEF FactoryInv, CallInv
<1>2. busy' = Idle /\ viewer' = [viewer EXCEPT ![busy.v] = "gone"] /\ UNCHANGED <<pin, geo>>
  BY DEF Refuse
<1>3. Held' = Held
  BY <1>1, <1>2, HeldCounts
<1>4. ViewType'
  BY <1>1, <1>2 DEF ViewType
<1>5. CallInv'
  BY <1>2, NothingTyped DEF FactoryInv, CallInv
<1> QED
  BY <1>2, <1>3, <1>4, <1>5, NothingTyped DEF FactoryInv

\* The next attempt works for the same viewer.
LEMMA RetryCounts ==
    ASSUME FactoryInv, Retry, busy.step \in {"capture", "claim", "rollback"}
    PROVE  FactoryInv'
<1>1. CASE busy.tries + 1 < Attempts
  <2>1. /\ busy' = [Idle EXCEPT !.kind = "pin", !.step = "capture", !.v = busy.v,
                                !.tries = busy.tries + 1]
        /\ UNCHANGED <<pin, viewer, geo>>
    BY <1>1 DEF Retry
  <2>2. /\ busy.v \in Viewers /\ viewer[busy.v] = "new" /\ ViewType
        /\ busy.tries \in 0..Attempts
    BY DEF FactoryInv, CallInv, Calls
  <2>3. busy.tries + 1 \in 0..Attempts
    BY <1>1, <2>2, WindowPinAssumption
  <2>4. busy' = [kind |-> "pin", step |-> "capture", v |-> busy.v, tries |-> busy.tries + 1,
                 inherited |-> FALSE, mode |-> "latest", size |-> None, owner |-> None,
                 conflict |-> FALSE]
    BY <2>1 DEF Idle
  <2>5. busy' \in Calls
    BY <2>2, <2>3, <2>4, Zenon DEF Calls, Modes
  <2>6. CallInv'
    <3>1. busy'.step = "capture" /\ busy'.v = busy.v /\ busy'.inherited = FALSE
      BY <2>4
    <3>2. pin' = pin /\ viewer' = viewer
      BY <2>1
    <3> QED
      BY <2>2, <3>1, <3>2 DEF FactoryInv, CallInv
  <2>7. ViewType' /\ Held' = Held
    BY <2>1, <2>2 DEF ViewType, Held
  <2> QED
    BY <2>1, <2>5, <2>6, <2>7 DEF FactoryInv
<1>2. CASE ~(busy.tries + 1 < Attempts)
  BY <1>2, RefuseCounts DEF Retry
<1> QED
  BY <1>1, <1>2

\* A rollback keeps its claim.
LEMMA RollbackCounts ==
    ASSUME FactoryInv, NEW conflict \in BOOLEAN, Rollback(conflict), busy.step = "claim",
           busy.inherited
    PROVE  FactoryInv'
<1>1. /\ busy' = [busy EXCEPT !.step = "rollback", !.conflict = conflict]
      /\ UNCHANGED <<pin, viewer, geo>>
  BY DEF Rollback
<1>2. busy' \in Calls
  BY <1>1 DEF FactoryInv, Calls
<1>3. CallInv'
  BY <1>1 DEF FactoryInv, CallInv, Calls
<1>4. ViewType' /\ Held' = Held
  BY <1>1 DEF FactoryInv, ViewType, Held
<1> QED
  BY <1>1, <1>2, <1>3, <1>4 DEF FactoryInv

\* A viewer that is accepted is counted.
LEMMA AcceptCounts ==
    ASSUME FactoryInv, NEW s \in Sizes, Accept(s), busy.step \in {"capture", "claim"},
           pin' \in Pins, pin'.refs = pin.refs + 1, pin'.restore => pin'.owner \in Owners
    PROVE  FactoryInv'
<1>1. busy.v \in Viewers /\ viewer[busy.v] = "new" /\ ViewType
  BY DEF FactoryInv, CallInv
<1>2. /\ busy' = Idle /\ viewer' = [viewer EXCEPT ![busy.v] = "held"]
      /\ geo' = [geo EXCEPT ![busy.v] = s]
  BY DEF Accept
<1>3. Cardinality(Held') = Cardinality(Held) + 1
  BY <1>1, <1>2, HeldCounts
<1>4. ViewType'
  BY <1>1, <1>2 DEF ViewType
<1>5. CallInv'
  BY <1>2, NothingTyped DEF CallInv
<1>6. pin'.refs = Cardinality(Held') /\ Cardinality(Held') = Cardinality(Held)'
  BY <1>3 DEF FactoryInv
<1> QED
  BY <1>2, <1>4, <1>5, <1>6, NothingTyped DEF FactoryInv

\* An install adds hooks of its own owner and removes none.
LEMMA InstallHooks ==
    ASSUME Installing
    PROVE  hooks' \subseteq hooks \cup ({busy.owner} \X Kinds \X Sessions)
<1> PICK s \in Sessions : Install(s) \/ InstallTorn(s)
  BY DEF Installing
<1>1. \A kind \in Kinds : <<busy.owner, kind, s>> \in {busy.owner} \X Kinds \X Sessions
  OBVIOUS
<1>2. CASE Install(s)
  BY <1>1, <1>2 DEF Install
<1>3. CASE InstallTorn(s)
  <2>1. <<busy.owner, "set", s>> \in {busy.owner} \X Kinds \X Sessions
    BY <1>1 DEF Kinds
  <2> QED
    BY <1>3, <2>1 DEF InstallTorn
<1> QED
  BY <1>2, <1>3

\* Every command list leaves a well-typed window.
LEMMA InstallTyped ==
    ASSUME WindowType, busy.size \in Sizes, busy.owner \in Owners, Installing
    PROVE  WindowType'
<1>1. hooks' \subseteq Owners \X Kinds \X Sessions
  BY InstallHooks DEF WindowType
<1> QED
  BY <1>1, InstallingWindow DEF WindowType, Modes

\* So does a restore, whole or not.
LEMMA RestoreTyped ==
    ASSUME WindowType, NEW o, Restoring(o)
    PROVE  WindowType'
  BY RestoringWindow DEF Sized, WindowType

\* An owner whose hooks are missed is an owner.
LEMMA DoneTyped == ASSUME missed \subseteq Owners, NEW o \in Owners, Done(o)
                   PROVE  missed' \subseteq Owners
  BY DEF Done

\* The host's commands leave a well-typed window and the factory alone.
LEMMA PinInvHost ==
    ASSUME PinInv, HostStep
    PROVE  PinInv'
<1>1. WindowType'
  BY HeardMark DEF HostStep, HostMakes, HostSetsOption, HostUnsetsOption, HostResizesWindow,
         HostSizesAnother, HostTerminal, HostSetsGlobal, WindowGone, Sized, Modes, PinInv,
         WindowType
<1>2. HistType'
  BY DEF HostStep, HostMakes, HostSetsOption, HostUnsetsOption, HostResizesWindow,
         HostSizesAnother, HostTerminal, HostSetsGlobal, WindowGone, Modes, hist, PinInv,
         HistType
<1> QED
  BY <1>1, <1>2, HostFrame, FactoryKept DEF PinInv

\* A step that leaves the window and the history alone keeps their types.
LEMMA RestKept ==
    /\ WindowType /\ UNCHANGED window => WindowType'
    /\ HistType /\ UNCHANGED hist => HistType'
  BY DEF WindowType, HistType, window, hist

\* Every step of a call keeps the count and the types.
LEMMA PinInvFactory ==
    ASSUME PinInv, FactoryStep
    PROVE  PinInv'
<1> USE DEF PinInv
<1>0. busy \in Calls /\ pin \in Pins /\ CallInv
  BY DEF FactoryInv
<1>1. CASE Capture
  <2>1. UNCHANGED <<window, hist>> /\ busy.step = "capture" /\ size \in Sizes
    BY <1>1 DEF Capture, WindowType
  <2>2. FactoryInv'
    <3>1. CASE pin # NoPin
      <4>1. pin' = [pin EXCEPT !.refs = @ + 1] /\ Accept(size)
        BY <1>1, <3>1 DEF Capture
      <4>2. /\ pin' \in Pins /\ pin'.refs = pin.refs + 1
            /\ pin'.restore = pin.restore /\ pin'.owner = pin.owner
        BY <1>0, <4>1 DEF Pins
      <4> QED
        BY <1>0, <2>1, <4>1, <4>2, AcceptCounts DEF CallInv
    <3>2. CASE pin = NoPin
      <4>1. UNCHANGED <<pin, viewer, geo>>
        BY <1>1, <3>2 DEF Capture
      <4>2. PICK o \in IF local = "unset" THEN Unused ELSE {None} :
                busy' = [busy EXCEPT !.step = "claim", !.inherited = local = "unset",
                                     !.mode = Effective, !.size = size, !.owner = o]
        BY <1>1, <3>2 DEF Capture
      <4>3. /\ Effective \in Modes /\ o \in Owners \cup {None}
            /\ local = "unset" => o \in Owners
        BY DEF Effective, WindowType, Unused
      <4>4. /\ busy' \in Calls /\ busy'.step = "claim" /\ busy'.v = busy.v
            /\ busy'.size = size /\ busy'.owner = o /\ busy'.inherited = (local = "unset")
        BY <1>0, <2>1, <4>2, <4>3 DEF Calls
      <4>5. CallInv'
        BY <1>0, <2>1, <3>2, <4>1, <4>3, <4>4, NothingTyped DEF CallInv
      <4>6. ViewType' /\ Held' = Held
        BY <4>1 DEF FactoryInv, ViewType, Held
      <4> QED
        BY <4>1, <4>4, <4>5, <4>6 DEF FactoryInv
    <3> QED
      BY <3>1, <3>2
  <2> QED
    BY <2>1, <2>2, RestKept
<1>2. CASE CaptureFails
  BY <1>2, RefuseCounts, RestKept DEF CaptureFails
<1>3. CASE PinMismatch
  BY <1>3, RetryCounts, RestKept DEF PinMismatch
<1>4. CASE PinInstalled
  <2>1. /\ busy.step = "claim" /\ Accept(busy.size)
        /\ pin' = [refs |-> 1, restore |-> busy.inherited, owner |-> busy.owner]
        /\ touched' = FALSE /\ UNCHANGED <<host, unheard, missed, leaked>>
        /\ (busy.inherited /\ Installing) \/ UNCHANGED <<window, disowned>>
    BY <1>4 DEF PinInstalled, Installing
  <2>2. /\ busy.size \in Sizes /\ pin.refs = 0 /\ busy.inherited \in BOOLEAN
        /\ busy.owner \in Owners \cup {None}
        /\ busy.inherited => busy.owner \in Owners
    BY <1>0, <2>1, NothingTyped DEF CallInv, Calls, NoPin
  <2>3. /\ pin' \in Pins /\ pin'.refs = 1 /\ pin'.restore = busy.inherited
        /\ pin'.owner = busy.owner
    BY <2>1, <2>2 DEF Pins
  <2>4. pin'.refs = pin.refs + 1 /\ (pin'.restore => pin'.owner \in Owners)
    BY <2>2, <2>3
  <2>5. FactoryInv'
    BY <2>1, <2>2, <2>3, <2>4, AcceptCounts
  <2>6. WindowType'
    BY <2>1, <2>2, InstallTyped, RestKept
  <2>7. HistType'
    BY <2>1, InstallingWindow DEF HistType
  <2> QED
    BY <2>5, <2>6, <2>7
<1>5. CASE PinConflict
  BY <1>5, RollbackCounts, RestKept DEF PinConflict
<1>6. ASSUME NEW fault \in {"before", "torn", "after"}, PinFails(fault)
      PROVE  PinInv'
  <2>1. /\ busy.step = "claim" /\ IF busy.inherited THEN Rollback(FALSE) ELSE Refuse
        /\ (busy.inherited /\ Installing) \/ UNCHANGED <<window, disowned>>
        /\ UNCHANGED <<host, touched, unheard, missed, leaked>>
    BY <1>6 DEF PinFails, Installing
  <2>2. FactoryInv'
    BY <1>0, <2>1, RollbackCounts, RefuseCounts DEF Calls
  <2>3. busy.size \in Sizes /\ (busy.inherited => busy.owner \in Owners)
    BY <1>0, <2>1 DEF CallInv
  <2>4. WindowType'
    BY <2>1, <2>3, InstallTyped, RestKept
  <2>5. HistType'
    BY <2>1, InstallingWindow DEF HistType
  <2> QED
    BY <2>2, <2>4, <2>5
<1>7. ASSUME NEW fault \in {"before", "torn", "after"}, RollbackFails(fault)
      PROVE  PinInv'
  <2>1. HistType'
    BY <1>7 DEF RollbackFails, HistType
  <2> QED
    BY <1>7, <2>1, RefuseCounts, FaultRestores, RestoreTyped DEF RollbackFails
<1>8. ASSUME NEW fault \in {"before", "torn", "after"}, RestoreFails(fault)
      PROVE  PinInv'
  <2>1. HistType'
    BY <1>8 DEF RestoreFails, HistType
  <2>2. FactoryInv'
    <3>1. busy' = Idle /\ UNCHANGED <<pin, viewer, geo>>
      BY <1>8 DEF RestoreFails
    <3>2. CallInv'
      BY <1>0, <3>1, NothingTyped DEF CallInv
    <3>3. ViewType' /\ Held' = Held
      BY <3>1 DEF FactoryInv, ViewType, Held
    <3> QED
      BY <3>1, <3>2, <3>3, NothingTyped DEF FactoryInv
  <2> QED
    BY <1>8, <2>1, <2>2, FaultRestores, RestoreTyped DEF RestoreFails
<1>9. CASE RolledBack
  <2>1. HistType'
    BY <1>0, <1>9, DoneTyped DEF RolledBack, HistType, CallInv
  <2> QED
    BY <1>9, <2>1, RefuseCounts, RetryCounts, RestoreTyped DEF RolledBack, Restoring
<1>10. CASE RestoreDone
  <2>1. FactoryInv'
    <3>1. busy' = Idle /\ pin' = NoPin /\ UNCHANGED <<viewer, geo>> /\ pin.refs = 0
      BY <1>0, <1>10 DEF RestoreDone, CallInv
    <3>2. CallInv'
      BY <3>1, NothingTyped DEF CallInv
    <3>3. ViewType' /\ Held' = Held
      BY <3>1 DEF FactoryInv, ViewType, Held
    <3> QED
      BY <3>1, <3>2, <3>3, NothingTyped DEF FactoryInv
  <2>2. HistType'
    BY <1>0, <1>10, DoneTyped DEF RestoreDone, HistType, CallInv
  <2> QED
    BY <1>10, <2>1, <2>2, RestoreTyped DEF RestoreDone, Restoring
<1> QED
  BY <1>1, <1>2, <1>3, <1>4, <1>5, <1>6, <1>7, <1>8, <1>9, <1>10 DEF FactoryStep

\* A viewer that lets go is no longer counted; the last one of a pin that has to be
\* restored leaves the pin to the restore.
LEMMA ReleaseCounts ==
    ASSUME FactoryInv, NEW v \in Viewers, ReleaseWindow(v)
    PROVE  FactoryInv'
<1>1. /\ busy = Idle /\ viewer[v] = "held" /\ viewer' = [viewer EXCEPT ![v] = "gone"]
      /\ geo' = [geo EXCEPT ![v] = None] /\ pin \in Pins /\ ViewType
      /\ pin.restore => pin.owner \in Owners
  BY DEF ReleaseWindow, FactoryInv, CallInv
<1>2. /\ Cardinality(Held') = pin.refs - 1 /\ pin.refs > 0 /\ pin.refs \in Nat
      /\ Cardinality(Held') = Cardinality(Held)'
  BY <1>1, HeldCounts DEF FactoryInv, Pins
<1>3. ViewType'
  BY <1>1 DEF ViewType
<1>4. CASE pin.refs = 1 /\ pin.restore
  <2>1. /\ busy' = [Idle EXCEPT !.kind = "release", !.step = "restore", !.v = v]
        /\ pin' = [pin EXCEPT !.refs = @ - 1]
    BY <1>4 DEF ReleaseWindow, NoReferenceLeft
  <2>2. pin' \in Pins /\ pin'.refs = 0 /\ pin'.restore /\ pin'.owner = pin.owner
    BY <1>1, <1>4, <2>1 DEF Pins
  <2>3. /\ busy' \in Calls /\ busy'.step = "restore" /\ busy'.inherited = FALSE
    BY <2>1, NothingTyped DEF Calls
  <2>4. CallInv'
    BY <1>1, <1>4, <2>2, <2>3 DEF CallInv
  <2> QED
    BY <1>2, <1>3, <1>4, <2>2, <2>3, <2>4 DEF FactoryInv
<1>5. CASE ~(pin.refs = 1 /\ pin.restore)
  <2>1. /\ busy' = busy
        /\ pin' = IF pin.refs = 1 THEN NoPin ELSE [pin EXCEPT !.refs = @ - 1]
    BY <1>5 DEF ReleaseWindow, NoReferenceLeft
  <2>2. pin' \in Pins /\ pin'.refs = pin.refs - 1 /\ (pin'.restore => pin'.owner \in Owners)
    BY <1>1, <1>2, <2>1, NothingTyped DEF Pins
  <2>3. CallInv'
    BY <1>1, <2>1, <2>2, NothingTyped DEF CallInv
  <2> QED
    BY <1>1, <1>2, <1>3, <2>1, <2>2, <2>3, NothingTyped DEF FactoryInv
<1> QED
  BY <1>4, <1>5

\* After a worker died nobody holds a pin.
LEMMA DeathCounts ==
    ASSUME FactoryInv, WorkerDies
    PROVE  FactoryInv'
<1>1. /\ pin' = NoPin /\ busy' = Idle /\ geo' = [v \in Viewers |-> None]
      /\ viewer' = [v \in Viewers |->
                       IF viewer[v] = "held" \/ v = busy.v THEN "gone" ELSE viewer[v]]
  BY DEF WorkerDies
<1>2. ViewType' /\ Held' = {}
  BY <1>1 DEF FactoryInv, ViewType, Held
<1>3. Cardinality(Held)' = 0
  BY <1>2, FS_EmptySet
<1>4. CallInv'
  BY <1>1, NothingTyped DEF CallInv
<1> QED
  BY <1>1, <1>2, <1>3, <1>4, NothingTyped DEF FactoryInv

\* Every step keeps the count and the types.
LEMMA PinInvNext ==
    ASSUME PinInv, [Next]_vars
    PROVE  PinInv'
<1> USE DEF PinInv
<1>1. CASE HostStep
  BY <1>1, PinInvHost
<1>2. CASE FactoryStep
  BY <1>2, PinInvFactory
<1>3. ASSUME NEW v \in Viewers, PinWindow(v) PROVE PinInv'
  <2>1. /\ busy = Idle /\ viewer[v] = "new" /\ UNCHANGED <<window, pin, viewer, geo, hist>>
        /\ busy' = [Idle EXCEPT !.kind = "pin", !.step = "capture", !.v = v]
    BY <1>3 DEF PinWindow
  <2>2. /\ busy' \in Calls /\ busy'.step = "capture" /\ busy'.v = v
        /\ busy'.inherited = FALSE
    BY <2>1, NothingTyped DEF Calls
  <2>3. CallInv'
    BY <2>1, <2>2 DEF FactoryInv, CallInv
  <2>4. ViewType' /\ Held' = Held
    BY <2>1 DEF FactoryInv, ViewType, Held
  <2> QED
    BY <2>1, <2>2, <2>3, <2>4, RestKept DEF FactoryInv
<1>4. ASSUME NEW v \in Viewers, ReleaseWindow(v) PROVE PinInv'
  BY <1>4, ReleaseCounts, RestKept DEF ReleaseWindow
<1>5. CASE Cleanup
  <2>1. /\ pin.restore /\ pin.refs = 0 /\ UNCHANGED <<window, pin, viewer, geo, hist>>
        /\ busy' = [Idle EXCEPT !.kind = "cleanup", !.step = "restore"]
    BY <1>5 DEF Cleanup
  <2>2. /\ busy' \in Calls /\ busy'.step = "restore" /\ busy'.inherited = FALSE
    BY <2>1, NothingTyped DEF Calls
  <2>3. CallInv'
    BY <2>1, <2>2 DEF FactoryInv, CallInv
  <2>4. ViewType' /\ Held' = Held
    BY <2>1 DEF FactoryInv, ViewType, Held
  <2> QED
    BY <2>1, <2>2, <2>3, <2>4, RestKept DEF FactoryInv
<1>6. CASE WorkerDies
  <2>1. HistType'
    BY <1>6 DEF WorkerDies, HistType
  <2> QED
    BY <1>6, <2>1, DeathCounts, RestKept DEF WorkerDies
<1>7. CASE UNCHANGED vars
  BY <1>7, FactoryKept, RestKept DEF vars
<1> QED
  BY <1>1, <1>2, <1>3, <1>4, <1>5, <1>6, <1>7 DEF Next, StaysGone

(* The reference count of viewerWindowPin is the number of viewers that hold the     *)
(* pin, whatever is refused, retried, rolled back or killed: it never goes below zero *)
(* and no viewer is counted twice.                                                    *)
THEOREM PinCountsItsViewers == Spec => []TypeOK
<1>1. Init => PinInv
  BY PinInvInit
<1>2. PinInv /\ [Next]_vars => PinInv'
  BY PinInvNext
<1>3. PinInv => TypeOK
  BY PinInvTypes
<1> QED
  BY <1>1, <1>2, <1>3, PTL DEF Spec

-----------------------------------------------------------------------------
(***************************************************************************)
(* What is left of the pin when the last viewer has gone.                  *)
(***************************************************************************)
\* A step that leaves the window alone and forgets no claim.
LEMMA LeftFrame ==
    ASSUME LeftInv, UNCHANGED <<local, mark, hooks, host, disowned, missed>>,
           Claimants \subseteq Claimants', alive' => alive, leaked => leaked'
    PROVE  LeftInv'
<1> SUFFICES ASSUME alive', ~leaked'
             PROVE  /\ mark' \in Claimants' \cup {None}
                    /\ \A h \in hooks' : h[1] \in Claimants' \cup missed'
                    /\ \/ local' \in {"unset", host'} \/ disowned'
                       \/ (local' = "manual" /\ mark' # None)
  BY DEF LeftInv
<1>1. /\ mark \in Claimants \cup {None} /\ \A h \in hooks : h[1] \in Claimants \cup missed
      /\ local \in {"unset", host} \/ disowned \/ (local = "manual" /\ mark # None)
  BY DEF LeftInv
<1> QED
  BY <1>1

\* A restore that ran to its end leaves no mark, and the option only if the pin had lost
\* its mark.
LEMMA RestoreLeaves ==
    ASSUME LeftInv, alive, ~leaked, NEW o \in Owners, Claimants = {o},
           NEW s \in Sessions, Restored(o, s), UNCHANGED <<host, disowned>>
    PROVE  mark' = None /\ (local' \in {"unset", host'} \/ disowned')
<1>1. /\ mark \in {o, None}
      /\ local \in {"unset", host} \/ disowned \/ (local = "manual" /\ mark # None)
  BY DEF LeftInv
<1>2. mark' = None
  BY <1>1 DEF Restored
<1>3. local' \in {"unset", host'} \/ disowned'
  BY <1>1 DEF Restored, Owned, Effective
<1> QED
  BY <1>2, <1>3

\* Reported as done, it leaves no hook but those it missed.
LEMMA DoneLeaves ==
    ASSUME LeftInv, alive, ~leaked, NEW o \in Owners, Claimants = {o},
           Restoring(o), Done(o)
    PROVE  \A h \in hooks' : h[1] \in missed'
<1> SUFFICES ASSUME NEW h \in hooks' PROVE h[1] \in missed'
  OBVIOUS
<1>1. h \in hooks
  BY RestoringWindow
<1>2. h[1] \in missed \cup {o}
  BY <1>1 DEF LeftInv
<1> QED
  BY <1>2 DEF Done

\* What the host does to the window is the host's; a hook that takes the mark for something
\* else makes the pin disowned.
LEMMA LeftHost ==
    ASSUME LeftInv, HostStep
    PROVE  LeftInv'
<1>1. Claimants' = Claimants /\ UNCHANGED <<hooks, missed, leaked>>
  BY HostFrame DEF factory, Claimants
<1>2. ASSUME NEW option, NEW kind, NEW s, HostMakes(option, kind, s) PROVE LeftInv'
  BY <1>1, <1>2, HeardMark DEF HostMakes, LeftInv
<1>3. ASSUME NEW s \in Sessions, NEW kind \in Kinds, HostSizesAnother(kind, s)
      PROVE  LeftInv'
  BY <1>1, <1>3, HeardMark DEF HostSizesAnother, LeftInv
<1>4. ASSUME NEW z \in Sizes, HostTerminal(z) PROVE LeftInv'
  BY <1>1, <1>4, LeftFrame DEF HostTerminal, hist
<1>5. ASSUME NEW m \in Modes, NEW s \in Sessions \cup {None}, HostSetsGlobal(m, s)
      PROVE  LeftInv'
  <2>1. /\ UNCHANGED <<alive, local, host>> /\ mark' \in {mark, None}
        /\ disowned => disowned'
        /\ mark' # mark => disowned'
    BY <1>5, HeardMark DEF HostSetsGlobal
  <2> QED
    BY <1>1, <2>1 DEF LeftInv
<1>6. CASE WindowGone
  BY <1>6 DEF WindowGone, LeftInv
<1> QED
  BY <1>2, <1>3, <1>4, <1>5, <1>6
     DEF HostStep, HostSetsOption, HostUnsetsOption, HostResizesWindow

\* The next attempt and a refusal are no longer a rollback.
LEMMA AttemptEnds ==
    ASSUME Retry \/ Refuse
    PROVE  pin' = pin /\ busy'.step # "rollback" /\ busy'.inherited = FALSE
<1>1. CASE Refuse
  BY <1>1, NothingTyped DEF Refuse
<1>2. CASE Retry /\ ~Refuse
  <2>1. /\ busy' = [Idle EXCEPT !.kind = "pin", !.step = "capture", !.v = busy.v,
                                !.tries = busy.tries + 1]
        /\ pin' = pin
    BY <1>2 DEF Retry
  <2> QED
    BY <2>1 DEF Idle
<1> QED
  BY <1>1, <1>2

\* A claim finds a window without mark and leaves its own, or is disowned.
LEMMA InstallLeaves ==
    ASSUME LeftInv, PinInv, busy.step = "claim", busy.inherited, Installing,
           UNCHANGED <<host, missed>>, leaked => leaked', Claimants' = {busy.owner}
    PROVE  LeftInv'
<1> SUFFICES ASSUME alive', ~leaked'
             PROVE  /\ mark' \in {busy.owner, None}
                    /\ \A h \in hooks' : h[1] \in {busy.owner} \cup missed
                    /\ disowned' \/ (local' = "manual" /\ mark' # None)
  BY DEF LeftInv
<1>1. alive /\ ~leaked /\ pin = NoPin /\ busy.owner \in Owners
  BY InstallingWindow DEF PinInv, FactoryInv, CallInv
<1>2. Claimants = {}
  BY <1>1, NothingTyped DEF Claimants
<1>3. mark = None /\ \A h \in hooks : h[1] \in missed
  BY <1>1, <1>2 DEF LeftInv
<1>4. local' = "manual" /\ (mark' = busy.owner \/ (disowned' /\ mark' = None))
  BY <1>3, InstallingWindow
<1>5. \A h \in hooks' : h \in hooks \/ h[1] = busy.owner
  BY InstallHooks
<1> QED
  BY <1>1, <1>3, <1>4, <1>5, WindowPinAssumption

\* No step of a call leaves something that no claimant answers for.
LEMMA LeftFactory ==
    ASSUME LeftInv, PinInv, FactoryStep
    PROVE  LeftInv'
<1>0. CallInv /\ WindowType /\ pin \in Pins /\ busy \in Calls
  BY DEF PinInv, FactoryInv
<1>1. CASE Capture
  <2>1. CASE pin # NoPin
    <3>1. pin' = [pin EXCEPT !.refs = @ + 1] /\ busy' = Idle
      BY <1>1, <2>1 DEF Capture, Accept
    <3>2. pin'.restore = pin.restore /\ pin'.owner = pin.owner
      BY <1>0, <3>1 DEF Pins
    <3>3. Claimants' = Claimants
      BY <1>1, <3>1, <3>2, NothingTyped DEF Claimants, Capture
    <3> QED
      BY <1>1, <3>3, LeftFrame DEF Capture, window, hist
  <2>2. CASE pin = NoPin
    <3>1. Claimants = {}
      BY <1>1, <2>2, NothingTyped DEF Claimants, Capture
    <3> QED
      BY <1>1, <3>1, LeftFrame DEF Capture, window, hist
  <2> QED
    BY <2>1, <2>2
<1>2. CASE CaptureFails
  <2>1. Claimants' = Claimants
    BY <1>2, AttemptEnds DEF CaptureFails, Claimants
  <2> QED
    BY <1>2, <2>1, LeftFrame DEF CaptureFails, window, hist
<1>3. CASE PinMismatch
  <2>1. Claimants' = Claimants
    BY <1>3, AttemptEnds DEF PinMismatch, Claimants
  <2> QED
    BY <1>3, <2>1, LeftFrame DEF PinMismatch, window, hist
<1>4. CASE PinInstalled
  <2>1. /\ busy.step = "claim" /\ UNCHANGED <<host, missed, leaked>>
        /\ pin'.restore = busy.inherited /\ pin'.owner = busy.owner
    BY <1>4 DEF PinInstalled
  <2>2. CASE busy.inherited
    <3>1. Claimants' = {busy.owner}
      BY <2>1, <2>2 DEF Claimants
    <3> QED
      BY <1>4, <2>1, <2>2, <3>1, InstallLeaves DEF PinInstalled, Installing
  <2>3. CASE ~busy.inherited
    <3>1. Claimants = {}
      BY <1>0, <2>1, NothingTyped DEF Claimants, CallInv
    <3> QED
      BY <1>4, <2>1, <2>3, <3>1, LeftFrame DEF PinInstalled, window
  <2> QED
    BY <2>2, <2>3
<1>5. CASE PinConflict
  <2>1. Claimants = {}
    BY <1>0, <1>5, NothingTyped DEF Claimants, CallInv, PinConflict
  <2> QED
    BY <1>5, <2>1, LeftFrame DEF PinConflict, window, hist
<1>6. ASSUME NEW fault \in {"before", "torn", "after"}, PinFails(fault)
      PROVE  LeftInv'
  <2>1. /\ busy.step = "claim" /\ UNCHANGED <<host, missed, leaked>>
        /\ (busy.inherited /\ Installing) \/ UNCHANGED <<window, disowned>>
        /\ busy.inherited => Rollback(FALSE)
    BY <1>6 DEF PinFails, Installing
  <2>2. CASE UNCHANGED <<window, disowned>>
    <3>1. Claimants = {}
      BY <1>0, <2>1, NothingTyped DEF Claimants, CallInv
    <3> QED
      BY <2>1, <2>2, <3>1, LeftFrame DEF window
  <2>3. CASE busy.inherited /\ Installing
    <3>1. pin' = NoPin /\ busy'.step = "rollback" /\ busy'.owner = busy.owner
      BY <1>0, <2>1, <2>3 DEF Rollback, CallInv, Calls
    <3>2. Claimants' = {busy.owner}
      BY <3>1, NothingTyped DEF Claimants
    <3> QED
      BY <2>1, <2>3, <3>2, InstallLeaves
  <2> QED
    BY <2>1, <2>2, <2>3
<1>7. ASSUME NEW fault \in {"before", "torn", "after"}, RollbackFails(fault)
      PROVE  LeftInv'
  BY <1>7 DEF RollbackFails, LeftInv
<1>8. ASSUME NEW fault \in {"before", "torn", "after"}, RestoreFails(fault)
      PROVE  LeftInv'
  <2>1. /\ busy.step = "restore" /\ RestoreFault(pin.owner, fault) /\ busy' = Idle
        /\ UNCHANGED <<pin, host, disowned, missed, leaked>>
    BY <1>8 DEF RestoreFails
  <2>2. pin.restore /\ pin.owner \in Owners
    BY <1>0, <2>1 DEF CallInv
  <2>3. Claimants = {pin.owner} /\ Claimants' = {pin.owner}
    BY <2>1, <2>2 DEF Claimants
  <2>4. /\ UNCHANGED alive /\ hooks' \subseteq hooks /\ mark' \in {mark, None}
    BY <2>1, FaultRestores, RestoringWindow
  <2> SUFFICES ASSUME alive', ~leaked'
               PROVE  \/ local' \in {"unset", host'} \/ disowned'
                      \/ (local' = "manual" /\ mark' # None)
    BY <2>1, <2>3, <2>4 DEF LeftInv
  <2>5. alive /\ ~leaked
    BY <2>1, <2>4
  <2>6. CASE UNCHANGED <<local, mark>>
    BY <2>1, <2>5, <2>6 DEF LeftInv
  <2>7. CASE local' = "unset"
    BY <2>7
  <2>8. ASSUME NEW s \in Sessions, Restored(pin.owner, s)
        PROVE  local' \in {"unset", host'} \/ disowned'
    BY <2>1, <2>2, <2>3, <2>5, <2>8, RestoreLeaves
  <2>9. ASSUME NEW s \in Sessions, RestoreTorn(pin.owner, s)
        PROVE  UNCHANGED <<local, mark>> \/ local' = "unset"
    BY <2>9 DEF RestoreTorn
  <2>10. UNCHANGED window => UNCHANGED <<local, mark>>
    BY DEF window
  <2> QED
    BY <2>1, <2>6, <2>7, <2>8, <2>9, <2>10 DEF RestoreFault
<1>9. CASE RolledBack
  <2> SUFFICES ASSUME alive', ~leaked'
               PROVE  /\ mark' = None /\ \A h \in hooks' : h[1] \in missed'
                      /\ local' \in {"unset", host'} \/ disowned'
    BY DEF LeftInv
  <2>1. PICK s \in Sessions : Restored(busy.owner, s)
    BY <1>9 DEF RolledBack
  <2>2. /\ busy.step = "rollback" /\ Done(busy.owner) /\ UNCHANGED <<host, disowned>>
        /\ alive /\ ~leaked
    BY <1>9, <2>1 DEF RolledBack, Restored
  <2>3. busy.owner \in Owners /\ Claimants = {busy.owner}
    BY <1>0, <2>2, NothingTyped DEF CallInv, Claimants
  <2>4. Restoring(busy.owner)
    BY <2>1 DEF Restoring
  <2> QED
    BY <2>1, <2>2, <2>3, <2>4, RestoreLeaves, DoneLeaves
<1>10. CASE RestoreDone
  <2> SUFFICES ASSUME alive', ~leaked'
               PROVE  /\ mark' = None /\ \A h \in hooks' : h[1] \in missed'
                      /\ local' \in {"unset", host'} \/ disowned'
    BY DEF LeftInv
  <2>1. PICK s \in Sessions : Restored(pin.owner, s)
    BY <1>10 DEF RestoreDone
  <2>2. /\ busy.step = "restore" /\ Done(pin.owner) /\ UNCHANGED <<host, disowned>>
        /\ alive /\ ~leaked
    BY <1>10, <2>1 DEF RestoreDone, Restored
  <2>3. pin.owner \in Owners /\ Claimants = {pin.owner}
    BY <1>0, <2>2 DEF CallInv, Claimants
  <2>4. Restoring(pin.owner)
    BY <2>1 DEF Restoring
  <2> QED
    BY <2>1, <2>2, <2>3, <2>4, RestoreLeaves, DoneLeaves
<1> QED
  BY <1>1, <1>2, <1>3, <1>4, <1>5, <1>6, <1>7, <1>8, <1>9, <1>10 DEF FactoryStep

\* Nor does any other step.
LEMMA LeftNext ==
    ASSUME LeftInv, PinInv, [Next]_vars
    PROVE  LeftInv'
<1>1. CASE HostStep
  BY <1>1, LeftHost
<1>2. CASE FactoryStep
  BY <1>2, LeftFactory
<1>3. ASSUME NEW v \in Viewers, PinWindow(v) PROVE LeftInv'
  <2>1. Claimants' = Claimants
    BY <1>3 DEF PinWindow, Idle, Claimants
  <2> QED
    BY <1>3, <2>1, LeftFrame DEF PinWindow, window, hist
<1>4. ASSUME NEW v \in Viewers, ReleaseWindow(v) PROVE LeftInv'
  <2>1. Claimants \subseteq Claimants'
    <3>1. pin \in Pins /\ busy = Idle
      BY <1>4 DEF ReleaseWindow, PinInv, FactoryInv
    <3>2. CASE pin.restore
      <4>1. pin' = [pin EXCEPT !.refs = @ - 1]
        BY <1>4, <3>2 DEF ReleaseWindow
      <4> QED
        BY <3>1, <3>2, <4>1 DEF Claimants, Pins
    <3>3. CASE ~pin.restore
      BY <3>1, <3>3, NothingTyped DEF Claimants
    <3> QED
      BY <3>2, <3>3
  <2> QED
    BY <1>4, <2>1, LeftFrame DEF ReleaseWindow, window, hist
<1>5. CASE Cleanup
  <2>1. Claimants' = Claimants
    BY <1>5 DEF Cleanup, Claimants
  <2> QED
    BY <1>5, <2>1, LeftFrame DEF Cleanup, window, hist
<1>6. CASE WorkerDies
  BY <1>6 DEF WorkerDies, LeftInv
<1>7. CASE UNCHANGED vars
  <2>1. Claimants' = Claimants
    BY <1>7 DEF vars, factory, Claimants
  <2> QED
    BY <1>7, <2>1, LeftFrame DEF vars, window, hist
<1> QED
  BY <1>1, <1>2, <1>3, <1>4, <1>5, <1>6, <1>7 DEF Next, StaysGone

(* releaseWindow and Cleanup give the window back: after the last viewer, with no    *)
(* failed rollback and no killed worker, no mark is left on it, no hook but those a   *)
(* restore looked for in another session, and no option the host did not set unless   *)
(* the pin had lost its mark, whatever tmux commands failed or stopped in between.    *)
THEOREM WindowAlwaysGivenBack == Spec => []WindowGivenBack
<1>1. Init => PinInv /\ LeftInv
  <2>1. Init => LeftInv
    BY NothingTyped DEF Init, LeftInv
  <2> QED
    BY <2>1, PinInvInit
<1>2. PinInv /\ LeftInv /\ [Next]_vars => (PinInv /\ LeftInv)'
  BY PinInvNext, LeftNext
<1>3. PinInv /\ LeftInv => WindowGivenBack
  <2> SUFFICES ASSUME LeftInv, alive, pin = NoPin, busy = Idle, ~leaked
               PROVE  /\ mark = None /\ \A h \in hooks : h[1] \in missed
                      /\ local \in {"unset", host} \/ disowned
    BY DEF WindowGivenBack
  <2>1. Claimants = {}
    BY NothingTyped DEF Claimants
  <2> QED
    BY <2>1 DEF LeftInv
<1> QED
  BY <1>1, <1>2, <1>3, PTL DEF Spec

-----------------------------------------------------------------------------
(***************************************************************************)
(* The geometry the viewers were told.                                     *)
(***************************************************************************)
\* A step that leaves window, pin and viewers alone.
LEMMA GeoFrame ==
    ASSUME GeoInv, UNCHANGED <<local, size, touched, pin, viewer, geo>>, alive' => alive
    PROVE  GeoInv'
<1>1. Held' = Held
  BY DEF Held
<1> QED
  BY <1>1 DEF GeoInv

\* A window without a pin that has to be restored keeps nothing.
LEMMA GeoUnpinned ==
    ASSUME pin' = NoPin
    PROVE  GeoInv'
  BY NothingTyped DEF GeoInv

\* Under an untouched pin the window is manual, and follows neither the global option nor
\* the terminals.
LEMMA GeoHost ==
    ASSUME GeoInv, HostStep
    PROVE  GeoInv'
<1>1. UNCHANGED <<pin, viewer, geo>>
  BY HostFrame DEF factory
<1>2. Held' = Held
  BY <1>1 DEF Held
<1>3. CASE touched'
  BY <1>3 DEF GeoInv
<1>4. ASSUME NEW z \in Sizes, HostTerminal(z) PROVE GeoInv'
  BY <1>1, <1>2, <1>4 DEF HostTerminal, Effective, hist, GeoInv
<1>5. ASSUME NEW m \in Modes, NEW s \in Sessions \cup {None}, HostSetsGlobal(m, s) PROVE GeoInv'
  BY <1>1, <1>2, <1>5 DEF HostSetsGlobal, GeoInv
<1>6. ASSUME NEW s \in Sessions, NEW kind \in Kinds, HostSizesAnother(kind, s) PROVE GeoInv'
  BY <1>1, <1>6, GeoFrame DEF HostSizesAnother
<1>7. CASE WindowGone
  BY <1>7 DEF WindowGone, GeoInv
<1> QED
  BY <1>3, <1>4, <1>5, <1>6, <1>7
      DEF HostStep, HostMakes, HostSetsOption, HostUnsetsOption, HostResizesWindow

\* A viewer that joins is told the size the window has, and the first one the size that
\* the claim installed; a failed restore that took the pin off is remembered.
LEMMA GeoFactory ==
    ASSUME GeoInv, PinInv, FactoryStep
    PROVE  GeoInv'
<1>0. CallInv /\ ViewType /\ pin \in Pins /\ busy \in Calls /\ pin.refs = Cardinality(Held)
  BY DEF PinInv, FactoryInv
<1>1. CASE Capture
  <2>1. CASE pin # NoPin
    <3>1. /\ pin' = [pin EXCEPT !.refs = @ + 1] /\ UNCHANGED <<window, hist>>
          /\ viewer' = [viewer EXCEPT ![busy.v] = "held"]
          /\ geo' = [geo EXCEPT ![busy.v] = size] /\ busy.step = "capture"
      BY <1>1, <2>1 DEF Capture, Accept
    <3>2. pin'.restore = pin.restore
      BY <1>0, <3>1 DEF Pins
    <3>3. busy.v \in Viewers /\ viewer[busy.v] = "new"
      BY <1>0, <3>1 DEF CallInv
    <3>4. Held' = Held \cup {busy.v} /\ geo'[busy.v] = size
      BY <1>0, <3>1, <3>3 DEF Held, ViewType
    <3>5. \A v \in Held : geo'[v] = geo[v]
      BY <1>0, <3>1, <3>3 DEF Held, ViewType
    <3> QED
      BY <3>1, <3>2, <3>4, <3>5 DEF GeoInv, window, hist
  <2>2. CASE pin = NoPin
    BY <1>1, <2>2, GeoUnpinned DEF Capture
  <2> QED
    BY <2>1, <2>2
<1>2. CASE CaptureFails
  <2>1. Held' = Held /\ UNCHANGED <<pin, geo, local, size, touched, alive>>
    BY <1>0, <1>2, HeldCounts DEF CaptureFails, Refuse, CallInv, window, hist
  <2> QED
    BY <2>1 DEF GeoInv
<1>3. CASE PinMismatch
  <2>1. pin' = NoPin
    BY <1>0, <1>3, AttemptEnds DEF PinMismatch, CallInv
  <2> QED
    BY <2>1, GeoUnpinned
<1>4. CASE PinInstalled
  <2>1. /\ busy.step = "claim" /\ pin'.restore = busy.inherited
        /\ busy.inherited => local' = "manual" /\ size' = busy.size
        /\ viewer' = [viewer EXCEPT ![busy.v] = "held"]
        /\ geo' = [geo EXCEPT ![busy.v] = busy.size]
    BY <1>4 DEF PinInstalled, Accept, Install, ClaimMarkResize, Claim
  <2>2. busy.v \in Viewers /\ Held = {}
    BY <1>0, <2>1, NothingTyped, HeldFinite DEF CallInv
  <2>3. Held' = {busy.v} /\ geo'[busy.v] = busy.size
    BY <1>0, <2>1, <2>2 DEF Held, ViewType
  <2> QED
    BY <2>1, <2>3 DEF GeoInv
<1>5. CASE PinConflict
  BY <1>0, <1>5, GeoUnpinned DEF PinConflict, Rollback, CallInv
<1>6. ASSUME NEW fault \in {"before", "torn", "after"}, PinFails(fault)
      PROVE  GeoInv'
  BY <1>0, <1>6, GeoUnpinned DEF PinFails, Rollback, Refuse, CallInv
<1>7. ASSUME NEW fault \in {"before", "torn", "after"}, RollbackFails(fault)
      PROVE  GeoInv'
  BY <1>0, <1>7, GeoUnpinned DEF RollbackFails, Refuse, CallInv
<1>8. ASSUME NEW fault \in {"before", "torn", "after"}, RestoreFails(fault)
      PROVE  GeoInv'
  <2>1. /\ busy.step = "restore" /\ RestoreFault(pin.owner, fault)
        /\ touched' = (touched \/ local' # local) /\ UNCHANGED <<pin, viewer, geo>>
    BY <1>8 DEF RestoreFails
  <2>2. Held' = {}
    BY <1>0, <2>1, HeldFinite DEF CallInv, Held
  <2> QED
    BY <2>1, <2>2 DEF GeoInv, RestoreFault
<1>9. CASE RolledBack
  <2>1. pin' = NoPin
    BY <1>0, <1>9, AttemptEnds DEF RolledBack, CallInv
  <2> QED
    BY <2>1, GeoUnpinned
<1>10. CASE RestoreDone
  BY <1>10, GeoUnpinned DEF RestoreDone
<1> QED
  BY <1>1, <1>2, <1>3, <1>4, <1>5, <1>6, <1>7, <1>8, <1>9, <1>10 DEF FactoryStep

\* A viewer that leaves does not disturb the others.
LEMMA GeoNext ==
    ASSUME GeoInv, PinInv, [Next]_vars
    PROVE  GeoInv'
<1>1. CASE HostStep
  BY <1>1, GeoHost
<1>2. CASE FactoryStep
  BY <1>2, GeoFactory
<1>3. ASSUME NEW v \in Viewers, PinWindow(v) PROVE GeoInv'
  BY <1>3, GeoFrame DEF PinWindow, window, hist
<1>4. ASSUME NEW v \in Viewers, ReleaseWindow(v) PROVE GeoInv'
  <2>1. /\ viewer' = [viewer EXCEPT ![v] = "gone"] /\ geo' = [geo EXCEPT ![v] = None]
        /\ UNCHANGED <<window, hist>>
        /\ pin' \in {NoPin, [pin EXCEPT !.refs = @ - 1]}
    BY <1>4 DEF ReleaseWindow
  <2>2. pin'.restore => pin.restore
    BY <2>1, NothingTyped DEF PinInv, FactoryInv, Pins
  <2>3. \A w \in Held' : w \in Held /\ geo'[w] = geo[w]
    BY <2>1 DEF Held, PinInv, FactoryInv, ViewType
  <2> QED
    BY <2>1, <2>2, <2>3 DEF GeoInv, window, hist
<1>5. CASE Cleanup
  BY <1>5, GeoFrame DEF Cleanup, window, hist
<1>6. CASE WorkerDies
  BY <1>6, GeoUnpinned DEF WorkerDies
<1>7. CASE UNCHANGED vars
  BY <1>7, GeoFrame DEF vars, window, factory, hist
<1> QED
  BY <1>1, <1>2, <1>3, <1>4, <1>5, <1>6, <1>7 DEF Next, StaysGone

(* While the host does not interfere, the window stays manual and keeps the geometry *)
(* that pinWindow returned to every viewer that still holds the pin.                 *)
THEOREM GeometryAlwaysKept == Spec => []GeometryKept
<1>1. Init => PinInv /\ GeoInv
  <2>1. Init => GeoInv
    BY NothingTyped DEF Init, GeoInv
  <2> QED
    BY <2>1, PinInvInit
<1>2. PinInv /\ GeoInv /\ [Next]_vars => (PinInv /\ GeoInv)'
  BY PinInvNext, GeoNext
<1>3. PinInv /\ GeoInv => GeometryKept
  BY DEF GeoInv, GeometryKept, Held
<1> QED
  BY <1>1, <1>2, <1>3, PTL DEF Spec
=============================================================================
