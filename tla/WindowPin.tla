------------------------------ MODULE WindowPin ------------------------------
(***************************************************************************)
(* The temporary manual size that keeps the mirrored tmux window in place  *)
(* while browsers watch it: PTYViewerFactory.pinWindow, releaseWindow and  *)
(* Cleanup (viewer.go) with the guarded tmux command lists they run        *)
(* (tmux.go), against a host that changes the size of its window meanwhile. *)
(*                                                                         *)
(* pinMu is busy: the call in it owns the lock until it returns.  tmux runs *)
(* a command list without letting another client in, so a list is one step, *)
(* and between two lists the host may do anything.  Browsers share the one *)
(* window of the mirror, so the map f.pins has at most one entry.  A size  *)
(* stands for columns, rows and status lines together.                     *)
(*                                                                         *)
(* The window is linked into several sessions, at least the source session *)
(* and the helper of each worker.  The after-hooks of tmux are options of  *)
(* a session, whatever -w says: a command list sets and unsets them in the *)
(* one session that -t @window resolves to when it runs, and a command     *)
(* runs the hooks of the session it is aimed at, and no others.            *)
(***************************************************************************)
EXTENDS Naturals, FiniteSets

CONSTANTS
    Viewers,        \* viewers ever prepared, each used once
    Sizes,          \* window sizes
    Owners,         \* values of newViewerWindowPinOwner
    Sessions,       \* the tmux sessions the window is linked into
    None,           \* no owner, no size
    Attempts,       \* viewerWindowPinAttempts
    Faults          \* how a tmux command that returns an error may have failed

ASSUME WindowPinAssumption ==
    /\ IsFiniteSet(Viewers) /\ IsFiniteSet(Owners)
    /\ Cardinality(Owners) >= Cardinality(Viewers)
    /\ None \notin Owners \cup Sizes \cup Sessions
    /\ Attempts \in Nat \ {0}
    \* nothing ran; the list stopped midway; all of it ran, the answer was lost
    /\ Faults \subseteq {"before", "torn", "after"}

VARIABLES
    \* the window in tmux
    alive,      \* it exists, on the server generation the viewers know
    local,      \* its own window-size option, "unset" if it inherits
    global,     \* the option it inherits
    size,
    term,       \* the size the host's terminals ask for
    mark,       \* @wrap_mirror_pin_owner
    hooks,      \* the hooks that clear the mark, with the owner they were set for and
                \* the session they are in
    \* the factory
    pin, busy, viewer,
    geo,        \* the geometry a viewer was given
    \* history
    host,       \* what the host last made of the window's own option
    touched,    \* the host resized the window or set an option since the pin, or a
                \* restore that was reported as failed took the pin off
    unheard,    \* the mark outlived what the host last made of the window's own option
    disowned,   \* the pin's option stands without its mark, though the host left the
                \* window's option alone
    missed,     \* owners whose restore, reported as done, left hooks in another session
    leaked      \* a failed rollback was reported, or the worker died with a pin

window  == <<alive, local, global, size, term, mark, hooks>>
factory == <<pin, busy, viewer, geo>>
hist    == <<host, touched, unheard, disowned, missed, leaked>>
vars    == <<window, factory, hist>>

\* "latest" stands for largest and smallest, too: the window follows terminals.
Modes == {"latest", "manual"}
Kinds == {"set", "resize"}

NoPin == [refs |-> 0, restore |-> FALSE, owner |-> None]
Idle  == [kind |-> "none", step |-> "idle", v |-> None, tries |-> 0, inherited |-> FALSE,
          mode |-> "latest", size |-> None, owner |-> None, conflict |-> FALSE]

Effective == IF local = "unset" THEN global ELSE local

Watched(kind, s) == \E o \in Owners : <<o, kind, s>> \in hooks

\* The mark after a command in session s that the hooks of this kind follow.  The
\* resize hook asks for no window and the option hook only for the option's name.
Heard(kind, s) == IF Watched(kind, s) THEN None ELSE mark

\* The size the window takes when its effective mode becomes m.
Sized(m) == IF m = "manual" THEN size ELSE term

Init ==
    /\ alive = TRUE /\ local \in {"unset"} \cup Modes /\ global \in Modes
    /\ size \in Sizes /\ term = size /\ mark = None /\ hooks = {}
    /\ pin = NoPin /\ busy = Idle
    /\ viewer = [v \in Viewers |-> "new"] /\ geo = [v \in Viewers |-> None]
    /\ host = local /\ touched = FALSE /\ unheard = FALSE /\ disowned = FALSE
    /\ missed = {} /\ leaked = FALSE

-----------------------------------------------------------------------------
\* The host

\* What the host makes of the window's own option, in a command the hooks of the kind
\* follow in session s.
HostMakes(option, kind, s) ==
    /\ alive
    /\ local' = option /\ host' = option
    /\ mark' = Heard(kind, s)
    /\ touched' = TRUE /\ unheard' = (mark' # None) /\ disowned' = FALSE
    /\ UNCHANGED <<alive, global, term, hooks, factory, missed, leaked>>

\* set-option -w window-size.  A manual window takes the manual size it had before.
HostSetsOption(m, s) ==
    /\ HostMakes(m, "set", s)
    /\ size' \in (IF m = "manual" THEN Sizes ELSE {term})

\* set-option -w -u window-size.
HostUnsetsOption(s) ==
    /\ HostMakes("unset", "set", s)
    /\ size' = Sized(global)

\* resize-window makes the window manual, too.
HostResizesWindow(z, s) ==
    /\ HostMakes("manual", "resize", s)
    /\ size' = z

\* set-option -g window-size, in one of the window's sessions or in another.
HostSetsGlobal(m, s) ==
    /\ alive /\ m # global
    /\ global' = m
    /\ size' = IF local = "unset" THEN Sized(m) ELSE size
    /\ mark' = Heard("set", s)
    /\ disowned' = (disowned \/ mark' # mark)
    /\ UNCHANGED <<alive, local, term, hooks, factory, host, touched, unheard, missed, leaked>>

\* The host sizes another window of the session.
HostSizesAnother(kind, s) ==
    /\ alive /\ mark # None /\ Watched(kind, s)
    /\ mark' = Heard(kind, s)
    /\ disowned' = TRUE
    /\ UNCHANGED <<alive, local, global, size, term, hooks, factory, host, touched, unheard,
                   missed, leaked>>

\* A terminal of the host changes its size; a manual window does not follow.
HostTerminal(z) ==
    /\ alive /\ z # term
    /\ term' = z
    /\ size' = IF Effective = "manual" THEN size ELSE z
    /\ UNCHANGED <<alive, local, global, mark, hooks, factory, hist>>

\* The window is closed, or the server restarted with another generation.
WindowGone ==
    /\ alive
    /\ alive' = FALSE
    /\ UNCHANGED <<local, global, size, term, mark, hooks, factory, hist>>

HostStep ==
    \/ \E s \in Sessions :
          \/ \E m \in Modes : HostSetsOption(m, s)
          \/ HostUnsetsOption(s)
          \/ \E z \in Sizes : HostResizesWindow(z, s)
          \/ \E kind \in Kinds : HostSizesAnother(kind, s)
    \/ \E m \in Modes, s \in Sessions \cup {None} : HostSetsGlobal(m, s)
    \/ \E z \in Sizes : HostTerminal(z)
    \/ WindowGone

-----------------------------------------------------------------------------
\* pinWindow

\* newViewerWindowPinOwner draws a value nobody uses.
Unused == Owners \ ({mark, pin.owner} \cup {h[1] : h \in hooks})

PinWindow(v) ==
    /\ busy = Idle /\ viewer[v] = "new"
    /\ busy' = [Idle EXCEPT !.kind = "pin", !.step = "capture", !.v = v]
    /\ UNCHANGED <<window, pin, viewer, geo, hist>>

Refuse ==
    /\ busy' = Idle
    /\ viewer' = [viewer EXCEPT ![busy.v] = "gone"]
    /\ UNCHANGED <<pin, geo>>

Accept(s) ==
    /\ busy' = Idle
    /\ viewer' = [viewer EXCEPT ![busy.v] = "held"]
    /\ geo' = [geo EXCEPT ![busy.v] = s]

\* CaptureWindowSize and parseWindowPin; a window that is pinned is joined.
Capture ==
    /\ busy.step = "capture" /\ alive
    /\ \/ /\ pin # NoPin
          /\ pin' = [pin EXCEPT !.refs = @ + 1]
          /\ Accept(size)
       \/ /\ pin = NoPin
          /\ \E o \in IF local = "unset" THEN Unused ELSE {None} :
                busy' = [busy EXCEPT !.step = "claim", !.inherited = local = "unset",
                                     !.mode = Effective, !.size = size, !.owner = o]
          /\ UNCHANGED <<pin, viewer, geo>>
    /\ UNCHANGED <<window, hist>>

\* tmux fails, the geometry is unusable, or the session shows another window.
CaptureFails ==
    /\ busy.step = "capture"
    /\ Refuse
    /\ UNCHANGED <<window, hist>>

\* Mutant: attempts are not counted.
RetryForever ==
    /\ busy' = [Idle EXCEPT !.kind = "pin", !.step = "capture", !.v = busy.v]
    /\ UNCHANGED <<pin, viewer, geo>>

\* The next attempt of the loop, or "did not stabilize".
Retry ==
    IF busy.tries + 1 < Attempts
    THEN /\ busy' = [Idle EXCEPT !.kind = "pin", !.step = "capture", !.v = busy.v,
                                 !.tries = busy.tries + 1]
         /\ UNCHANGED <<pin, viewer, geo>>
    ELSE Refuse

\* The condition of PinWindowSize: the window is as it was captured.
AsCaptured == alive /\ size = busy.size /\ Effective = busy.mode

\* Mutant: the claim lacks -o.
ClaimAnyway == TRUE

\* set-option -o refuses to replace a window's own option.
ClaimFree == local = "unset"

\* set-option -o, which makes the window take the manual size it had before.
Claim ==
    /\ local' = "manual" /\ size' \in Sizes
    /\ UNCHANGED <<alive, global, term>>

\* Mutant: the window is not resized back after the claim.
InstallUnsized(s) ==
    /\ Claim
    /\ mark' = busy.owner /\ disowned' = FALSE
    /\ hooks' = hooks \cup {<<busy.owner, kind, s>> : kind \in Kinds}

\* claim, mark and resize back, in session s.  A resize hook that an earlier pin left
\* behind there takes the resize for the host's.
ClaimMarkResize(s) ==
    /\ Claim /\ size' = busy.size
    /\ mark' = IF Watched("resize", s) THEN None ELSE busy.owner
    /\ disowned' = Watched("resize", s)

\* The whole list: the hooks come last.
Install(s) ==
    /\ ClaimMarkResize(s)
    /\ hooks' = hooks \cup {<<busy.owner, kind, s>> : kind \in Kinds}

PinMismatch ==
    /\ busy.step = "claim" /\ ~AsCaptured
    /\ Retry
    /\ UNCHANGED <<window, hist>>

\* A window with its own option is only looked at.
PinInstalled ==
    /\ busy.step = "claim" /\ AsCaptured
    /\ IF busy.inherited THEN ClaimFree /\ \E s \in Sessions : Install(s)
                         ELSE UNCHANGED <<window, disowned>>
    /\ pin' = [refs |-> 1, restore |-> busy.inherited, owner |-> busy.owner]
    /\ Accept(busy.size)
    /\ touched' = FALSE
    /\ UNCHANGED <<host, unheard, missed, leaked>>

Rollback(conflict) ==
    /\ busy' = [busy EXCEPT !.step = "rollback", !.conflict = conflict]
    /\ UNCHANGED <<pin, viewer, geo>>

\* "already set: window-size".
PinConflict ==
    /\ busy.step = "claim" /\ AsCaptured /\ busy.inherited /\ ~ClaimFree
    /\ Rollback(TRUE)
    /\ UNCHANGED <<window, hist>>

\* The list stops after the claim, after the mark, after the resize or between the hooks.
InstallTorn(s) ==
    \/ Claim /\ mark' = Heard("set", s) /\ disowned' = TRUE /\ UNCHANGED hooks
    \/ Claim /\ mark' = busy.owner /\ disowned' = FALSE /\ UNCHANGED hooks
    \/ /\ ClaimMarkResize(s)
       /\ hooks' \in {hooks, hooks \cup {<<busy.owner, "set", s>>}}

\* An error, or output nobody expects: what the list did is undone.
PinFails(fault) ==
    /\ busy.step = "claim"
    /\ fault \in Faults \/ ~alive
    /\ \/ fault = "before" /\ UNCHANGED <<window, disowned>>
       \/ /\ fault # "before" /\ AsCaptured /\ busy.inherited /\ ClaimFree
          /\ \E s \in Sessions : IF fault = "torn" THEN InstallTorn(s) ELSE Install(s)
    /\ IF busy.inherited THEN Rollback(FALSE) ELSE Refuse
    /\ UNCHANGED <<host, touched, unheard, missed, leaked>>

-----------------------------------------------------------------------------
\* restoreWindowPin

\* What the restore asks before it removes the window's own option.
Owned(o) == Effective = "manual" /\ mark = o

\* The hooks set for o are looked for in one session.
Unwatched(o, s) == {h \in hooks : h[1] # o \/ h[3] # s}

\* The whole list; a window that is gone needs no restore.
Restored(o, s) ==
    /\ local' = IF alive /\ Owned(o) THEN "unset" ELSE local
    /\ size' = IF alive /\ Owned(o) THEN Sized(global) ELSE size
    /\ mark' = IF alive /\ mark = o THEN None ELSE mark
    /\ hooks' = IF alive THEN Unwatched(o, s) ELSE hooks
    /\ UNCHANGED <<alive, global, term>>

\* The list stops: one hook or both are gone, and perhaps the option.  Another pin's
\* hook takes that for the host's doing.
RestoreTorn(o, s) ==
    /\ \/ hooks' = hooks \ {<<o, "set", s>>} /\ UNCHANGED <<local, size, mark>>
       \/ hooks' = Unwatched(o, s) /\ UNCHANGED <<local, size, mark>>
       \/ /\ hooks' = Unwatched(o, s) /\ Owned(o)
          /\ local' = "unset" /\ size' = Sized(global)
          /\ mark' = IF \E h \in hooks' : h[2] = "set" /\ h[3] = s THEN None ELSE mark
    /\ UNCHANGED <<alive, global, term>>

RestoreFault(o, fault) ==
    /\ alive /\ fault \in Faults
    /\ \E s \in Sessions :
          CASE fault = "before" -> UNCHANGED window
            [] fault = "torn"   -> RestoreTorn(o, s)
            [] fault = "after"  -> Restored(o, s)

\* The restore of o is reported as done: who still has hooks is not looked after.
Done(o) == missed' = {q \in missed \cup {o} : \E h \in hooks' : h[1] = q}

RolledBack ==
    /\ busy.step = "rollback"
    /\ \E s \in Sessions : Restored(busy.owner, s)
    /\ Done(busy.owner)
    /\ IF busy.conflict THEN Retry ELSE Refuse
    /\ UNCHANGED <<host, touched, unheard, disowned, leaked>>

RollbackFails(fault) ==
    /\ busy.step = "rollback"
    /\ RestoreFault(busy.owner, fault)
    /\ Refuse
    /\ leaked' = TRUE
    /\ UNCHANGED <<host, touched, unheard, disowned, missed>>

-----------------------------------------------------------------------------
\* releaseWindow and Cleanup

\* Mutant: the first viewer to leave restores the window.
LastReference == TRUE

NoReferenceLeft == pin.refs = 1

ReleaseWindow(v) ==
    /\ busy = Idle /\ viewer[v] = "held"
    /\ viewer' = [viewer EXCEPT ![v] = "gone"]
    /\ IF NoReferenceLeft /\ pin.restore
       THEN /\ busy' = [Idle EXCEPT !.kind = "release", !.step = "restore", !.v = v]
            /\ pin' = [pin EXCEPT !.refs = @ - 1]
       ELSE /\ pin' = IF NoReferenceLeft THEN NoPin ELSE [pin EXCEPT !.refs = @ - 1]
            /\ UNCHANGED busy
    /\ geo' = [geo EXCEPT ![v] = None]
    /\ UNCHANGED <<window, hist>>

\* Manager calls it at the end of Rotate, Shutdown and a tunnel exit; releasing a
\* viewer a second time does the same.  Only a pin that has to be restored is ever
\* kept without references.
Cleanup ==
    /\ busy = Idle /\ pin.restore /\ pin.refs = 0
    /\ busy' = [Idle EXCEPT !.kind = "cleanup", !.step = "restore"]
    /\ UNCHANGED <<window, pin, viewer, geo, hist>>

RestoreDone ==
    /\ busy.step = "restore"
    /\ \E s \in Sessions : Restored(pin.owner, s)
    /\ Done(pin.owner)
    /\ pin' = NoPin /\ busy' = Idle
    /\ UNCHANGED <<viewer, geo, host, touched, unheard, disowned, leaked>>

\* Mutant: a pin whose restore failed is forgotten.
RestoreForgotten(fault) ==
    /\ busy.step = "restore"
    /\ RestoreFault(pin.owner, fault)
    /\ pin' = NoPin /\ busy' = Idle
    /\ UNCHANGED <<viewer, geo, hist>>

\* The pin stays in the factory, without references.
RestoreFails(fault) ==
    /\ busy.step = "restore"
    /\ RestoreFault(pin.owner, fault)
    /\ busy' = Idle
    /\ touched' = (touched \/ local' # local)
    /\ UNCHANGED <<pin, viewer, geo, host, unheard, disowned, missed, leaked>>

FactoryStep ==
    \/ Capture \/ CaptureFails
    \/ PinMismatch \/ PinInstalled \/ PinConflict
    \/ \E fault \in {"before", "torn", "after"} :
          PinFails(fault) \/ RollbackFails(fault) \/ RestoreFails(fault)
    \/ RolledBack \/ RestoreDone

\* The worker is killed: what it knew of the pin is lost, and the window keeps what
\* it has.  The viewers that are left belong to the next worker of the window.
WorkerDies ==
    /\ pin # NoPin \/ busy # Idle
    /\ pin' = NoPin /\ busy' = Idle
    /\ viewer' = [v \in Viewers |->
                     IF viewer[v] = "held" \/ v = busy.v THEN "gone" ELSE viewer[v]]
    /\ geo' = [v \in Viewers |-> None]
    /\ leaked' = TRUE
    /\ UNCHANGED <<window, host, touched, unheard, disowned, missed>>

\* Nothing is left to do once the window is gone.
StaysGone == ~alive /\ busy = Idle /\ UNCHANGED vars

Next ==
    \/ HostStep
    \/ FactoryStep
    \/ \E v \in Viewers : PinWindow(v) \/ ReleaseWindow(v)
    \/ Cleanup
    \/ WorkerDies
    \/ StaysGone

Spec == Init /\ [][Next]_vars

\* Every tmux command the factory runs returns; the host owes nothing.
FairSpec == Spec /\ WF_vars(FactoryStep)

-----------------------------------------------------------------------------
\* Properties

\* Every variable has its type, and the pin counts the viewers that hold it.
TypeOK ==
    /\ alive \in BOOLEAN
    /\ local \in {"unset"} \cup Modes /\ global \in Modes
    /\ size \in Sizes /\ term \in Sizes
    /\ mark \in Owners \cup {None} /\ hooks \subseteq Owners \X Kinds \X Sessions
    /\ pin \in [refs : Nat, restore : BOOLEAN, owner : Owners \cup {None}]
    /\ pin.refs = Cardinality({v \in Viewers : viewer[v] = "held"})
    /\ viewer \in [Viewers -> {"new", "held", "gone"}]
    /\ geo \in [Viewers -> Sizes \cup {None}]
    /\ busy \in [kind : {"none", "pin", "release", "cleanup"},
                 step : {"idle", "capture", "claim", "rollback", "restore"},
                 v : Viewers \cup {None}, tries : 0..Attempts, inherited : BOOLEAN,
                 mode : Modes, size : Sizes \cup {None}, owner : Owners \cup {None},
                 conflict : BOOLEAN]
    /\ host \in {"unset"} \cup Modes
    /\ touched \in BOOLEAN /\ unheard \in BOOLEAN /\ disowned \in BOOLEAN
    /\ missed \subseteq Owners /\ leaked \in BOOLEAN

\* A size option the host gave its window is never replaced or removed, whether
\* it came before the capture, between capture and claim, or under a pin, and also
\* by a worker that follows one that was killed with a pin in place.  The one
\* exception is the very value the pin has, when no hook heard the host set it: made
\* in another session than the hooks are in, or before or after they are installed.
HostAuthoritative ==
    alive /\ host # "unset" /\ ~(host = "manual" /\ unheard) => local = host

\* When the last viewer has let go, no failed rollback was reported and no worker was
\* killed, nothing of the pin is left, however often tmux failed in between: no mark;
\* no hook but those that a restore looked for in another session; and no option the
\* host did not set, unless the pin lost its mark while the host left the window's
\* option alone, so that the restore must not touch it any more: a hook heard
\* the host size another window or set the global option, a hook left behind by an
\* earlier pin heard this one's own resize, or the list stopped before the mark.
WindowGivenBack ==
    alive /\ pin = NoPin /\ busy = Idle /\ ~leaked =>
        /\ mark = None
        /\ \A h \in hooks : h[1] \in missed
        /\ local \in {"unset", host} \/ disowned

\* As long as one viewer watches and the host does not interfere, the window
\* keeps the geometry that every viewer was told, whoever came or left, unless a
\* viewer joined a pin that a restore had taken off and reported as failed.
GeometryKept ==
    \A v \in Viewers :
        alive /\ viewer[v] = "held" /\ pin.restore /\ ~touched =>
            local = "manual" /\ size = geo[v]

\* pinMu is always given back, however often the host changes the window.
CallsReturn == busy # Idle ~> busy = Idle
=============================================================================
