------------------------------ MODULE MCMirror ------------------------------
(* Small instances of Mirror for TLC. *)
EXTENDS Mirror, TLC

\* Connections are interchangeable: no action or invariant names one.
Symmetry == Permutations(Clients)

\* The handlers that still run, and those that have not left run yet.
Here == {c \in Clients : pc[c] # "done"}
There == {c \in Clients : pc[c] \in Attended}

\* The viewers whose result somebody may still look at.
Awaited == There \cup active \cup withViewer \cup op.pend \cup op.at

\* What decides no later step is left out: warning and retired; the credential of a
\* connection that is gone; vopen, told and broken of one that has left run; watch,
\* which is "waiting" for every active viewer and idle for the others; the results
\* nobody waits for.  A run whose invariants do not mention them need not tell
\* states apart by them.
SafetyView == <<mstate, msecret, mserver, startup, shutdown, asked, setVars, srvVars,
                pc, srv, [c \in Here \cup active \cup opening |-> cred[c]],
                hsHeld, slotHeld, connections, qclosed,
                told \cap There, broken \cap There, vopen \cap There,
                viewer, verr \cap Awaited, unrestored, op, result, overdue>>

\* All but what is only written: no step, no fairness condition and no property of the
\* run looks at warning, told, result, overdue and broken, and no step changes only them.
LiveView == <<mstate, msecret, mserver, startup, shutdown, asked, setVars, srvVars,
              pc, srv, cred, hsHeld, slotHeld, connections, qclosed, vopen, viewVars,
              op, retired>>
=============================================================================
