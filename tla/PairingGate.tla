----------------------------- MODULE PairingGate -----------------------------
(***************************************************************************)
(* What the mirror promises about pairing credentials, without saying how. *)
(* One credential is in force at a time, or none (0).  A browser presents  *)
(* the credential it was paired with; a terminal session is granted only   *)
(* at an instant when that credential is in force, and withdrawing or      *)
(* replacing the credential ends every session in the same instant.        *)
(***************************************************************************)
EXTENDS Naturals

CONSTANT Browsers

VARIABLES
    inForce,    \* the credential of the link that is shown, 0 for none
    presented,  \* the credential each browser has paired with
    sessions    \* the browsers with a terminal

gateVars == <<inForce, presented, sessions>>

GateInit ==
    /\ inForce = 0
    /\ presented = [b \in Browsers |-> 0]
    /\ sessions = {}

\* A new link is published; it replaces an older one, or none.
Publish ==
    /\ inForce' > inForce
    /\ sessions' = {}
    /\ UNCHANGED presented

Withdraw ==
    /\ inForce' = 0
    /\ sessions' = {}
    /\ UNCHANGED presented

\* A browser pairs once; it may hold a link that is not in force any more.
Present(b) ==
    /\ presented[b] = 0
    /\ presented'[b] \in Nat \ {0}
    /\ presented' = [presented EXCEPT ![b] = presented'[b]]
    /\ UNCHANGED <<inForce, sessions>>

Grant(b) ==
    /\ inForce # 0 /\ presented[b] = inForce
    /\ b \notin sessions
    /\ sessions' = sessions \cup {b}
    /\ UNCHANGED <<inForce, presented>>

End(b) ==
    /\ sessions' = sessions \ {b}
    /\ UNCHANGED <<inForce, presented>>

GateNext ==
    \/ Publish \/ Withdraw
    \/ \E b \in Browsers : Present(b) \/ Grant(b) \/ End(b)

GateSpec == GateInit /\ [][GateNext]_gateVars
=============================================================================
