\* One worker and three commands at once: who may clean up after whom.
SPECIFICATION Spec
CONSTANTS
    None = None
    Workers = {w1}
    Commands = {p1, p2, p3}
    Windows = {t1}
    Names = {n1}
    Retain = 1
    Kinds = {"start", "list", "doctor", "kill"}
SYMMETRY Symmetry
VIEW SafetyView
INVARIANTS
    TypeOK
    LeaseGuards
    KilledIsStopped
    FailedStartIsGone
