\* Two starts while the retention of one is used up.
SPECIFICATION Spec
CONSTANTS
    None = None
    Workers = {w1, w2}
    Commands = {p1, p2}
    Windows = {t1}
    Names = {n1}
    Retain = 1
    Kinds = {"start"}
SYMMETRY Symmetry
INVARIANT HeldLeaseIsOnPath
