\* Two workers and a retention of one: pruning against starts, crashes and kills.
SPECIFICATION Spec
CONSTANTS
    None = None
    Workers = {w1, w2}
    Commands = {p1}
    Windows = {t1}
    Names = {n1}
    Retain = 1
    Kinds = {"start", "kill"}
SYMMETRY Symmetry
VIEW SafetyView
INVARIANT NothingForgotten
PROPERTY PruneKeepsRecorded
