\* Two workers, two windows and two names: starts and renames from stale lists.
SPECIFICATION Spec
CONSTANTS
    None = None
    Workers = {w1, w2}
    Commands = {p1}
    Windows = {t1, t2}
    Names = {n1, n2}
    Retain = 2
    Kinds = {"start"}
SYMMETRY Symmetry
VIEW NamesView
INVARIANT UnambiguousRecords
