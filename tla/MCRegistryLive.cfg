\* One worker that prunes everything completed, two commands: everybody finishes.
SPECIFICATION FairSpec
CONSTANTS
    None = None
    Workers = {w1}
    Commands = {p1, p2}
    Windows = {t1}
    Names = {n1}
    Retain = 0
    Kinds = {"start", "kill"}
VIEW LiveView
PROPERTIES
    CommandsFinish
    WorkersStop
