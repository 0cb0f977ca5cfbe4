\* Two viewers together, in turn or of two workers, tmux failing in every way.
SPECIFICATION FairSpec
CONSTANTS
    None = None
    Viewers = {v1, v2}
    Sizes = {s1, s2}
    Owners = {o1, o2}
    Sessions = {source, helper}
    Attempts = 2
    Faults = {"before", "torn", "after"}
INVARIANTS
    TypeOK
    HostAuthoritative
    WindowGivenBack
    GeometryKept
PROPERTY CallsReturn
