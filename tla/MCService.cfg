\* One worker on a tmux server with up to three sessions, one snapshot besides those of the
\* mirror's own steps, and two faults or acts of the user.
SPECIFICATION FairSpec
CONSTANTS
    LastId = 2
    Capacity = 2
    Snapshots = 1
    Mishaps = 2
INVARIANTS
    TypeOK
    ForeignUntouched
    StopHasCause
    HelperRemoved
    ShutdownAnswered
PROPERTIES
    WorkerEnds
