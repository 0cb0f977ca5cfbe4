\* One page on two sockets, one client slot, one disturbance besides rotation, shutdown,
\* the user's close and a page that wakes up.
SPECIFICATION FairSpec
CONSTANTS
    None = None
    Conns = {c1, c2}
    MaxClients = 1
    QueueLimit = 1
    WireLimit = 1
    LastCounter = 3
    Outputs = 1
    Disturbances = 1
VIEW View
INVARIANTS
    TypeOK
    CountersInStep
    OutputHasNoHoles
    TerminalOfConnection
    StopIsExplained
PROPERTIES
    PageSettles
    SlotGivenBack
