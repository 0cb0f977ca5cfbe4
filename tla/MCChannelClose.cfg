\* A user closes the terminal, nothing else happens.
SPECIFICATION Spec
CONSTANTS
    None = None
    Conns = {c1, c2}
    MaxClients = 1
    QueueLimit = 1
    WireLimit = 1
    LastCounter = 3
    Outputs = 0
    Disturbances = 0
INVARIANT AckedCloseIsFinal
