\* One connection across restarts of the mirror and repeated rotations; one slot, so
\* that whatever is going on, Shutdown and Rotate have to get through.
SPECIFICATION FairSpec
CONSTANTS
    c1 = c1
    Clients = {c1}
    MaxHandshakes = 1
    MaxClients = 1
    MaxStarts = 2
    MaxSecrets = 3
VIEW LiveView
INVARIANTS
    TypeOK
    NoRevokedInput
PROPERTIES
    ImplementsGate
    ShutdownCompletes
    RevokedLeaves
