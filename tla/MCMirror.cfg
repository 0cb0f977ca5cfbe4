\* Two connections racing Rotate, Shutdown, a tunnel exit and each other.
SPECIFICATION Spec
CONSTANTS
    c1 = c1
    c2 = c2
    Clients = {c1, c2}
    MaxHandshakes = 1
    MaxClients = 2
    MaxStarts = 1
    MaxSecrets = 2
SYMMETRY Symmetry
VIEW SafetyView
INVARIANTS
    NoRevokedSession
    ViewersOwned
    CleanShutdown
    LastWord
