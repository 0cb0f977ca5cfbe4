SPECIFICATION FairSpec
CONSTANTS
    c1 = c1
    Clients = {c1}
    MaxHandshakes = 1
    MaxClients = 1
    MaxStarts = 1
    MaxSecrets = 2
PROPERTY CleanupFailureVisible
