\* The program's two clients over TLS and its four pairs.
CONSTANTS
    Tasks <- TwoClients
    PlainTasks <- NoTask
    DelayedDrop <- DeepgramOnly
    MAX_CONNECTIONS = 4
    MAX_TCP_RETRIES = 2
    None = None
SPECIFICATION Spec
INVARIANTS
    NoSharedBuffers
