\* The blocking connect, disconnect and reconnect with send and receive, with and
\* without a timeout: one onConnect per connection, no data before the handshake, and
\* no completion of a timed call left once it has returned.
CONSTANTS
    Calls <- MCSyncCalls
    ChunkSizes <- MCChunkSizes
    MaxBytes <- MCMaxBytesSmall
    SendLimit <- MCSendLimit
    RecvInit <- MCRecvInit
    RecvLimit <- MCRecvLimit
    MaxInbound <- MCMaxInbound
    MaxWire <- MCMaxWire
    MaxConns <- MCMaxConns
    MaxQueue <- MCMaxQueue
    TlsModes <- MCTlsBoth
    SyncSizes <- MCSyncSizes
    DoneInits <- MCDoneInit

SPECIFICATION Spec

INVARIANTS
    NoOrphanCompletion

\* A disconnected client whose user makes no more calls stays idle.
CHECK_DEADLOCK FALSE
