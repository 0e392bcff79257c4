\* SSL::Client with the blocking reconnect: a shutdown completion queued before
\* the reconnect closes the new connection while its handshake ends.
CONSTANTS
    Calls <- MCSyncAsyncCalls
    ChunkSizes <- MCChunkSizes
    MaxBytes <- MCMaxBytes
    SendLimit <- MCSendLimit
    RecvInit <- MCRecvInit
    RecvLimit <- MCRecvLimit
    MaxInbound <- MCMaxInbound
    MaxWire <- MCMaxWire
    MaxConns <- MCMaxConns
    MaxQueue <- MCMaxQueue
    TlsModes <- MCTlsOnly
    SyncSizes <- MCSyncSizes
    DoneInits <- MCDoneInit

SPECIFICATION Spec

INVARIANT
    HandshakedConnected

\* A disconnected client whose user makes no more calls stays idle.
CHECK_DEADLOCK FALSE
