\* A completion queued before a blocking reconnect runs on the new
\* connection.
CONSTANTS
    Calls <- MCSyncAsyncCalls
    ChunkSizes <- MCChunkSizes
    MaxBytes <- MCMaxBytes
    SendLimit <- MCSendLimit
    RecvInit <- MCRecvInit
    RecvLimit <- MCRecvLimit
    MaxInbound <- MCMaxInbound
    MaxWire <- MCMaxWire
    MaxConns <- MCMaxConns
    MaxQueue <- MCMaxQueue
    TlsModes <- MCTcpOnly
    SyncSizes <- MCSyncSizes
    DoneInits <- MCDoneInit

SPECIFICATION Spec

INVARIANT
    AtMostOneOp

\* A disconnected client whose user makes no more calls stays idle.
CHECK_DEADLOCK FALSE
