\* The connectAsync completion calls onConnect twice.
CONSTANTS
    Calls <- MCAsyncCalls
    ChunkSizes <- MCChunkSizes
    MaxBytes <- MCMaxBytes
    SendLimit <- MCSendLimit
    RecvInit <- MCRecvInit
    RecvLimit <- MCRecvLimit
    MaxInbound <- MCMaxInbound
    MaxWire <- MCMaxWire
    MaxConns <- MCMaxConns
    MaxQueue <- MCMaxQueue
    TlsModes <- MCTcpOnly
    SyncSizes <- MCSyncSizes
    DoneInits <- MCDoneInit

SPECIFICATION Spec

INVARIANT
    ConnectNotifiedOnce

\* A disconnected client whose user makes no more calls stays idle.
CHECK_DEADLOCK FALSE
