\* A send() or receive() with a timeout whose uninitialised done holds 1 or 2: the
\* call returns while its operation or its timer is still pending.
CONSTANTS
    Calls <- MCSyncCalls
    ChunkSizes <- MCChunkSizes
    MaxBytes <- MCMaxBytesSmall
    SendLimit <- MCSendLimit
    RecvInit <- MCRecvInit
    RecvLimit <- MCRecvLimit
    MaxInbound <- MCMaxInbound
    MaxWire <- MCMaxWire
    MaxConns <- MCMaxConns
    MaxQueue <- MCMaxQueue
    TlsModes <- MCTcpOnly
    SyncSizes <- MCSyncSizes
    DoneInits <- MCDoneAny

SPECIFICATION Spec

INVARIANT
    NoOrphanCompletion

CHECK_DEADLOCK FALSE
