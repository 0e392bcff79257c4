\* A send() or receive() with a timeout while the receive loop runs: the cancel in
\* its handler aborts the loop's read.
CONSTANTS
    Calls <- MCSyncCallsR
    ChunkSizes <- MCChunkSizes
    MaxBytes <- MCMaxBytesSmall
    SendLimit <- MCSendLimit
    RecvInit <- MCRecvInit
    RecvLimit <- MCRecvLimit
    MaxInbound <- MCMaxInbound
    MaxWire <- MCMaxWire
    MaxConns <- MCMaxConns
    MaxQueue <- MCMaxQueue
    TlsModes <- MCTcpOnly
    SyncSizes <- MCSyncSizes
    DoneInits <- MCDoneInit

SPECIFICATION Spec

INVARIANT
    TimedCallSparesOthers

CHECK_DEADLOCK FALSE
