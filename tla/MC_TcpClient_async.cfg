\* The asynchronous API: one outstanding operation per kind, the byte
\* counters, and progress of connectAsync and reconnectAsync.
CONSTANTS
    Calls <- MCAsyncCalls
    ChunkSizes <- MCChunkSizes
    MaxBytes <- MCMaxBytesSmall
    SendLimit <- MCSendLimit
    RecvInit <- MCRecvInit
    RecvLimit <- MCRecvLimit
    MaxInbound <- MCMaxInbound
    MaxWire <- MCMaxWire
    MaxConns <- MCMaxConns
    MaxQueue <- MCMaxQueue
    TlsModes <- MCTlsBoth
    SyncSizes <- MCSyncSizes
    DoneInits <- MCDoneInit

SPECIFICATION Spec

INVARIANTS
    AtMostOneOp
    Accounting
    DisconnectNotifiedOnce
    HandshakeBeforeData

PROPERTIES
    ConnectSettles
    ReconnectAsyncReturns
    PeerBytesRead

\* A disconnected client whose user makes no more calls stays idle.
CHECK_DEADLOCK FALSE
