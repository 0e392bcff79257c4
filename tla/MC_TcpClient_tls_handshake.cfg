\* SSL::Client with the blocking connect: a failed handshake reports
\* onDisconnect, yet leaves the client connected, so disconnect() reports it again.
CONSTANTS
    Calls <- MCSyncCalls
    ChunkSizes <- MCChunkSizes
    MaxBytes <- MCMaxBytes
    SendLimit <- MCSendLimit
    RecvInit <- MCRecvInit
    RecvLimit <- MCRecvLimit
    MaxInbound <- MCMaxInbound
    MaxWire <- MCMaxWire
    MaxConns <- MCMaxConns
    MaxQueue <- MCMaxQueue
    TlsModes <- MCTlsOnly
    SyncSizes <- MCSyncSizes
    DoneInits <- MCDoneInit

SPECIFICATION Spec

INVARIANT
    DisconnectNotifiedOnce

\* A disconnected client whose user makes no more calls stays idle.
CHECK_DEADLOCK FALSE
