\* Data path of one Session: ordering, accounting, single outstanding
\* operation, disconnect once, receive buffer, and refinement of ByteStream.
CONSTANTS
    Users = {u1, u2}
    ChunkSizes <- MCChunkSizes
    MaxBytes <- MCMaxBytes
    SendLimit <- MCSendLimit
    RecvInit <- MCRecvInit
    RecvLimit <- MCRecvLimit
    MaxInbound <- MCMaxInbound
    MaxQueue <- MCMaxQueue
    SyncSizes <- MCSyncSizes
    MaxSyncSends <- MCMaxSyncSends
    TlsModes <- MCTcpOnly

SPECIFICATION Spec

INVARIANTS
    TypeOK
    AtMostOneOp
    Accounting
    DisconnectOnce
    ReceiveBufferSafe

PROPERTIES
    StreamSpec
    PeerBytesRead

\* An idle session whose peer is silent waits for ever: termination is a
\* real end state of the system, not a deadlock.
CHECK_DEADLOCK FALSE
