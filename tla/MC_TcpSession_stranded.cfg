\* sendAsync racing with the disconnect handler: bytes accepted after
\* clearBuffs are neither written nor dropped.
CONSTANTS
    Users = {u1, u2}
    ChunkSizes <- MCChunkSizes
    MaxBytes <- MCMaxBytes
    SendLimit <- MCSendLimit
    RecvInit <- MCRecvInit
    RecvLimit <- MCRecvLimit
    MaxInbound <- MCMaxInbound
    MaxQueue <- MCMaxQueue
    SyncSizes <- MCSyncSizes
    MaxSyncSends <- MCMaxSyncSends
    TlsModes <- MCTcpOnly

SPECIFICATION Spec

INVARIANT NoStrandedBytes

CHECK_DEADLOCK FALSE
