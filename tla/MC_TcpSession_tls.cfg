\* SSL::Session: connect() throws at ssl_session.cxx:31 before it marks the
\* Session connected, leaving the TLS stream the peer is connected to open.
CONSTANTS
    Users = {u1, u2}
    ChunkSizes <- MCChunkSizes
    MaxBytes <- MCMaxBytes
    SendLimit <- MCSendLimit
    RecvInit <- MCRecvInit
    RecvLimit <- MCRecvLimit
    MaxInbound <- MCMaxInbound
    MaxQueue <- MCMaxQueue
    SyncSizes <- MCSyncSizes
    MaxSyncSends <- MCMaxSyncSends
    TlsModes <- MCTlsOnly

SPECIFICATION Spec

INVARIANT PeerClosedOnDisconnect

CHECK_DEADLOCK FALSE
