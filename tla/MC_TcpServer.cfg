\* The Server with one user thread and two client connections: registry
\* consistency, callbacks once, a single accept chain, and under fair io
\* threads the unregister of disconnected Sessions and the disconnects of
\* stop.
CONSTANTS
    Sids = {s1, s2}
    Users = {u1}
    NULL = NULL
    MaxQueue <- MCMaxQueue

SPECIFICATION Spec

INVARIANTS
    TypeOK
    RegistryConsistent
    LifecycleOnce
    AcceptChainSingle

PROPERTIES
    NoStaleSession
    StopDisconnectsAll

\* A started Server with no client connecting and no user call idles.
CHECK_DEADLOCK FALSE
