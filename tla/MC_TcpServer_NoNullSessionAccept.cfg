\* A client connecting between stop() and its handler: the accept completion uses a null _session.
CONSTANTS
    Sids = {s1, s2}
    Users = {u1, u2}
    NULL = NULL
    MaxQueue <- MCMaxQueue
SPECIFICATION Spec
INVARIANT NoNullSessionAccept
CHECK_DEADLOCK FALSE
