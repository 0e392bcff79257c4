\* unregisterSession erases from _sessions without the lock multicast holds shared.
CONSTANTS
    Sids = {s1, s2}
    Users = {u1, u2}
    NULL = NULL
    MaxQueue <- MCMaxQueue
SPECIFICATION Spec
PROPERTY RegistryWriteExclusive
CHECK_DEADLOCK FALSE
