\* The registry size against onConnect minus onDisconnect, which unregister updates later.
CONSTANTS
    Sids = {s1, s2}
    Users = {u1, u2}
    NULL = NULL
    MaxQueue <- MCMaxQueue
SPECIFICATION Spec
INVARIANT RegistryCountMatches
CHECK_DEADLOCK FALSE
