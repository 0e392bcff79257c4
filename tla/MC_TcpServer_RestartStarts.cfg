\* restart() waits while the server is NOT started, then calls start() on a started server.
CONSTANTS
    Sids = {s1, s2}
    Users = {u1, u2}
    NULL = NULL
    MaxQueue <- MCMaxQueue
SPECIFICATION Spec
INVARIANT RestartStarts
CHECK_DEADLOCK FALSE
