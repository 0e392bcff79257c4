\* Two workers, shared or per-thread io_services, a start and a restart,
\* one component handler and a Timer with two waits and one setup.
CONSTANTS
    NThreads = 2
    OwnIoModes <- MCOwnIoModes
    PollModes <- MCPollModes
    MaxJobs <- MCMaxJobs
    MaxStarts <- MCMaxStarts
    MaxWaits <- MCMaxWaits
    MaxSetups <- MCMaxSetups

SPECIFICATION STSpec

INVARIANTS
    WorkerPerIo
    WaitsConserved

PROPERTIES
    IoDriven
    StopReturns

\* After its last stop the Service is idle for good; the user may stop calling.
CHECK_DEADLOCK FALSE
