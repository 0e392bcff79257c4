\* A Timer created before Service::restart keeps the replaced io_service:
\* its waits are never notified although the Service runs again.
CONSTANTS
    NThreads = 2
    OwnIoModes <- MCOwnIoModes
    PollModes <- MCPollModes
    MaxJobs <- MCMaxJobs
    MaxStarts <- MCMaxStarts
    MaxWaits <- MCMaxWaits
    MaxSetups <- MCMaxSetups

SPECIFICATION STSpec

PROPERTY WaitNotified

CHECK_DEADLOCK FALSE
