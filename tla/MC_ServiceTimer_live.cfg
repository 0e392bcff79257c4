\* Without restart every wait of the Timer is notified while the Service
\* is started.
CONSTANTS
    NThreads = 2
    OwnIoModes <- MCOwnIoModes
    PollModes <- MCPollModes
    MaxJobs <- MCMaxJobs
    MaxStarts <- MCOneStart
    MaxWaits <- MCMaxWaits
    MaxSetups <- MCMaxSetups

SPECIFICATION STSpec

PROPERTY WaitNotified

CHECK_DEADLOCK FALSE
