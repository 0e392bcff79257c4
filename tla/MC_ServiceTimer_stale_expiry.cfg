\* A setup after the expiry fired but before the wait handler ran: the
\* handler reports expiry while the Timer is armed again.
CONSTANTS
    NThreads = 2
    OwnIoModes <- MCOwnIoModes
    PollModes <- MCPollModes
    MaxJobs <- MCMaxJobs
    MaxStarts <- MCMaxStarts
    MaxWaits <- MCMaxWaits
    MaxSetups <- MCMaxSetups

SPECIFICATION STSpec

PROPERTY ExpiryCurrent

CHECK_DEADLOCK FALSE
