\* Service(0): one io_service that no worker drives.
CONSTANTS
    NThreads = 0
    OwnIoModes <- MCPerThreadOnly
    PollModes <- MCPollModes
    MaxJobs <- MCMaxJobs
    MaxStarts <- MCMaxStarts

SPECIFICATION Spec

PROPERTY StartReturns

CHECK_DEADLOCK FALSE
