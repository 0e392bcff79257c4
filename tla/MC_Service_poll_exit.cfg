\* One io_service per worker thread, polling mode: a worker polls before the
\* start handler has run on the first io_service.
CONSTANTS
    NThreads = 2
    OwnIoModes <- MCPerThreadOnly
    PollModes <- MCPollOnly
    MaxJobs <- MCMaxJobs
    MaxStarts <- MCMaxStarts

SPECIFICATION Spec

PROPERTY IoDriven

CHECK_DEADLOCK FALSE
