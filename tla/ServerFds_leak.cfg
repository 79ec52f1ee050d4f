\* One failed write(2) to the log file: async_write then reopens the file
\* every write_interval without keeping the descriptor, until the process
\* is at its limit and accept() gives EMFILE for good.
CONSTANTS
    Clients = {c1, c2}
    NumThreads = 1
    MaxFds = 3
    SysFailures = FALSE
    ConnNewFailures = FALSE
    ItemsPerAlloc = 2
    Producers = {p1}
    MsgsPerProducer = 1
    MaxBufferSize = 2
    WriteErrors = TRUE
    c1 = c1
    c2 = c2
    c3 = c3
    p1 = p1
SPECIFICATION Spec
PROPERTY ConnectionsServed
