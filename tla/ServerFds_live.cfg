\* The dispatcher and the logger sharing the descriptor table, with no
\* write errors: every client is served, every buffered message is written
\* once and the process stays within its limit (2 sockets and the log file);
\* thread_init waits for two workers while the logger runs.
CONSTANTS
    Clients = {c1, c2}
    NumThreads = 2
    MaxFds = 3
    SysFailures = FALSE
    ConnNewFailures = FALSE
    ItemsPerAlloc = 2
    Producers = {p1}
    MsgsPerProducer = 2
    MaxBufferSize = 2
    WriteErrors = FALSE
    c1 = c1
    c2 = c2
    c3 = c3
    p1 = p1
SPECIFICATION Spec
INVARIANT TypeOK WrittenOnce
PROPERTY ConnectionsServed StartupCompletes LogDelivered
