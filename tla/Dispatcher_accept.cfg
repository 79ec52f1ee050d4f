\* One socket allowed and two clients: the second waits for EMFILE
\* back-pressure to be lifted by the first one's conn_close.
CONSTANTS
    c1 = c1  c2 = c2  c3 = c3  c4 = c4
    Clients = {c1, c2}
    NumThreads = 1
    MaxFds = 1
    SysFailures = FALSE
    ConnNewFailures = TRUE
    ItemsPerAlloc = 2
SPECIFICATION FairSpec
PROPERTY AcceptResumes
CHECK_DEADLOCK FALSE
