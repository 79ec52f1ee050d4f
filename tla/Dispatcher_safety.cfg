\* Four clients over two workers with a three-socket limit: EMFILE, the
\* round-robin wrap, every failure path (fcntl, accept, conn_new), and a
\* third socket dispatched while both items of the first batch are out, so
\* that cqi_new mallocs a second batch and a worker may free an item
\* between its two lock sections.
CONSTANTS
    c1 = c1  c2 = c2  c3 = c3  c4 = c4
    Clients = {c1, c2, c3, c4}
    NumThreads = 2
    MaxFds = 3
    SysFailures = TRUE
    ConnNewFailures = TRUE
    ItemsPerAlloc = 2
SPECIFICATION Spec
SYMMETRY ClientSymmetry
INVARIANT SocketsAccountedFor WakeupPerItem ItemsOwnedOnce ConnsOwnedOnce
\* Once every client has connected and hung up the server idles.
CHECK_DEADLOCK FALSE
