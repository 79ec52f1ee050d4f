\* Reloads from the main thread (HTTP opt=reload) and the signal thread
\* (SIGUSR1) may overlap; mmap may hand a freed address out again.
CONSTANTS
    Workers = {w1}
    Main = Main
    Sig = Sig
    Reloaders = {Main, Sig}
    NoThread = NoThread
    Addrs = {a1, a2, a3}
    Signals <- SentSignals
    MaxLoads = 2
SPECIFICATION Spec
INVARIANT ActiveIndexMapped
