\* One reload caller (SIGUSR1 on the signal thread), two workers and the
\* main thread querying; mmap may place a new index at a freed address.
CONSTANTS
    Workers = {w1, w2}
    Main = Main
    Sig = Sig
    Reloaders = {Sig}
    NoThread = NoThread
    Addrs = {a1, a2}
    Signals <- SentSignals
    MaxLoads = 3
SPECIFICATION Spec
SYMMETRY WorkerSymmetry
INVARIANT ReadersSeeMappedIndex
 
 
INVARIANT ReloadFlagReleased
