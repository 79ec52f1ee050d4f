---------------------------- MODULE MCIndexSwap ----------------------------
(* Model-checking instance of IndexSwap: the thread names are model values *)
(* bound in the .cfg files; this module only restricts the worker set.    *)
EXTENDS IndexSwap, TLC

\* Workers are interchangeable: nothing in Query depends on which worker
\* runs it.
WorkerSymmetry == Permutations(Workers)

\* Signals sent to the process: one no-op handler below SIGUSR1 and one
\* above it, so that sigwaitinfo's lowest-first order matters.
SentSignals == {SIGHUP, SIGUSR1, SIGUSR2}
=============================================================================
