----------------------------- MODULE IndexSwap -----------------------------
(***************************************************************************)
(* The active index slot of the server (src/server/prefixmatch.cpp) and   *)
(* the threads that use it.                                                *)
(*                                                                         *)
(* g_index is the process-wide indexobj; each init_index mmaps a file,     *)
(* a mapping named here by a number (0 is the index loaded by Init_Index   *)
(* at start-up, 1..MaxLoads the mappings made by reloads).  mmap places a  *)
(* mapping at any address not in use, a freed one included, and munmap     *)
(* (deinit_index) releases whatever is mapped at the address it is given.  *)
(* Queries take the read side of rwlock for the trie descent; Reload_index *)
(* is entered from two threads: the main thread (HTTP opt=reload) and the  *)
(* signal thread (SIGUSR1).  The main thread also serves HTTP opt=get, so  *)
(* it is a querier too, but never both at once.                            *)
(***************************************************************************)
EXTENDS Naturals, FiniteSets, FiniteSetsExt

CONSTANTS
    Workers,     \* worker threads answering binary GET requests
    Main,        \* the main thread: HTTP admin reload and get
    Sig,         \* the signal thread: SIGUSR1 reload
    Reloaders,   \* which of Main and Sig issue reloads in this model
    MaxLoads,    \* bound on init_index calls made by reloads
    NoThread,    \* model value: nobody holds the write side of rwlock
    Addrs,       \* the addresses an index file can be mapped at
    Signals      \* the signal numbers sent to the process in this model

ASSUME /\ MaxLoads \in Nat \ {0}
       /\ {Main, Sig} \cap Workers = {}
       /\ Main # Sig
       /\ Reloaders \subseteq {Main, Sig}
       /\ NoThread \notin Workers \cup {Main, Sig}

Queriers  == Workers \cup {Main}
Threads   == Workers \cup {Main, Sig}

\* The signals of sig.cpp's signals[] table, by their Linux numbers; the
\* signal thread waits for them with sigwaitinfo, and signal_init blocks
\* them in every other thread.  SIGINT (exiting, then exit) is left to
\* PrefixQuery.
SIGHUP == 1  SIGINT == 2  SIGUSR1 == 10  SIGUSR2 == 12  SIGTTIN == 21  SIGTTOU == 22
Handled == {SIGHUP, SIGINT, SIGUSR1, SIGUSR2, SIGTTIN, SIGTTOU}

ASSUME Signals \subseteq Handled \ {SIGINT}

\* Region 0 is mapped by Init_Index before any thread starts.
Regions == 0..MaxLoads

VARIABLES
    g_index,      \* region the global indexobj points at
    g_reloading,  \* the plain int flag guarding Reload_index
    mapped,       \* regions currently mmapped
    addr,         \* the address each region was mapped at (index.mem)
    unmaps,       \* number of munmap calls made on each region
    loads,        \* number of init_index calls made by reloads so far
    rdHolders,    \* threads holding the read side of rwlock
    wrHolder,     \* thread holding the write side of rwlock, or NoThread
    pc,           \* program point of each thread
    prev_index,   \* Reload_index's local copy of g_index
    new_index,    \* Reload_index's freshly loaded region
    using,        \* region whose trie a querier descends
    sigPending    \* signals sent and not yet taken by sigwaitinfo

idxvars == <<g_index, g_reloading, mapped, addr, unmaps, loads, rdHolders, wrHolder,
             pc, prev_index, new_index, using>>

vars == <<idxvars, sigPending>>

Labels == {"idle",
           \* Reload_index
           "check", "set", "load", "wrlock", "swap", "unmap", "clear",
           \* Query
           "descend", "unlock"}

TypeOK ==
    /\ g_index \in Regions
    /\ g_reloading \in {0, 1}
    /\ mapped \subseteq Regions
    /\ addr \in [Regions -> Addrs]
    /\ unmaps \in [Regions -> Nat]
    /\ loads \in 0..MaxLoads
    /\ rdHolders \subseteq Queriers
    /\ wrHolder \in Reloaders \cup {NoThread}
    /\ pc \in [Threads -> Labels]
    /\ prev_index \in [Reloaders -> Regions]
    /\ new_index \in [Reloaders -> Regions]
    /\ using \in [Queriers -> Regions]
    /\ sigPending \subseteq Signals

\* Init_Index (prefixmatch.cpp:332-344) has mapped region 0 and made it
\* g_index; no reload is in progress.
Init ==
    /\ g_index = 0
    /\ g_reloading = 0
    /\ mapped = {0}
    /\ \E a \in Addrs : addr = [r \in Regions |-> a]
    /\ unmaps = [r \in Regions |-> 0]
    /\ loads = 0
    /\ rdHolders = {}
    /\ wrHolder = NoThread
    /\ pc = [t \in Threads |-> "idle"]
    /\ prev_index = [t \in Reloaders |-> 0]
    /\ new_index = [t \in Reloaders |-> 0]
    /\ using = [t \in Queriers |-> 0]
    /\ sigPending = {}

Goto(t, l) == pc' = [pc EXCEPT ![t] = l]

\* Addresses at which some region is mapped; mmap only returns others.
InUse == {addr[r] : r \in mapped}

\* munmap(index.mem, index.fsize) (deinit_index, lines 326-330): the
\* mapping at address a goes away, whichever region it is.
Munmap(a) == mapped' = {r \in mapped : addr[r] # a}

-----------------------------------------------------------------------------
(* Reload_index(newindex_file), prefixmatch.cpp:357-396.                   *)

\* Entry: the previous index is copied out of g_index (line 367) before the
\* g_reloading test and without any lock.
ReloadStart(t) ==
    /\ pc[t] = "idle"
    /\ prev_index' = [prev_index EXCEPT ![t] = g_index]
    /\ Goto(t, "check")
    /\ UNCHANGED <<g_index, g_reloading, mapped, addr, unmaps, loads, rdHolders,
                   wrHolder, new_index, using>>

\* if (g_reloading == 1) return -1;  (lines 369-373)
ReloadCheck(t) ==
    /\ pc[t] = "check"
    /\ IF g_reloading = 1 THEN Goto(t, "idle") ELSE Goto(t, "set")
    /\ UNCHANGED <<g_index, g_reloading, mapped, addr, unmaps, loads, rdHolders,
                   wrHolder, prev_index, new_index, using>>

\* g_reloading = 1;  a separate store, not atomic with the test (line 374).
ReloadSet(t) ==
    /\ pc[t] = "set"
    /\ g_reloading' = 1
    /\ Goto(t, "load")
    /\ UNCHANGED <<g_index, mapped, addr, unmaps, loads, rdHolders, wrHolder,
                   prev_index, new_index, using>>

\* init_index(newindex_file, new_index) (lines 377-383, 295-324): open,
\* mmap at an address not in use, and assign.  Any failure leaves nothing
\* mapped, clears g_reloading and returns -1: InitIndexFail when open,
\* fstat or mmap fails or the file is empty, AssignFail when the trie
\* header is rejected after the file was mapped, so deinit_index unmaps it
\* again.
InitIndexOk(t) ==
    /\ pc[t] = "load"
    /\ loads < MaxLoads
    /\ \E a \in Addrs \ InUse :
           /\ addr' = [addr EXCEPT ![loads + 1] = a]
           /\ mapped' = mapped \cup {loads + 1}
    /\ loads' = loads + 1
    /\ new_index' = [new_index EXCEPT ![t] = loads + 1]
    /\ Goto(t, "wrlock")
    /\ UNCHANGED <<g_index, g_reloading, unmaps, rdHolders, wrHolder,
                   prev_index, using>>

\* Mutant: the failure path forgets to clear g_reloading.
InitIndexFailKeepsFlag(t) ==
    /\ pc[t] = "load"
    /\ loads < MaxLoads
    /\ loads' = loads + 1
    /\ Goto(t, "idle")
    /\ UNCHANGED <<g_index, g_reloading, mapped, addr, unmaps, rdHolders, wrHolder,
                   prev_index, new_index, using>>

InitIndexFail(t) ==
    /\ pc[t] = "load"
    /\ loads < MaxLoads
    /\ loads' = loads + 1
    /\ g_reloading' = 0
    /\ Goto(t, "idle")
    /\ UNCHANGED <<g_index, mapped, addr, unmaps, rdHolders, wrHolder, prev_index,
                   new_index, using>>

AssignFail(t) ==
    /\ pc[t] = "load"
    /\ loads < MaxLoads
    /\ Addrs \ InUse # {}
    /\ loads' = loads + 1
    /\ unmaps' = [unmaps EXCEPT ![loads + 1] = @ + 1]
    /\ g_reloading' = 0
    /\ Goto(t, "idle")
    /\ UNCHANGED <<g_index, mapped, addr, rdHolders, wrHolder, prev_index,
                   new_index, using>>

\* Mutant: the writer does not wait for the readers to leave.
WrLockIgnoringReaders(t) ==
    /\ pc[t] = "wrlock"
    /\ wrHolder = NoThread
    /\ wrHolder' = t
    /\ Goto(t, "swap")
    /\ UNCHANGED <<g_index, g_reloading, mapped, addr, unmaps, loads, rdHolders,
                   prev_index, new_index, using>>

\* pthread_rwlock_wrlock (line 386): waits until no thread holds either side.
WrLock(t) ==
    /\ pc[t] = "wrlock"
    /\ rdHolders = {}
    /\ wrHolder = NoThread
    /\ wrHolder' = t
    /\ Goto(t, "swap")
    /\ UNCHANGED <<g_index, g_reloading, mapped, addr, unmaps, loads, rdHolders,
                   prev_index, new_index, using>>

\* g_index = new_index; pthread_rwlock_unlock (lines 387-388).
Swap(t) ==
    /\ pc[t] = "swap"
    /\ g_index' = new_index[t]
    /\ wrHolder' = NoThread
    /\ Goto(t, "unmap")
    /\ UNCHANGED <<g_reloading, mapped, addr, unmaps, loads, rdHolders, prev_index,
                   new_index, using>>

DeinitPrev(t) ==
    /\ pc[t] = "unmap"
    /\ Munmap(addr[prev_index[t]])
    /\ unmaps' = [unmaps EXCEPT ![prev_index[t]] = @ + 1]
    /\ Goto(t, "clear")
    /\ UNCHANGED <<g_index, g_reloading, addr, loads, rdHolders, wrHolder,
                   prev_index, new_index, using>>

\* g_reloading = 0; return 0  (lines 392-395).
ReloadClear(t) ==
    /\ pc[t] = "clear"
    /\ g_reloading' = 0
    /\ Goto(t, "idle")
    /\ UNCHANGED <<g_index, mapped, addr, unmaps, loads, rdHolders, wrHolder,
                   prev_index, new_index, using>>

-----------------------------------------------------------------------------
(* Query(strQuery, ...), prefixmatch.cpp:277-282: the part that touches    *)
(* the index.  Romanizing before it and filtering after it use only       *)
(* thread-local copies of the hits.                                        *)

\* pthread_rwlock_rdlock (line 277).  glibc's default rwlock prefers
\* readers: a waiting writer does not hold new readers back.
RdLock(t) ==
    /\ pc[t] = "idle"
    /\ wrHolder = NoThread
    /\ rdHolders' = rdHolders \cup {t}
    /\ Goto(t, "descend")
    /\ UNCHANGED <<g_index, g_reloading, mapped, addr, unmaps, loads, wrHolder,
                   prev_index, new_index, using>>

\* g_index.g_dasTrieObj.getChildren(...) for each letter (lines 278-281):
\* walks the trie that lives in g_index's mapped region.
Descend(t) ==
    /\ pc[t] = "descend"
    /\ using' = [using EXCEPT ![t] = g_index]
    /\ Goto(t, "unlock")
    /\ UNCHANGED <<g_index, g_reloading, mapped, addr, unmaps, loads, rdHolders,
                   wrHolder, prev_index, new_index>>

\* pthread_rwlock_unlock (line 282); the hits were copied into vResultTmp.
RdUnlock(t) ==
    /\ pc[t] = "unlock"
    /\ rdHolders' = rdHolders \ {t}
    /\ Goto(t, "idle")
    /\ UNCHANGED <<g_index, g_reloading, mapped, addr, unmaps, loads, wrHolder,
                   prev_index, new_index, using>>

-----------------------------------------------------------------------------
(* The signal thread, sig.cpp.                                             *)

\* kill(2) from outside: a standard signal already pending is not queued
\* again.
SigRaise(s) ==
    /\ sigPending' = sigPending \cup {s}
    /\ UNCHANGED idxvars

\* signal_handler runs the handler of signals[] on the signal thread:
\* sig_handler_user1 calls Reload_index(NULL), whose first step is
\* ReloadStart; those of SIGUSR2, SIGTTIN, SIGTTOU and SIGHUP return 0.
signal_handler(s) ==
    IF s = SIGUSR1 /\ Sig \in Reloaders
    THEN ReloadStart(Sig)
    ELSE UNCHANGED idxvars

\* sigmgr_thread's loop: sigwaitinfo takes the lowest-numbered pending
\* signal, and its handler runs before the next wait.
SigWait ==
    LET s == Min(sigPending) IN
    /\ pc[Sig] = "idle" /\ sigPending # {}
    /\ sigPending' = sigPending \ {s}
    /\ signal_handler(s)

-----------------------------------------------------------------------------

\* Reload_index after its entry; the main thread enters it from
\* process_http_cb (opt=reload), the signal thread from SigWait.
Reload(t) ==
    \/ ReloadCheck(t) \/ ReloadSet(t)
    \/ InitIndexOk(t) \/ InitIndexFail(t) \/ AssignFail(t)
    \/ WrLock(t) \/ Swap(t) \/ DeinitPrev(t) \/ ReloadClear(t)

QueryIndex(t) == RdLock(t) \/ Descend(t) \/ RdUnlock(t)

Next ==
    \/ /\ \E t \in Reloaders :
             \/ t = Main /\ ReloadStart(t)
             \/ Reload(t)
       /\ UNCHANGED sigPending
    \/ \E t \in Queriers : QueryIndex(t) /\ UNCHANGED sigPending
    \/ \E s \in Signals : SigRaise(s)
    \/ SigWait

Spec == Init /\ [][Next]_vars

-----------------------------------------------------------------------------
(* Properties                                                              *)

\* While a query descends the trie (holding the read lock) the region it
\* walks is still mapped: Reload_index never unmaps the index a reader can
\* still reach.
ReadersSeeMappedIndex ==
    \A t \in rdHolders : pc[t] = "unlock" => using[t] \in mapped

\* g_index always designates a mapped region: a query that takes the read
\* lock at any moment finds a live trie, whatever order the reloads from
\* the main and the signal thread interleave in.
ActiveIndexMapped == g_index \in mapped

ReloadFlagReleased ==
    (\A t \in Reloaders : pc[t] = "idle") => g_reloading = 0

=============================================================================
