------------------------------- MODULE Logger -------------------------------
(***************************************************************************)
(* The asynchronous file logger (src/server/log.cpp) after log_init_file   *)
(* succeeded: two buffers, each under its own mutex, an unlocked           *)
(* buffer_index naming the one producers append to, and the detached       *)
(* writer thread async_write that every write_interval flips the index     *)
(* and writes out the buffer it named.  A producer is any thread calling   *)
(* log_debug/loga (_log, _log_internal).  A message is <<p, k>>, the k-th  *)
(* message of producer p, one unit long; max_buffer_size is counted in     *)
(* messages.  The descriptors the rest of the process holds (sockets) are  *)
(* a parameter, because log_open_file competes with accept for them.       *)
(***************************************************************************)
EXTENDS Naturals, Sequences, SequencesExt

CONSTANTS
    Producers,        \* threads that log
    MsgsPerProducer,  \* messages each producer logs
    MaxBufferSize,    \* l->max_buffer_size, in messages
    WriteErrors,      \* whether write(2) on the log file may fail (ENOSPC, EIO)
    MaxFds            \* descriptors the process may hold (RLIMIT_NOFILE)

ASSUME MaxBufferSize \in Nat \ {0, 1} /\ MsgsPerProducer \in Nat

VARIABLES
    buffer_index, \* l->buffer_index: the buffer producers append to
    buffer,       \* l->buffer[i] up to l->buffer_wpos[i]
    fdOpen,       \* l->fd is the open log file (else it is -1)
    nerror,       \* l->nerror
    leaked,       \* descriptors log_open_file opened and nobody keeps
    file,         \* what the log file has received, in order
    wpc,          \* async_write: "swap" (sleep, reopen, flip) or "flush"
    widx,         \* async_write's local index
    ppc,          \* each producer: "idle", "index" or "lock" (in _log_internal)
    pidx,         \* each producer's local index
    logged,       \* messages each producer has handed to _log
    sockets       \* descriptors held by the rest of the process

logvars == <<buffer_index, buffer, fdOpen, nerror, leaked, file, wpc, widx,
             ppc, pidx, logged>>

Msgs == Producers \X (1 .. MsgsPerProducer)

(* Descriptors the logger holds: the log file and the leaked ones.         *)
LogFds == (IF fdOpen THEN 1 ELSE 0) + leaked

TypeOK ==
    /\ buffer_index \in {0, 1} /\ widx \in {0, 1}
    /\ buffer \in [{0, 1} -> Seq(Msgs)]
    /\ \A i \in {0, 1} : Len(buffer[i]) < MaxBufferSize
    /\ fdOpen \in BOOLEAN /\ nerror \in {0, 1}
    /\ leaked \in Nat /\ sockets + LogFds <= MaxFds
    /\ file \in Seq(Msgs)
    /\ wpc \in {"swap", "flush"}
    /\ ppc \in [Producers -> {"idle", "index", "lock"}]
    /\ pidx \in [Producers -> {0, 1}]
    /\ logged \in [Producers -> 0 .. MsgsPerProducer]

(* log_init_file has opened the file and allocated both buffers; the       *)
(* writer thread is asleep.                                                *)
LogInit ==
    /\ buffer_index = 0 /\ buffer = [i \in {0, 1} |-> <<>>]
    /\ fdOpen = TRUE /\ nerror = 0 /\ leaked = 0 /\ file = <<>>
    /\ wpc = "swap" /\ widx = 0
    /\ ppc = [p \in Producers |-> "idle"] /\ pidx = [p \in Producers |-> 0]
    /\ logged = [p \in Producers |-> 0]

(* my_write(l->fd, data): write(2) on -1 fails with EBADF; on the file it *)
(* appends the data or, when WriteErrors, may fail and set l->nerror.      *)
(* Either way the caller then sets the buffer's wpos to 0.                 *)
MyWrite(data) ==
    \/ /\ fdOpen
       /\ file' = file \o data /\ UNCHANGED nerror
    \/ /\ ~fdOpen \/ WriteErrors
       /\ nerror' = 1 /\ UNCHANGED file

(* _log: with l->fd < 0 the message is dropped; otherwise it is formatted *)
(* and handed to _log_internal.                                            *)
Log(p) ==
    /\ ppc[p] = "idle" /\ logged[p] < MsgsPerProducer
    /\ logged' = [logged EXCEPT ![p] = @ + 1]
    /\ ppc' = [ppc EXCEPT ![p] = IF fdOpen THEN "index" ELSE "idle"]
    /\ UNCHANGED <<buffer_index, buffer, fdOpen, nerror, leaked, file, wpc,
                   widx, pidx, sockets>>

(* _log_internal reads buffer_index without a lock, then waits for that   *)
(* buffer's mutex.                                                         *)
ReadIndex(p) ==
    /\ ppc[p] = "index"
    /\ pidx' = [pidx EXCEPT ![p] = buffer_index]
    /\ ppc' = [ppc EXCEPT ![p] = "lock"]
    /\ UNCHANGED <<buffer_index, buffer, fdOpen, nerror, leaked, file, wpc,
                   widx, logged, sockets>>

(* Mutant: the message is copied in without checking that it fits.      *)
CopyInNoFlush(i, m) ==
    buffer' = [buffer EXCEPT ![i] = Append(@, m)] /\ UNCHANGED <<file, nerror>>

(* _log_internal under buffer_locks[i]: append when the message fits;     *)
(* otherwise write the buffer out from this thread, empty it and put the  *)
(* message at its start.                                                   *)
CopyIn(i, m) ==
    IF Len(buffer[i]) + 1 < MaxBufferSize
    THEN buffer' = [buffer EXCEPT ![i] = Append(@, m)] /\ UNCHANGED <<file, nerror>>
    ELSE /\ IF buffer[i] # <<>> THEN MyWrite(buffer[i]) ELSE UNCHANGED <<file, nerror>>
         /\ buffer' = [buffer EXCEPT ![i] = <<m>>]

LogInternal(p) ==
    /\ ppc[p] = "lock"
    /\ CopyIn(pidx[p], <<p, logged[p]>>)
    /\ ppc' = [ppc EXCEPT ![p] = "idle"]
    /\ UNCHANGED <<buffer_index, fdOpen, leaked, wpc, widx, pidx, logged,
                   sockets>>

(* async_write after mysleep_millisec: on nerror, close(l->fd), l->fd =  *)
(* -1 and log_open_file(l->name), whose descriptor is never stored; when   *)
(* the open fails (no descriptor free) the loop continues.  Then           *)
(* index = buffer_index and buffer_index flips.                            *)
WriterSwap ==
    /\ wpc = "swap"
    /\ LET reopened == sockets + leaked < MaxFds
           goOn     == nerror = 0 \/ reopened
       IN /\ IF nerror = 1
             THEN fdOpen' = FALSE /\ leaked' = leaked + (IF reopened THEN 1 ELSE 0)
             ELSE UNCHANGED <<fdOpen, leaked>>
          /\ IF goOn
             THEN /\ widx' = buffer_index
                  /\ buffer_index' = (buffer_index + 1) % 2
                  /\ wpc' = "flush"
             ELSE UNCHANGED <<wpc, widx, buffer_index>>
    /\ UNCHANGED <<buffer, nerror, file, ppc, pidx, logged, sockets>>

(* Mutant: a buffer holding a single message is not written (wpos > 1).   *)
WriterFlushSkipSingle ==
    /\ wpc = "flush"
    /\ IF Len(buffer[widx]) > 1 THEN MyWrite(buffer[widx]) ELSE UNCHANGED <<file, nerror>>
    /\ buffer' = [buffer EXCEPT ![widx] = <<>>]
    /\ wpc' = "swap"
    /\ UNCHANGED <<buffer_index, fdOpen, leaked, widx, ppc, pidx, logged,
                   sockets>>

(* Mutant: buffer_wpos[index] is not reset after the write.               *)
WriterFlushKeeping ==
    /\ wpc = "flush"
    /\ IF buffer[widx] # <<>> THEN MyWrite(buffer[widx]) ELSE UNCHANGED <<file, nerror>>
    /\ wpc' = "swap"
    /\ UNCHANGED <<buffer, buffer_index, fdOpen, leaked, widx, ppc, pidx,
                   logged, sockets>>

(* async_write under buffer_locks[index]: write out what the buffer      *)
(* holds, set nerror on failure, empty it.                                 *)
WriterFlush ==
    /\ wpc = "flush"
    /\ IF buffer[widx] # <<>> THEN MyWrite(buffer[widx]) ELSE UNCHANGED <<file, nerror>>
    /\ buffer' = [buffer EXCEPT ![widx] = <<>>]
    /\ wpc' = "swap"
    /\ UNCHANGED <<buffer_index, fdOpen, leaked, widx, ppc, pidx, logged,
                   sockets>>

Writer == WriterSwap \/ WriterFlush

LogNext ==
    \/ \E p \in Producers : Log(p) \/ ReadIndex(p) \/ LogInternal(p)
    \/ Writer

(* The writer thread loops forever; a producer inside _log_internal gets  *)
(* its mutex (held only for one copy or one write) and, once formatting    *)
(* is done, finishes the call.                                            *)
LogFairness ==
    /\ WF_logvars(Writer)
    /\ \A p \in Producers : WF_logvars(ReadIndex(p) \/ LogInternal(p))

-----------------------------------------------------------------------------
(* Views used by the properties.                                          *)

(* The message is in one of the buffers.                                   *)
Buffered(m) == \E i \in {0, 1} : m \in ToSet(buffer[i])

(* No message reaches the log file twice: the writer and a producer that  *)
(* finds its buffer full both write a buffer out under its mutex and empty *)
(* it, whichever buffer_index each read.                                  *)
WrittenOnce == IsInjective(file)

(* Every message copied into a buffer eventually reaches the file, even   *)
(* one copied into the buffer the writer has just emptied after flipping  *)
(* buffer_index past it.                                                   *)
LogDelivered == \A m \in Msgs : Buffered(m) ~> m \in ToSet(file)

=============================================================================
