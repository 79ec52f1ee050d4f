----------------------------- MODULE ServerFds ------------------------------
(***************************************************************************)
(* The server process as two components that share one resource, the      *)
(* descriptor table: the main thread and the workers accepting and closing *)
(* client sockets (Dispatcher) and the asynchronous logger (Logger), whose *)
(* writer thread opens the log file again after a write error.  accept()   *)
(* gives EMFILE when the sockets and the logger's descriptors together     *)
(* reach the limit; log_open_file fails when the sockets and the           *)
(* descriptors it has already opened reach it.  Each step is a step of    *)
(* one component, the other standing still.                                *)
(***************************************************************************)
EXTENDS Naturals

CONSTANTS Clients, NumThreads, MaxFds, SysFailures, ConnNewFailures,
          ItemsPerAlloc,
          Producers, MsgsPerProducer, MaxBufferSize, WriteErrors

VARIABLES
    backlog, arrived, acceptOn, mpc, mfd, last_thread, cq, pipe, conns,
    wpc, open, gone, init_count, freelist, allocated, mitem,
    freeconns, nconns, connOf, closing, freed,
    buffer_index, buffer, fdOpen, nerror, leaked, file,
    writer_pc,    \* async_write's program counter (Logger's wpc)
    widx, ppc, pidx, logged

Log == INSTANCE Logger WITH wpc <- writer_pc, sockets <- open

Disp == INSTANCE Dispatcher WITH otherFds <- Log!LogFds

dispvars == <<backlog, arrived, acceptOn, mpc, mfd, last_thread, cq, pipe,
              conns, wpc, open, gone, init_count, freelist, allocated, mitem,
              freeconns, nconns, connOf, closing, freed>>

logvars == <<buffer_index, buffer, fdOpen, nerror, leaked, file, writer_pc,
             widx, ppc, pidx, logged>>

vars == <<dispvars, logvars>>

(* main() opens the log file (log_init_file) before thread_init and the   *)
(* listening socket: the logger holds one descriptor from the start.       *)
Init == Disp!InitSockets /\ Log!LogInit

(* A step of one component; the other's variables are fixed first, since  *)
(* each component's UNCHANGED mentions the other's descriptors.            *)
DispStep(A) == UNCHANGED logvars /\ A
LogStep(A) == UNCHANGED dispvars /\ A

Next ==
    \/ DispStep(Disp!Next)
    \/ \E p \in Producers :
          \/ LogStep(Log!Log(p))
          \/ LogStep(Log!ReadIndex(p))
          \/ LogStep(Log!LogInternal(p))
    \/ LogStep(Log!WriterSwap)
    \/ LogStep(Log!WriterFlush)

(* The fairness of each component: every thread runs when it has work.    *)
Fairness ==
    /\ WF_vars(DispStep(Disp!Main))
    /\ \A w \in Disp!Workers :
           WF_vars(DispStep(Disp!Worker(w)))
    /\ WF_vars(LogStep(Log!Writer))
    /\ \A p \in Producers :
           WF_vars(LogStep(Log!ReadIndex(p) \/ Log!LogInternal(p)))

Spec == Init /\ [][Next]_vars /\ Fairness

-----------------------------------------------------------------------------
(* Both components' types, and the descriptor limit never exceeded.        *)
TypeOK == Disp!TypeOK /\ Log!TypeOK

(* Every client that connects is eventually installed on a worker or has  *)
(* its socket closed, although the logger holds descriptors too.           *)
ConnectionsServed == Disp!ConnectionsServed

(* No message reaches the log file twice (writer and producer flushes).   *)
WrittenOnce == Log!WrittenOnce

(* Every message copied into a buffer eventually reaches the log file.     *)
LogDelivered == Log!LogDelivered

(* thread_init returns once every worker has registered, although the     *)
(* logger's writer and producers run meanwhile.                            *)
StartupCompletes == Disp!StartupCompletes

=============================================================================
