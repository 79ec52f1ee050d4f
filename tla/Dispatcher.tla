----------------------------- MODULE Dispatcher -----------------------------
(***************************************************************************)
(* The main thread's listening connection and the hand-over of accepted    *)
(* sockets to the worker threads:                                          *)
(*   - drive_machine, case conn_listening (server.cpp): accept, the EMFILE *)
(*     back-pressure accept_new_conns(false), O_NONBLOCK failure;          *)
(*   - thread_init (thread.cpp): the workers register under init_lock and *)
(*     signal init_cond; the main thread waits until all have registered;  *)
(*   - dispatch_conn_new (thread.cpp): cqi_new takes a queue item from the *)
(*     freelist or allocates a batch, round-robin choice of a worker,      *)
(*     cq_push onto its connection queue, then one 'c' byte on its pipe;   *)
(*   - thread_libevent_process (thread.cpp): read one byte, cq_pop,        *)
(*     conn_new, close the socket if conn_new fails, cqi_free the item;    *)
(*   - conn_close (conn.cpp): close the socket, then                       *)
(*     do_accept_new_conns(true) under conn.cpp's own conn_lock.           *)
(* A connection is named by its client; the fd number is not modelled.     *)
(* What a worker does with an installed connection is ConnMachine's        *)
(* business; here the connection only ends, at a time the client chooses.  *)
(***************************************************************************)
EXTENDS Naturals, Sequences, SequencesExt

CONSTANTS
    Clients,        \* the clients that connect, at most once each
    NumThreads,     \* g_settings.num_threads
    MaxFds,         \* sockets the process may hold before accept gives EMFILE
    SysFailures,    \* whether fcntl and other accept errors happen
    ConnNewFailures,\* whether conn_new fails (event_add, malloc)
    ItemsPerAlloc   \* ITEMS_PER_ALLOC, the CQ_ITEMs cqi_new mallocs at once

Workers == 0 .. NumThreads - 1

VARIABLES
    backlog,      \* the kernel's queue of connections not yet accepted
    arrived,      \* clients that have connected
    acceptOn,     \* listen conn's ev_flags = EV_READ | EV_PERSIST (else 0)
    mpc,          \* where the main thread is in drive_machine
    mfd,          \* the socket the main thread is dispatching
    last_thread,  \* thread.cpp: the worker chosen most recently
    cq,           \* each worker's connection queue (new_conn_queue)
    pipe,         \* 'c' bytes unread in each worker's notify pipe
    conns,        \* connections a worker has installed with conn_new
    wpc,          \* "loop", or "reaccept" between close(sfd) and do_accept
    open,         \* accepted sockets not yet closed
    gone,         \* clients whose socket has been closed
    init_count,   \* thread.cpp: workers registered (under init_lock)
    freelist,     \* cqi_freelist, a stack of CQ_ITEMs (numbered from 1)
    allocated,    \* CQ_ITEMs malloc'ed so far, numbered 1 .. allocated
    mitem,        \* the item dispatch_conn_new holds (0: none)
    freeconns,    \* conn.cpp's freeconns[0 .. freecurr-1], a stack of conns
    nconns,       \* conn structs calloc'ed so far, numbered 1 .. nconns
    connOf,       \* the conn struct of each installed client (0: none)
    closing,      \* the conn a worker's conn_close is releasing (0: none)
    freed,        \* conn structs released by conn_free
    otherFds      \* descriptors the rest of the process holds (no step here
                  \* changes them; the logger's, when composed with Logger)

items == <<freelist, allocated, mitem>>

cstructs == <<freeconns, nconns, connOf, closing, freed>>

vars == <<backlog, arrived, acceptOn, mpc, mfd, last_thread, cq, pipe,
          conns, wpc, open, gone, init_count, items, cstructs, otherFds>>

(* accept() fails with EMFILE once the process holds MaxFds descriptors.   *)
FdsFull == open + otherFds >= MaxFds

TypeOK ==
    /\ backlog \in Seq(Clients)
    /\ arrived \subseteq Clients /\ gone \subseteq Clients
    /\ acceptOn \in BOOLEAN
    /\ mpc \in {"init", "initwait", "wait", "accept", "emfile", "dispatch",
                "alloc", "push", "notify"}
    /\ mfd \in Clients \cup {"none"}
    /\ last_thread \in Workers \cup {-1}
    /\ cq \in [Workers -> Seq([sfd : Clients, item : Nat \ {0}])]
    /\ pipe \in [Workers -> Nat]
    /\ conns \in [Workers -> SUBSET Clients]
    /\ wpc \in [Workers -> {"init", "loop", "reaccept"}]
    /\ init_count \in 0 .. NumThreads
    /\ freelist \in Seq(1 .. allocated) /\ mitem \in 0 .. allocated
    /\ open \in 0 .. MaxFds /\ otherFds \in 0 .. MaxFds
    /\ freeconns \in Seq(1 .. nconns) /\ freed \subseteq 1 .. nconns
    /\ connOf \in [Clients -> 0 .. nconns]
    /\ closing \in [Workers -> 0 .. nconns]

(* thread_init once it has created the workers (and conn_init the conn *)
(* freelist): both freelists are empty, no                                *)
(* worker has registered, the main thread is about to wait for them.       *)
(* The listening socket, with accepting on, is created after it returns.  *)
InitSockets ==
    /\ backlog = <<>> /\ arrived = {} /\ gone = {}
    /\ acceptOn = TRUE
    /\ mpc = "init" /\ mfd = "none"
    /\ last_thread = -1
    /\ cq = [w \in Workers |-> <<>>]
    /\ pipe = [w \in Workers |-> 0]
    /\ conns = [w \in Workers |-> {}]
    /\ wpc = [w \in Workers |-> "init"]
    /\ open = 0
    /\ init_count = 0
    /\ freelist = <<>> /\ allocated = 0 /\ mitem = 0
    /\ freeconns = <<>> /\ nconns = 0 /\ freed = {}
    /\ connOf = [c \in Clients |-> 0] /\ closing = [w \in Workers |-> 0]

Init == InitSockets /\ otherFds = 0

workers == <<cq, pipe, conns, wpc, cstructs>>

(* cq_push / cq_pop: the worker's connection queue, FIFO under cq->lock.  *)
CqPush(w, item) == [cq EXCEPT ![w] = Append(@, item)]
CqPop(w) == [cq EXCEPT ![w] = Tail(@)]

(* do_accept_new_conns: update_event on the listen conn (a no-op when its  *)
(* ev_flags already match) and listen() with the full or a zero backlog.   *)
DoAcceptNewConns(do_accept) == acceptOn' = do_accept

(* thread_init returns before main() creates the listening socket.       *)
InitPhase == {"init", "initwait"}

(* A client connects once the socket listens; the kernel queues it whether *)
(* or not accept is on.                                                    *)
Connect(c) ==
    /\ mpc \notin InitPhase /\ c \notin arrived
    /\ backlog' = Append(backlog, c)
    /\ arrived' = arrived \cup {c}
    /\ UNCHANGED <<acceptOn, mpc, mfd, last_thread, workers, open, gone, init_count, items, otherFds>>

(* thread_init: init_lock taken, one test of wait_for_thread_registration's *)
(* while loop: all workers have registered and it unlocks and returns, or  *)
(* pthread_cond_wait releases the lock and sleeps on init_cond.            *)
WaitForThreadRegistration ==
    /\ mpc = "init"
    /\ mpc' = IF init_count < NumThreads THEN "initwait" ELSE "wait"
    /\ UNCHANGED <<backlog, arrived, acceptOn, mfd, last_thread, workers,
                   open, gone, init_count, items, otherFds>>

(* Mutant: init_count is raised but init_cond is not signalled.            *)
RegisterNoSignal(w) ==
    /\ wpc[w] = "init"
    /\ init_count' = init_count + 1
    /\ wpc' = [wpc EXCEPT ![w] = "loop"]
    /\ UNCHANGED <<backlog, arrived, acceptOn, mpc, mfd, last_thread, cq, pipe,
                   conns, open, gone, items, cstructs, otherFds>>

(* worker_libevent: register_thread_initialized (under init_lock,          *)
(* init_count++ and pthread_cond_signal, which wakes the main thread if it *)
(* sleeps in pthread_cond_wait), then the worker's event loop runs.        *)
RegisterThreadInitialized(w) ==
    /\ wpc[w] = "init"
    /\ init_count' = init_count + 1
    /\ mpc' = IF mpc = "initwait" THEN "init" ELSE mpc
    /\ wpc' = [wpc EXCEPT ![w] = "loop"]
    /\ UNCHANGED <<backlog, arrived, acceptOn, mfd, last_thread, cq, pipe,
                   conns, open, gone, items, cstructs, otherFds>>

(* libevent runs the listening handler: the level-triggered EV_PERSIST     *)
(* read event is ready while accepting is on and a connection is queued.   *)
ListenFires ==
    /\ mpc = "wait" /\ acceptOn /\ backlog # <<>>
    /\ mpc' = "accept"
    /\ UNCHANGED <<backlog, arrived, acceptOn, mfd, last_thread, workers,
                   open, gone, init_count, items, otherFds>>

(* One accept() of the conn_listening loop.  EAGAIN and other errors stop  *)
(* the loop; EMFILE goes on to accept_new_conns(false); a failed fcntl     *)
(* closes the socket and loops; success goes on to dispatch_conn_new.      *)
Accept ==
    /\ mpc = "accept"
    /\ \/ /\ backlog = <<>>
          /\ mpc' = "wait"
          /\ UNCHANGED <<backlog, mfd, open, gone>>
       \/ /\ backlog # <<>> /\ SysFailures
          /\ mpc' = "wait"
          /\ UNCHANGED <<backlog, mfd, open, gone>>
       \/ /\ backlog # <<>> /\ FdsFull
          /\ mpc' = "emfile"
          /\ UNCHANGED <<backlog, mfd, open, gone>>
       \/ /\ backlog # <<>> /\ ~FdsFull /\ SysFailures
          /\ backlog' = Tail(backlog)
          /\ gone' = gone \cup {Head(backlog)}
          /\ UNCHANGED <<mpc, mfd, open>>
       \/ /\ backlog # <<>> /\ ~FdsFull
          /\ backlog' = Tail(backlog)
          /\ mfd' = Head(backlog)
          /\ open' = open + 1
          /\ mpc' = "dispatch"
          /\ UNCHANGED gone
    /\ UNCHANGED <<arrived, acceptOn, last_thread, workers, init_count, items, otherFds>>

(* accept_new_conns(false) after EMFILE: the listen event is deleted.      *)
DisableAccept ==
    /\ mpc = "emfile"
    /\ DoAcceptNewConns(FALSE)
    /\ mpc' = "wait"
    /\ UNCHANGED <<backlog, arrived, mfd, last_thread, workers, open, gone, init_count, items, otherFds>>

(* cqi_new, first section under cqi_freelist_lock: take the freelist's    *)
(* head; if it is empty, unlock and go on to malloc a batch.              *)
CqiNew ==
    /\ mpc = "dispatch"
    /\ IF freelist # <<>>
       THEN /\ mitem' = Head(freelist) /\ freelist' = Tail(freelist)
            /\ mpc' = "push"
       ELSE /\ mpc' = "alloc"
            /\ UNCHANGED <<mitem, freelist>>
    /\ UNCHANGED <<backlog, arrived, acceptOn, mfd, last_thread, workers, open,
                   gone, init_count, allocated, otherFds>>

(* The items item[1] .. item[ITEMS_PER_ALLOC-1] of a batch whose item[0]  *)
(* is numbered first, linked in order by cqi_new's loop.                  *)
BatchRest(first) == [i \in 1 .. ItemsPerAlloc - 1 |-> first + i]

(* Mutant: the lock is taken again but the freelist is taken to be still  *)
(* empty: item[ITEMS_PER_ALLOC-1].next = NULL.                             *)
CqiAllocBatchOverwriting ==
    /\ mpc = "alloc"
    /\ mitem' = allocated + 1
    /\ freelist' = BatchRest(allocated + 1)
    /\ allocated' = allocated + ItemsPerAlloc
    /\ mpc' = "push"
    /\ UNCHANGED <<backlog, arrived, acceptOn, mfd, last_thread, workers, open,
                   gone, init_count, otherFds>>

(* cqi_new after a failed pop: malloc ITEMS_PER_ALLOC items, return        *)
(* item[0]; under the lock again, the rest go on top of the freelist as it *)
(* is now (a worker may have freed items since the first section).         *)
CqiAllocBatch ==
    /\ mpc = "alloc"
    /\ mitem' = allocated + 1
    /\ freelist' = BatchRest(allocated + 1) \o freelist
    /\ allocated' = allocated + ItemsPerAlloc
    /\ mpc' = "push"
    /\ UNCHANGED <<backlog, arrived, acceptOn, mfd, last_thread, workers, open,
                   gone, init_count, otherFds>>

(* The queue item dispatch_conn_new fills in for the socket it holds.      *)
NewItem == [sfd |-> mfd, item |-> mitem]

(* dispatch_conn_new up to cq_push: tid = (last_thread + 1) % num_threads. *)
DispatchPush ==
    LET tid == (last_thread + 1) % NumThreads IN
    /\ mpc = "push"
    /\ last_thread' = tid
    /\ cq' = CqPush(tid, NewItem)
    /\ mitem' = 0
    /\ mpc' = "notify"
    /\ UNCHANGED <<backlog, arrived, acceptOn, mfd, pipe, conns, wpc, open,
                   gone, init_count, freelist, allocated, cstructs, otherFds>>

(* Mutant: the byte goes to the next thread, tid recomputed after the push. *)
DispatchNotifyWrongThread ==
    /\ mpc = "notify"
    /\ pipe' = [pipe EXCEPT ![(last_thread + 1) % NumThreads] = @ + 1]
    /\ mpc' = "wait" /\ mfd' = "none"
    /\ UNCHANGED <<backlog, arrived, acceptOn, last_thread, cq, conns, wpc,
                   open, gone, init_count, items, cstructs, otherFds>>

(* Mutant: a failed write to the notify pipe, logged and ignored.          *)
DispatchNotifyLost ==
    /\ mpc = "notify"
    /\ mpc' = "wait" /\ mfd' = "none"
    /\ UNCHANGED <<backlog, arrived, acceptOn, last_thread, cq, pipe, conns,
                   wpc, open, gone, init_count, items, cstructs, otherFds>>

(* dispatch_conn_new: write(notify_send_fd, "c", 1); the loop stops.       *)
DispatchNotify ==
    /\ mpc = "notify"
    /\ pipe' = [pipe EXCEPT ![last_thread] = @ + 1]
    /\ mpc' = "wait" /\ mfd' = "none"
    /\ UNCHANGED <<backlog, arrived, acceptOn, last_thread, cq, conns, wpc,
                   open, gone, init_count, items, cstructs, otherFds>>

(* Mutant: the socket is not closed when conn_new fails.                   *)
ProcessLeakingOnFailure(w) ==
    /\ wpc[w] = "loop" /\ pipe[w] > 0
    /\ pipe' = [pipe EXCEPT ![w] = @ - 1]
    /\ IF cq[w] = <<>>
       THEN UNCHANGED <<cq, freelist>>
       ELSE /\ cq' = CqPop(w)
            /\ freelist' = <<Head(cq[w]).item>> \o freelist
    /\ UNCHANGED <<backlog, arrived, acceptOn, mpc, mfd, last_thread, wpc,
                   conns, open, gone, init_count, allocated, mitem, cstructs,
                   otherFds>>

(* conn_from_freelist finds a conn: freecurr > 0 under conn_lock.          *)
Reused == freeconns # <<>>

(* thread_libevent_process after a failed conn_new: close(item->sfd).      *)
SocketClosedAfterFailure(c) ==
    /\ open' = open - 1
    /\ gone' = gone \cup {c}

(* conn_new for socket c on worker w.  conn_from_freelist pops           *)
(* freeconns[--freecurr], or a new conn is calloc'ed; a failed calloc, or  *)
(* a failed buffer malloc whose conn conn_free releases at once, returns   *)
(* NULL.  A failed event_add puts the conn on the freelist (freetotal, 200, *)
(* is never reached, so conn_add_to_freelist succeeds) and returns NULL.  *)
ConnNew(w, c) ==
    LET id == IF Reused THEN Last(freeconns) ELSE nconns + 1
        rest == IF Reused THEN Front(freeconns) ELSE freeconns
    IN \/ /\ conns' = [conns EXCEPT ![w] = @ \cup {c}]
          /\ connOf' = [connOf EXCEPT ![c] = id]
          /\ freeconns' = rest
          /\ nconns' = IF Reused THEN nconns ELSE nconns + 1
          /\ UNCHANGED <<open, gone>>
       \/ /\ ConnNewFailures /\ ~Reused
          /\ SocketClosedAfterFailure(c)
          /\ UNCHANGED <<conns, connOf, freeconns, nconns>>
       \/ /\ ConnNewFailures
          /\ SocketClosedAfterFailure(c)
          /\ freeconns' = Append(rest, id)
          /\ nconns' = IF Reused THEN nconns ELSE nconns + 1
          /\ UNCHANGED <<conns, connOf>>

(* thread_libevent_process: one byte, one cq_pop, conn_new (the socket is *)
(* closed, without re-enabling accept, if it fails); cqi_free puts the    *)
(* item on top of the freelist.                                            *)
Process(w) ==
    /\ wpc[w] = "loop" /\ pipe[w] > 0
    /\ pipe' = [pipe EXCEPT ![w] = @ - 1]
    /\ IF cq[w] = <<>>
       THEN UNCHANGED <<cq, conns, open, gone, freelist, connOf, freeconns,
                        nconns>>
       ELSE /\ cq' = CqPop(w)
            /\ ConnNew(w, Head(cq[w]).sfd)
            /\ freelist' = <<Head(cq[w]).item>> \o freelist
    /\ UNCHANGED <<backlog, arrived, acceptOn, mpc, mfd, last_thread, wpc,
                   init_count, allocated, mitem, closing, freed, otherFds>>

(* conn_close up to close(c->sfd): the client has gone away; the worker   *)
(* goes on with the conn in hand.                                          *)
CloseConn(w, c) ==
    /\ wpc[w] = "loop" /\ c \in conns[w]
    /\ conns' = [conns EXCEPT ![w] = @ \ {c}]
    /\ open' = open - 1
    /\ gone' = gone \cup {c}
    /\ wpc' = [wpc EXCEPT ![w] = "reaccept"]
    /\ closing' = [closing EXCEPT ![w] = connOf[c]]
    /\ connOf' = [connOf EXCEPT ![c] = 0]
    /\ UNCHANGED <<backlog, arrived, acceptOn, mpc, mfd, last_thread, cq,
                   pipe, init_count, items, freeconns, nconns, freed, otherFds>>

(* Mutant: conn_add_to_freelist's 0 = success taken for true = success:   *)
(* a conn put on the freelist is conn_free'd as well.                      *)
ConnReleaseFreeingPushed(w) ==
    \/ /\ freeconns' = Append(freeconns, closing[w])
       /\ freed' = freed \cup {closing[w]}
    \/ /\ freed' = freed \cup {closing[w]}
       /\ UNCHANGED freeconns

(* The end of conn_close: a conn whose rbuf is past READ_BUFFER_HIGHWAT is *)
(* conn_free'd, any other is pushed by conn_add_to_freelist.  rsize is     *)
(* ConnMachine's business (try_read_network grows it, conn_shrink resets  *)
(* it), so either may happen.                                              *)
ConnRelease(w) ==
    \/ /\ freeconns' = Append(freeconns, closing[w])
       /\ UNCHANGED freed
    \/ /\ freed' = freed \cup {closing[w]}
       /\ UNCHANGED freeconns

(* conn_close: do_accept_new_conns(true) under conn.cpp's conn_lock, which *)
(* does not exclude the main thread's accept_new_conns(false); then the   *)
(* conn is released.                                                       *)
Reaccept(w) ==
    /\ wpc[w] = "reaccept"
    /\ DoAcceptNewConns(TRUE)
    /\ wpc' = [wpc EXCEPT ![w] = "loop"]
    /\ ConnRelease(w)
    /\ closing' = [closing EXCEPT ![w] = 0]
    /\ UNCHANGED <<backlog, arrived, mpc, mfd, last_thread, cq, pipe, conns,
                   open, gone, init_count, items, nconns, connOf, otherFds>>

Main == WaitForThreadRegistration \/ ListenFires \/ Accept \/ DisableAccept
        \/ CqiNew \/ CqiAllocBatch \/ DispatchPush \/ DispatchNotify

(* A worker thread: registration, then its event loop's handlers.         *)
Worker(w) == RegisterThreadInitialized(w) \/ Process(w) \/ Reaccept(w)

Next ==
    \/ \E c \in Clients : Connect(c)
    \/ Main
    \/ \E w \in Workers : Worker(w)
    \/ \E w \in Workers, c \in Clients : CloseConn(w, c)

Spec == Init /\ [][Next]_vars

(* The main thread and each worker run whenever they have work; clients    *)
(* connect and hang up as they please.                                     *)
FairSpec == Spec /\ WF_vars(Main)
            /\ \A w \in Workers : WF_vars(Worker(w))

(* The clients that have been accepted and whose socket is still open.     *)
Accepted == arrived \ (ToSet(backlog) \cup gone)

(* How many times c appears in the workers' queues.                      *)
QueuedCount(q, c) ==
    SumFunction([w \in Workers |-> Len(SelectSeq(q[w], LAMBDA x : x.sfd = c))])

(* Where an accepted socket is held: by the main thread until cq_push,    *)
(* once per appearance in a worker's queue, or as a worker's connection.   *)
Holders(c) ==
    (IF mpc \in {"dispatch", "alloc", "push"} /\ mfd = c THEN 1 ELSE 0)
    + QueuedCount(cq, c) + Cardinality({w \in Workers : c \in conns[w]})

(* Every socket accept() returned is held by exactly one party until it is *)
(* closed, and the EMFILE count (open) is the number of such sockets: a    *)
(* dispatch, a queue or a failed conn_new never loses or duplicates one.   *)
SocketsAccountedFor ==
    /\ \A c \in Accepted : Holders(c) = 1
    /\ \A c \in Clients \ Accepted : Holders(c) = 0
    /\ open = Cardinality(Accepted)

(* Each queued connection has exactly one 'c' byte on its worker's pipe,   *)
(* except the one dispatch_conn_new has pushed but not yet announced: a    *)
(* byte read by thread_libevent_process always finds an item to pop.       *)
WakeupPerItem ==
    \A w \in Workers :
        Len(cq[w]) = pipe[w] + (IF mpc = "notify" /\ last_thread = w THEN 1 ELSE 0)

(* While the server holds fewer sockets than its limit, every client that  *)
(* connects is eventually accepted and installed on a worker (or closed).  *)
ConnectionsServed ==
    \A c \in Clients :
        c \in arrived ~> (c \in gone \/ \E w \in Workers : c \in conns[w])

(* A client waiting in the backlog is eventually accepted unless the       *)
(* process is at its socket limit: the EMFILE back-pressure of             *)
(* conn_listening is lifted again by conn_close.                           *)
AcceptResumes ==
    \A c \in Clients :
        c \in ToSet(backlog) ~> (c \notin ToSet(backlog) \/ FdsFull)

(* thread_init returns: every worker eventually registers and the main     *)
(* thread, asleep on init_cond, is woken by the last registration, so the *)
(* listening socket is created.                                            *)
StartupCompletes == <>(mpc \notin InitPhase)

(* How many places hold queue item i: the freelist, dispatch_conn_new, a  *)
(* worker's connection queue.                                              *)
ItemPlaces(i) ==
    Len(SelectSeq(freelist, LAMBDA x : x = i))
    + (IF mitem = i THEN 1 ELSE 0)
    + SumFunction([w \in Workers |-> Len(SelectSeq(cq[w], LAMBDA r : r.item = i))])

(* Every CQ_ITEM ever malloc'ed is in exactly one place: cqi_new's two     *)
(* lock sections, with the worker's cqi_free between them, neither lose a *)
(* freed item (a leak) nor hand one item out twice (two connections'      *)
(* data in one item).                                                      *)
ItemsOwnedOnce == \A i \in 1 .. allocated : ItemPlaces(i) = 1

(* How many places hold conn struct id: the conn freelist, an installed   *)
(* connection, a worker's conn_close, conn_free.                           *)
ConnPlaces(id) ==
    Len(SelectSeq(freeconns, LAMBDA x : x = id))
    + Cardinality({c \in Clients : connOf[c] = id})
    + Cardinality({w \in Workers : closing[w] = id})
    + (IF id \in freed THEN 1 ELSE 0)

(* The workers share one conn freelist under conn_lock: every conn struct *)
(* ever calloc'ed is in exactly one place (never used by two connections, *)
(* never freed while on the freelist, never lost), and a client has a     *)
(* conn exactly while a worker has it installed.                           *)
ConnsOwnedOnce ==
    /\ \A id \in 1 .. nconns : ConnPlaces(id) = 1
    /\ \A c \in Clients : (connOf[c] # 0) <=> \E w \in Workers : c \in conns[w]

=============================================================================
