---------------------------- MODULE ConnMachine ----------------------------
(***************************************************************************)
(* One binary-protocol connection on its worker thread: drive_machine      *)
(* (src/server/server.cpp) with try_read_network, try_read_command,        *)
(* bin_read_key, complete_nread, transmit, conn_shrink, conn_close and     *)
(* conn_new, against a client that writes a fixed stream of requests in    *)
(* chunks of any size and may half-close its side.                         *)
(*                                                                         *)
(* Sizes are in abstract bytes: HeaderSize stands for the 8-byte request  *)
(* header, NumberSize for the u32 max_number, DataBufferSize and           *)
(* ReadBufferHighwat for DATA_BUFFER_SIZE and READ_BUFFER_HIGHWAT.  The    *)
(* read buffer holds, at each offset, the tag of the stream byte stored    *)
(* there (0 for bytes no read has written), so every memmove, realloc and  *)
(* cursor update is checked against what the client actually sent.        *)
(***************************************************************************)
EXTENDS Naturals, Sequences, SequencesExt

CONSTANTS
    Reqs,               \* the client's requests: [magic, bodylen, miss]
    HeaderSize,         \* sizeof(request_header)
    NumberSize,         \* sizeof(uint32_t) max_number at the start of a body
    DataBufferSize,     \* DATA_BUFFER_SIZE: initial rsize
    ReadBufferHighwat,  \* READ_BUFFER_HIGHWAT
    ReqsPerEvent,       \* g_settings.reqs_per_event
    RespSize,           \* bytes of a query's result buffer (rlen)
    Mtu,                \* UDP_MAX_PAYLOAD_SIZE, in the same units
    MaxConns,           \* connections the client opens one after another
    AllocFailures,      \* whether malloc/realloc may fail
    EventFailures       \* whether event_del/event_add may fail

ASSUME /\ Reqs \in Seq([magic : {"REQ", "BAD"}, bodylen : Nat,
                        miss : BOOLEAN])
       /\ {HeaderSize, NumberSize, DataBufferSize, RespSize, Mtu, MaxConns}
            \subseteq Nat \ {0}
       /\ HeaderSize < DataBufferSize /\ DataBufferSize < ReadBufferHighwat
       /\ ReqsPerEvent \in Int
       /\ {AllocFailures, EventFailures} \subseteq BOOLEAN

ReqLen(k) == HeaderSize + Reqs[k].bodylen

\* 1-based stream position of the first header byte of request k.
RECURSIVE StartOf(_)
StartOf(k) == IF k = 1 THEN 1 ELSE StartOf(k - 1) + ReqLen(k - 1)

StreamLen == StartOf(Len(Reqs) + 1) - 1

\* Requests up to the first one with a bad magic are answered.
FirstBad == IF SelectInSeq(Reqs, LAMBDA r : r.magic = "BAD") = 0
            THEN Len(Reqs) + 1
            ELSE SelectInSeq(Reqs, LAMBDA r : r.magic = "BAD")

States == {"new_cmd", "waiting", "read", "parse_cmd", "nread", "write",
           "mwrite", "closing", "closed"}

VARIABLES
    state, running, nreqs, evflags,         \* drive_machine and its event
    rsize, rcurr, rbytes, ritem, rlbytes,   \* read buffer cursors (offsets)
    buf,                                    \* read buffer contents (tags)
    hdr,                                    \* binary_header: parsed request
    ml, wfree, wgo, resp,                   \* response being transmitted
    out,                                    \* responses fully sent
    sent, rd, peerClosed, gen, closedBy,    \* the client and its socket
    freelisted                              \* conn struct on the freelist

cursors  == <<rsize, rcurr, rbytes, ritem, rlbytes, buf>>
writing  == <<ml, wfree, wgo, resp>>
client   == <<sent, rd, peerClosed, gen>>
vars == <<state, running, nreqs, evflags, cursors, hdr, writing, out,
          client, closedBy, freelisted>>

\* Tag of stream position p of the current connection.
Tag(p) == gen * StreamLen + p

\* Tags of the n bytes stored from offset off on.
Stored(b, off, n) == [i \in 1..n |-> b[off + i]]

Expected(first, n) == [i \in 1..n |-> Tag(first + i - 1)]

\* memmove(b + dst, b + src, n): reads the original contents.
MemMove(b, dst, src, n) ==
    [i \in DOMAIN b |-> IF dst < i /\ i <= dst + n THEN b[i - dst + src]
                        ELSE b[i]]

\* realloc to size n keeps the first n bytes; new bytes are undefined.
Resize(b, n) == [i \in 1..n |-> IF i <= Len(b) THEN b[i] ELSE 0]

\* read(fd, b + off, n): the next n bytes of the socket land at off.
Fill(b, off, n) == [i \in DOMAIN b |-> IF off < i /\ i <= off + n
                                      THEN Tag(rd + i - off) ELSE b[i]]

Avail == sent - rd

\* A response; got counts its bytes the client has received, onwire says
\* whether they were the right ones.
Resp(k, kind) == [req |-> k, kind |-> kind, intact |-> TRUE, got |-> 0,
                  onwire |-> TRUE]

\* Sizes of the other reply pieces, each well below UDP_MAX_PAYLOAD_SIZE:
\* the 24-byte response header, "Out of memory", a SERVER_ERROR line.
ResHeaderSize == 1
ErrSize == 1
TextSize == 1

IOV_MAX == 1024

\* The buffers a reply's iovecs point into: wbuf (header or text line),
\* the write_and_free result buffer, write_bin_error's string constant.
Bufs == {"wbuf", "resp", "errstr"}

\* A byte of a reply is named by its buffer and its offset in it.
Bytes(b, o, n) == [i \in 1..n |-> <<b, o + i - 1>>]

\* What the client must receive for a response, byte by byte.
ReplyBytes(r) ==
    CASE r.kind = "text"   -> Bytes("wbuf", 0, TextSize)
      [] r.kind = "reply"  -> Bytes("wbuf", 0, ResHeaderSize)
                                \o Bytes("resp", 0, RespSize)
      [] r.kind = "enomem" -> Bytes("wbuf", 0, ResHeaderSize)
                                \o Bytes("errstr", 0, ErrSize)
      [] OTHER             -> <<>>

\* The conn's output lists: iov[] (iovused = Len(iov)) of iovecs
\* [buf, off, len], msglist[] (msgused = Len(msgs)) of msghdrs whose msg_iov
\* points at iov[first] and has msg_iovlen iovecs, msgcurr (0-based) and
\* msgbytes.  msglist and iov never need more than their initial 10 and
\* 400 entries (a reply has at most three iovecs), so the reallocs of
\* add_msghdr, ensure_iov_space and conn_shrink are not modelled.
NoMsgs == [iov |-> <<>>, msgs |-> <<>>, msgcurr |-> 0, msgbytes |-> 0]

\* add_msghdr (server.cpp:62-93): a new msghdr starting at iov[iovused].
AddMsghdr(l) == [l EXCEPT !.msgs = Append(@, [first |-> Len(l.iov) + 1,
                                              iovlen |-> 0]),
                          !.msgbytes = 0]

\* add_iov (server.cpp:132-195), one do-while pass per call: the first
\* msghdr is limited to UDP_MAX_PAYLOAD_SIZE bytes (limit_to_mtu is taken
\* before a new msghdr is started), a fragment over the limit is split and
\* its leftover goes round again.
RECURSIVE AddIov(_, _, _, _)
AddIov(l, b, o, n) ==
    LET limit == Len(l.msgs) = 1
        l1 == IF l.msgs[Len(l.msgs)].iovlen = IOV_MAX
                 \/ (limit /\ l.msgbytes >= Mtu)
              THEN AddMsghdr(l) ELSE l
        leftover == IF limit /\ n + l1.msgbytes > Mtu
                    THEN n + l1.msgbytes - Mtu ELSE 0
        len == n - leftover
        l2 == [l1 EXCEPT !.iov = Append(@, [buf |-> b, off |-> o, len |-> len]),
                         !.msgbytes = @ + len,
                         !.msgs[Len(l1.msgs)].iovlen = @ + 1]
    IN IF leftover > 0 THEN AddIov(l2, b, o + len, leftover) ELSE l2

\* conn_write (server.cpp:897-916): the text line in wbuf is put in the
\* msghdr out_string started, unless a previous pass already did.
Assembled ==
    IF state = "write" /\ ml.iov = <<>> THEN AddIov(ml, "wbuf", 0, TextSize)
    ELSE ml

\* transmit's first test (server.cpp:583-588): a msghdr whose iovecs are
\* all written is passed over.
Advanced(l) ==
    IF l.msgcurr < Len(l.msgs) /\ l.msgs[l.msgcurr + 1].iovlen = 0
    THEN [l EXCEPT !.msgcurr = @ + 1] ELSE l

\* The bytes msghdr m would make sendmsg write.
MsgBytes(l, m) ==
    FlattenSeq([j \in 1..m.iovlen |->
                  LET f == l.iov[m.first + j - 1] IN Bytes(f.buf, f.off, f.len)])

\* Mutant: a partly written iovec is advanced but not shortened.
RECURSIVE ConsumedKeepingLen(_, _, _)
ConsumedKeepingLen(l, i, res) ==
    LET m == l.msgs[i]
        f == l.iov[m.first]
    IN IF m.iovlen > 0 /\ res >= f.len
       THEN ConsumedKeepingLen([l EXCEPT !.msgs[i] = [first |-> m.first + 1,
                                                   iovlen |-> m.iovlen - 1]],
                               i, res - f.len)
       ELSE IF res > 0 THEN [l EXCEPT !.iov[m.first].off = @ + res]
       ELSE l

\* transmit after sendmsg wrote res bytes of msghdr i (server.cpp:596-611):
\* the iovecs written whole are dropped from the msghdr (msg_iov++,
\* msg_iovlen--), and a partly written one is moved on by the rest.
RECURSIVE Consumed(_, _, _)
Consumed(l, i, res) ==
    LET m == l.msgs[i]
        f == l.iov[m.first]
    IN IF m.iovlen > 0 /\ res >= f.len
       THEN Consumed([l EXCEPT !.msgs[i] = [first |-> m.first + 1,
                                          iovlen |-> m.iovlen - 1]],
                     i, res - f.len)
       ELSE IF res > 0 THEN [l EXCEPT !.iov[m.first] = [f EXCEPT !.off = @ + res,
                                                               !.len = @ - res]]
       ELSE l

TypeOK ==
    /\ state \in States /\ running \in BOOLEAN /\ nreqs \in Int
    /\ evflags \in {"read", "write", "none"}
    /\ rsize \in Nat \ {0} /\ Len(buf) = rsize
    /\ {rcurr, rbytes, ritem, rlbytes} \subseteq Nat
    /\ hdr \in [req : 0..Len(Reqs), aligned : BOOLEAN]
    /\ ml \in [iov : Seq([buf : Bufs, off : Nat, len : Nat]),
              msgs : Seq([first : Nat \ {0}, iovlen : 0..IOV_MAX]),
              msgcurr : Nat, msgbytes : Nat]
    /\ wfree \in BOOLEAN
    /\ wgo \in {"new_cmd", "closing"}
    /\ sent \in 0..StreamLen /\ rd \in 0..sent /\ peerClosed \in BOOLEAN
    /\ gen \in 0..MaxConns - 1
    /\ closedBy \in {"none", "eof", "protocol", "error"}
    /\ freelisted \in BOOLEAN

\* dispatch_conn_new(sfd, conn_new_cmd, EV_READ | EV_PERSIST,
\* DATA_BUFFER_SIZE): a fresh conn (conn_new, conn.cpp:79-170).
Init ==
    /\ state = "new_cmd" /\ running = FALSE /\ nreqs = ReqsPerEvent
    /\ evflags = "read"
    /\ rsize = DataBufferSize /\ buf = [i \in 1..DataBufferSize |-> 0]
    /\ rcurr = 0 /\ rbytes = 0 /\ ritem = 0 /\ rlbytes = 0
    /\ hdr = [req |-> 0, aligned |-> TRUE]
    /\ ml = NoMsgs /\ wfree = FALSE /\ wgo = "new_cmd"
    /\ resp = Resp(0, "none") /\ out = <<>>
    /\ sent = 0 /\ rd = 0 /\ peerClosed = FALSE /\ gen = 0
    /\ closedBy = "none" /\ freelisted = FALSE

-----------------------------------------------------------------------------
(* The event loop and the client                                           *)

\* Libevent calls event_handler -> drive_machine when the registered event
\* is ready; drive_machine starts with nreqs = reqs_per_event.
Ready == CASE evflags = "read"  -> Avail > 0 \/ peerClosed
           [] evflags = "write" -> TRUE
           [] evflags = "none"  -> FALSE

EventFires ==
    /\ ~running /\ state # "closed" /\ Ready
    /\ running' = TRUE /\ nreqs' = ReqsPerEvent
    /\ UNCHANGED <<state, evflags, cursors, hdr, writing, out, client,
                   closedBy, freelisted>>

\* The client writes the next n bytes of its request stream.
ClientSend ==
    /\ ~peerClosed
    /\ \E n \in 1..(StreamLen - sent) : sent' = sent + n
    /\ UNCHANGED <<state, running, nreqs, evflags, cursors, hdr, writing,
                   out, rd, peerClosed, gen, closedBy, freelisted>>

\* The client shuts down its sending side after the whole stream.
ClientShutdown ==
    /\ sent = StreamLen /\ ~peerClosed
    /\ peerClosed' = TRUE
    /\ UNCHANGED <<state, running, nreqs, evflags, cursors, hdr, writing,
                   out, sent, rd, gen, closedBy, freelisted>>

\* update_event (network.cpp:135-156): no-op when the flags are already
\* set; otherwise event_del/event_add, either of which may fail.
\* A failed event_del leaves the old event registered; a failed event_add
\* leaves none ("none").
Arm(f, ok, failed) ==
    \/ evflags' = f /\ ok
    \/ /\ EventFailures /\ evflags # f
       /\ evflags' \in {evflags, "none"}
       /\ failed

\* conn_set_state(c, conn_closing) for a reason.
Close(why) == state' = "closing" /\ closedBy' = why

-----------------------------------------------------------------------------
(* drive_machine, one pass of its while (!stop) loop per action            *)

\* case conn_waiting (server.cpp:702-715).
Waiting ==
    /\ running /\ state = "waiting"
    /\ Arm("read", state' = "read" /\ running' = FALSE /\ closedBy' = closedBy,
                   Close("error") /\ running' = running)
    /\ UNCHANGED <<nreqs, cursors, hdr, writing, out, client, freelisted>>

\* try_read_network's loop (network.cpp:42-95) from rbytes = n in a buffer
\* of size sz, having taken `taken` bytes of the socket: the set of its
\* possible outcomes.  A full buffer is doubled at most four times; each
\* realloc may fail, which drops what was read (rbytes = 0).
RECURSIVE ReadLoop(_, _, _, _, _, _)
ReadLoop(sz, n, b, allocs, taken, got) ==
    LET Result(res, m, bb) ==
            [rsize |-> sz, rbytes |-> m, buf |-> bb, taken |-> taken,
             res |-> res]
    IN IF n >= sz
       THEN IF allocs = 4 THEN {Result(got, n, b)}
            ELSE ReadLoop(2 * sz, n, Resize(b, 2 * sz), allocs + 1, taken, got)
                 \cup (IF AllocFailures THEN {Result("memory", 0, b)} ELSE {})
       ELSE LET space == sz - n
                r == Min({Avail - taken, space})
                b2 == [i \in DOMAIN b |-> IF n < i /\ i <= n + r
                                          THEN Tag(rd + taken + i - n)
                                          ELSE b[i]]
            IN IF r = 0
               THEN {Result(IF peerClosed THEN "eof" ELSE got, n, b)}
               ELSE IF r = space
                    THEN ReadLoop(sz, n + r, b2, allocs, taken + r, "data")
                    ELSE {[Result("data", n + r, b2) EXCEPT !.taken = taken + r]}

\* out_string(c, "SERVER_ERROR ..."): the partial output is dropped, a
\* msghdr started, the text line copied to wbuf, then write_and_go.
OutString(go) ==
    /\ state' = "write" /\ wgo' = go
    /\ ml' = AddMsghdr(NoMsgs) /\ resp' = Resp(0, "text")

\* Mutant: the unparsed bytes are not moved to the front of rbuf.
CompactSkipped == buf

\* try_read_network's prologue (network.cpp:33-40): memmove the unparsed
\* bytes to the front of rbuf.
Compacted == IF rcurr # 0 /\ rbytes # 0 THEN MemMove(buf, 0, rcurr, rbytes)
             ELSE buf

\* case conn_read (server.cpp:717-735) with try_read_network
\* (network.cpp:26-96): the unparsed bytes are moved to the front, then the
\* socket is read until it runs dry or the buffer cannot grow.
Read ==
    /\ running /\ state = "read"
    /\ \E o \in ReadLoop(rsize, rbytes, Compacted, 0, 0, "nodata") :
            /\ rsize' = o.rsize /\ rbytes' = o.rbytes /\ buf' = o.buf
            /\ rcurr' = 0 /\ rd' = rd + o.taken
            /\ CASE o.res = "nodata" ->
                      state' = "waiting" /\ UNCHANGED <<writing, closedBy>>
                 [] o.res = "data" ->
                      state' = "parse_cmd" /\ UNCHANGED <<writing, closedBy>>
                 [] o.res = "eof" ->
                      Close("eof") /\ UNCHANGED writing
                 [] o.res = "memory" ->
                      /\ OutString("closing")
                      /\ UNCHANGED <<wfree, closedBy>>
    /\ UNCHANGED <<running, nreqs, evflags, ritem, rlbytes, hdr, out, sent,
                   peerClosed, gen, freelisted>>

\* Smallest doubling of n that holds size (bin_read_key's while loop).
RECURSIVE Grown(_, _)
Grown(n, size) == IF size > n THEN Grown(2 * n, size) ELSE n

\* Mutant: the room check forgets the header still in front of the body.
HasRoomIgnoringHeader(len) == len <= rsize - rcurr

\* bin_read_key's test (server.cpp:443-444): does a body of len bytes fit
\* after the header at rcurr?
HasRoom(len) == len <= rsize - (rcurr + HeaderSize)

\* The request whose bytes include stream position p.
ReqAt(p) == CHOOSE k \in 1..Len(Reqs) : StartOf(k) <= p /\ p < StartOf(k + 1)

\* case conn_parse_cmd (server.cpp:737-744) with try_read_command
\* (server.cpp:503-568), dispatch_bin_command and bin_read_key
\* (server.cpp:437-498).  The header at rcurr is parsed; hdr records which
\* request's header it really is.  bin_read_key makes room for the body
\* (growing rbuf by doublings and moving the packet to its front) before
\* try_read_command steps rcurr past the header.
ParseCmd ==
    /\ running /\ state = "parse_cmd"
    /\ IF rbytes < HeaderSize
       THEN state' = "waiting"
            /\ UNCHANGED <<cursors, hdr, closedBy>>
       ELSE LET p == buf[rcurr + 1] - gen * StreamLen
                k == IF p \in 1..StreamLen THEN ReqAt(p) ELSE 0
                aligned == k # 0 /\ Stored(buf, rcurr, HeaderSize)
                                      = Expected(StartOf(k), HeaderSize)
                bodylen == Reqs[k].bodylen
                offset == rcurr + HeaderSize
                nsize == Grown(rsize, bodylen + HeaderSize)
                growFails == {FALSE} \cup (IF AllocFailures /\ nsize # rsize
                                           THEN {TRUE} ELSE {})
            IN /\ hdr' = [req |-> k, aligned |-> aligned]
               /\ IF ~aligned \/ Reqs[k].magic = "BAD"
                  THEN Close("protocol") /\ UNCHANGED cursors
                  ELSE /\ rlbytes' = bodylen
                       /\ \E fail \in growFails :
                          IF HasRoom(bodylen)
                          THEN /\ state' = "nread" /\ ritem' = offset
                               /\ rcurr' = offset
                               /\ rbytes' = rbytes - HeaderSize
                               /\ UNCHANGED <<rsize, buf, closedBy>>
                          ELSE IF fail
                          THEN /\ Close("error")
                               /\ rcurr' = offset
                               /\ rbytes' = rbytes - HeaderSize
                               /\ UNCHANGED <<rsize, buf, ritem>>
                          ELSE /\ rsize' = nsize
                               /\ buf' = MemMove(Resize(buf, nsize), 0, rcurr,
                                                 rbytes)
                               /\ state' = "nread"
                               /\ ritem' = HeaderSize /\ rcurr' = HeaderSize
                               /\ rbytes' = rbytes - HeaderSize
                               /\ UNCHANGED closedBy
    /\ UNCHANGED <<running, nreqs, evflags, writing, out, client, freelisted>>

\* Mutant: rsize is set to DATA_BUFFER_SIZE whether or not realloc worked.
ShrunkIgnoringFailure(fail) ==
    IF rsize > ReadBufferHighwat /\ rbytes < DataBufferSize
    THEN LET b == IF rcurr # 0 THEN MemMove(buf, 0, rcurr, rbytes) ELSE buf
         IN [rsize |-> DataBufferSize,
             buf |-> IF fail THEN b ELSE Resize(b, DataBufferSize),
             rcurr |-> 0]
    ELSE [rsize |-> rsize, buf |-> buf, rcurr |-> rcurr]

\* conn_shrink (conn.cpp:249-293) on the read buffer: an oversized, nearly
\* empty rbuf is moved to its front and cut back to DATA_BUFFER_SIZE; if
\* that realloc fails the old block stays.  (The msglist and iov lists are
\* not modelled: no response here needs more than their initial sizes.)
Shrunk(fail) ==
    IF rsize > ReadBufferHighwat /\ rbytes < DataBufferSize
    THEN LET b == IF rcurr # 0 THEN MemMove(buf, 0, rcurr, rbytes) ELSE buf
         IN [rsize |-> IF fail THEN rsize ELSE DataBufferSize,
             buf |-> IF fail THEN b ELSE Resize(b, DataBufferSize),
             rcurr |-> 0]
    ELSE [rsize |-> rsize, buf |-> buf, rcurr |-> rcurr]

\* Mutant: the yield does not arm EV_WRITE for buffered input.
YieldWithoutWrite == running' = FALSE /\ UNCHANGED <<state, evflags, closedBy>>

\* The nreqs < 0 branch of conn_new_cmd (server.cpp:754-774): stop, and if
\* input is already buffered arm EV_WRITE, which is writable at once, so
\* that the loop comes back to it.
Yield ==
    /\ running' = FALSE
    /\ IF rbytes > 0
       THEN Arm("write", UNCHANGED <<state, closedBy>>, Close("error"))
       ELSE UNCHANGED <<state, evflags, closedBy>>

\* case conn_new_cmd (server.cpp:746-775) with reset_cmd_handler
\* (server.cpp:322-335).  After reqs_per_event commands in one wakeup the
\* worker yields, arming EV_WRITE if input is already buffered.
NewCmd ==
    /\ running /\ state = "new_cmd"
    /\ nreqs' = nreqs - 1
    /\ IF nreqs - 1 >= 0
       THEN /\ \E fail \in {FALSE} \cup (IF AllocFailures THEN {TRUE} ELSE {}) :
                 LET s == Shrunk(fail)
                 IN rsize' = s.rsize /\ buf' = s.buf /\ rcurr' = s.rcurr
            /\ state' = IF rbytes > 0 THEN "parse_cmd" ELSE "waiting"
            /\ UNCHANGED <<running, evflags, closedBy>>
       ELSE Yield /\ UNCHANGED <<rsize, buf, rcurr>>
    /\ UNCHANGED <<rbytes, ritem, rlbytes, hdr, writing, out, client,
                   freelisted>>

\* add_bin_header plus write_bin_error(c, err, 0) or write_bin_response
\* (server.cpp:232-320): the output lists are reset and a msghdr started,
\* the header in wbuf and the body (both never empty) are added with
\* add_iov; conn_mwrite, and write_and_go = conn_new_cmd (swallow is 0).
WriteBinResponse(r, free) ==
    LET body == IF r.kind = "reply" THEN [b |-> "resp", n |-> RespSize]
                ELSE [b |-> "errstr", n |-> ErrSize]
    IN /\ resp' = r /\ wfree' = free
       /\ ml' = AddIov(AddIov(AddMsghdr(NoMsgs), "wbuf", 0, ResHeaderSize),
                       body.b, 0, body.n)
       /\ state' = "mwrite" /\ wgo' = "new_cmd"

\* complete_nread (server.cpp:351-418): the body ends at ritem.  Get fails
\* (-1) for an empty query line and for a query none of whose characters
\* romanize; a body shorter than max_number makes the key whatever
\* follows in memory, so either outcome is possible.  A failed Get or
\* calloc is answered by write_bin_error(ENOMEM, 0); otherwise the reply
\* buffer becomes write_and_free.  Either way: conn_mwrite, then new_cmd.
CompleteNread ==
    LET k == hdr.req
        vlen == Reqs[k].bodylen
        intact == Stored(buf, ritem - vlen, vlen)
                    = Expected(StartOf(k) + HeaderSize, vlen)
        getOk == CASE vlen < NumberSize  -> {TRUE, FALSE}
                   [] vlen = NumberSize  -> {FALSE}
                   [] OTHER              -> {~Reqs[k].miss}
        callocOk == {TRUE} \cup (IF AllocFailures THEN {FALSE} ELSE {})
    IN \E ok \in getOk, mem \in callocOk :
         WriteBinResponse([req |-> k, kind |-> IF ok /\ mem THEN "reply"
                                                           ELSE "enomem",
                           intact |-> intact, got |-> 0, onwire |-> TRUE],
                          ok /\ mem)

\* case conn_nread (server.cpp:777-843): complete the body from the bytes
\* already buffered, then from the socket.
Nread ==
    /\ running /\ state = "nread"
    /\ IF rlbytes = 0
       THEN CompleteNread /\ UNCHANGED <<running, evflags, cursors, rd, closedBy>>
       ELSE LET tocopy == IF rbytes > 0 THEN Min({rbytes, rlbytes}) ELSE 0
                b1 == IF tocopy > 0 /\ ritem # rcurr
                      THEN MemMove(buf, ritem, rcurr, tocopy) ELSE buf
                item1 == ritem + tocopy
                left1 == rlbytes - tocopy
                curr1 == rcurr + tocopy
                r == Min({Avail, left1})
            IN /\ rbytes' = rbytes - tocopy
               /\ IF left1 = 0 \/ r > 0
                  THEN /\ buf' = Fill(b1, item1, r)
                       /\ ritem' = item1 + r /\ rlbytes' = left1 - r
                       /\ rcurr' = IF curr1 = item1 THEN curr1 + r ELSE curr1
                       /\ rd' = rd + r
                       /\ UNCHANGED <<state, running, evflags, closedBy>>
                  ELSE /\ buf' = b1 /\ ritem' = item1 /\ rlbytes' = left1
                       /\ rcurr' = curr1 /\ rd' = rd
                       /\ IF peerClosed
                          THEN Close("eof") /\ UNCHANGED <<running, evflags>>
                          ELSE Arm("read", running' = FALSE
                                             /\ UNCHANGED <<state, closedBy>>,
                                   Close("error") /\ running' = running)
            /\ UNCHANGED <<rsize, writing>>
    /\ UNCHANGED <<nreqs, hdr, out, sent, peerClosed, gen, freelisted>>

\* The output lists as transmit finds them in this pass.
Pending == Advanced(Assembled)

\* case conn_write / conn_mwrite (server.cpp:897-966) with transmit
\* (server.cpp:579-614).  sendmsg writes res bytes of the current msghdr,
\* which the client receives after those it already has; the response is
\* delivered once its last byte is received.
TransmitSome ==
    /\ running /\ state \in {"write", "mwrite"}
    /\ Pending.msgcurr < Len(Pending.msgs)
    /\ LET i == Pending.msgcurr + 1
           bytes == MsgBytes(Pending, Pending.msgs[i])
           want == ReplyBytes(resp)
       IN \E res \in 1..Len(bytes) :
            LET got == resp.got + res
                r == [resp EXCEPT !.got = got,
                                  !.onwire = @ /\ got <= Len(want)
                                             /\ SubSeq(bytes, 1, res)
                                                = SubSeq(want, resp.got + 1, got)]
            IN /\ ml' = Consumed(Pending, i, res)
               /\ resp' = r
               /\ out' = IF got = Len(want) THEN Append(out, r) ELSE out
    /\ UNCHANGED <<state, running, nreqs, evflags, cursors, hdr, wfree, wgo,
                   client, closedBy, freelisted>>

\* sendmsg returns EAGAIN: wait for EV_WRITE (TRANSMIT_SOFT_ERROR), or
\* close if the event cannot be re-armed (TRANSMIT_HARD_ERROR).
TransmitBlocked ==
    /\ running /\ state \in {"write", "mwrite"}
    /\ Pending.msgcurr < Len(Pending.msgs)
    /\ ml' = Pending
    /\ Arm("write", running' = FALSE /\ UNCHANGED <<state, closedBy>>,
                    Close("error") /\ running' = running)
    /\ UNCHANGED <<nreqs, cursors, hdr, wfree, wgo, resp, out, client,
                   freelisted>>

\* TRANSMIT_COMPLETE.  In conn_mwrite the commented-out write_and_go
\* branch leaves `else` bound to `if (write_and_free)`: freeing the reply
\* costs one more pass, and the next state is always conn_new_cmd.
\* conn_write frees and goes to write_and_go.
TransmitDone ==
    /\ running /\ state \in {"write", "mwrite"}
    /\ Pending.msgcurr >= Len(Pending.msgs)
    /\ ml' = Pending /\ wfree' = FALSE
    /\ IF state = "mwrite"
       THEN state' = (IF wfree THEN "mwrite" ELSE "new_cmd")
            /\ UNCHANGED closedBy
       ELSE state' = wgo
            /\ closedBy' = IF wgo = "closing" THEN "error" ELSE closedBy
    /\ UNCHANGED <<running, nreqs, evflags, cursors, hdr, wgo, resp,
                   out, client, freelisted>>

\* case conn_closing (server.cpp:968-971), conn_close (conn.cpp:214-239):
\* the event is deleted, write_and_free released, and the conn pushed on
\* the freelist unless its rbuf grew past READ_BUFFER_HIGHWAT (or growing
\* the freelist array fails).
Closing ==
    /\ running /\ state = "closing"
    /\ state' = "closed" /\ running' = FALSE /\ evflags' = "none"
    /\ wfree' = FALSE
    /\ \E added \in {TRUE} \cup (IF AllocFailures THEN {FALSE} ELSE {}) :
          freelisted' = (rsize <= ReadBufferHighwat /\ added)
    /\ UNCHANGED <<nreqs, cursors, hdr, ml, wgo, resp, out, client,
                   closedBy>>

\* The client connects again; the dispatcher's conn_new (conn.cpp:79-170)
\* takes the conn from the freelist, keeping its rbuf and rsize, or
\* allocates a fresh one, and resets the cursors.
ConnNew ==
    /\ state = "closed" /\ gen < MaxConns - 1
    /\ state' = "new_cmd" /\ evflags' = "read" /\ freelisted' = FALSE
    /\ IF freelisted THEN UNCHANGED <<rsize, buf>>
       ELSE rsize' = DataBufferSize /\ buf' = [i \in 1..DataBufferSize |-> 0]
    /\ rcurr' = 0 /\ rbytes' = 0 /\ ritem' = 0 /\ rlbytes' = 0
    /\ ml' = [ml EXCEPT !.iov = <<>>, !.msgs = <<>>, !.msgcurr = 0]
    /\ wfree' = FALSE /\ wgo' = "new_cmd"
    /\ gen' = gen + 1 /\ sent' = 0 /\ rd' = 0 /\ peerClosed' = FALSE
    /\ out' = <<>> /\ closedBy' = "none"
    /\ UNCHANGED <<running, nreqs, hdr, resp>>

\* The client has opened its last connection and it is closed.
Done == state = "closed" /\ gen = MaxConns - 1 /\ UNCHANGED vars

DriveStep ==
    \/ Waiting \/ Read \/ ParseCmd \/ NewCmd \/ Nread
    \/ TransmitSome \/ TransmitBlocked \/ TransmitDone \/ Closing

Next ==
    \/ EventFires \/ DriveStep
    \/ ClientSend \/ ClientShutdown \/ ConnNew \/ Done

\* The worker's loop keeps running drive_machine while it does not stop,
\* and libevent delivers a ready event; the client eventually drains its
\* socket, so sendmsg cannot return EAGAIN forever.
Fairness ==
    /\ WF_vars(EventFires)
    /\ WF_vars(Waiting \/ Read \/ ParseCmd \/ NewCmd \/ Nread
               \/ TransmitDone \/ Closing)
    /\ SF_vars(TransmitSome)

Spec == Init /\ [][Next]_vars

FairSpec == Spec /\ Fairness

-----------------------------------------------------------------------------
(* Properties                                                              *)

\* Spec section 8: while a connection is live its unparsed bytes lie inside
\* rbuf, and the body being read (ritem, rlbytes) fits the buffer, across
\* every read, memmove, growth and shrink.
BufferBounds ==
    state \notin {"closing", "closed"} =>
        /\ rcurr + rbytes <= rsize
        /\ state = "nread" => ritem + rlbytes <= rsize

\* Every header drive_machine parses is the header of a request of the
\* current connection, and the k-th response answers the k-th request
\* with exactly that request's body bytes, however the stream was split
\* into reads and however the buffer was moved, grown, shrunk or reused.
FramingPreserved ==
    /\ hdr.aligned
    /\ \A i \in 1..Len(out) :
          out[i].kind # "text" => out[i].req = i /\ out[i].intact

\* A client that sends complete requests and then shuts down its side gets
\* every one of them answered before the server closes on end of stream.
NoRequestLostAtEof ==
    (state = "closed" /\ closedBy = "eof") => Len(out) = FirstBad - 1

\* Once the client has sent its whole stream, each request before the
\* first bad one is eventually answered, or the connection is closed.
RequestsAnswered ==
    (sent = StreamLen) ~> (Len(out) >= FirstBad - 1 \/ state = "closed")

\* A connection that enters conn_closing is eventually closed (its fd and
\* conn released).
ClosingCompletes == (state = "closing") ~> (state = "closed")

\* Every response reaches the client as its header then its body, byte
\* for byte, however add_iov split it at UDP_MAX_PAYLOAD_SIZE into
\* msghdrs and however sendmsg cut it, down to the middle of an iovec.
ReplyOnWire ==
    /\ resp.onwire
    /\ \A i \in 1..Len(out) : out[i].onwire /\ out[i].got = Len(ReplyBytes(out[i]))

=============================================================================
