--------------------------- MODULE MCConnMachine ---------------------------
(* Request streams for model checking ConnMachine.                         *)
EXTENDS ConnMachine

Req(m, n, miss) == [magic |-> m, bodylen |-> n, miss |-> miss]

\* A short query, one whose body forces rbuf past READ_BUFFER_HIGHWAT, and
\* a query that romanizes to nothing.
GrowStream == <<Req("REQ", 1, FALSE), Req("REQ", 7, FALSE),
                Req("REQ", 2, TRUE)>>

\* Two requests that together exactly fill the initial buffer.
FillStream == <<Req("REQ", 1, FALSE), Req("REQ", 1, FALSE)>>

\* Two pipelined requests followed by garbage.
BadStream == <<Req("REQ", 1, FALSE), Req("REQ", 1, TRUE),
               Req("BAD", 1, FALSE)>>
====
