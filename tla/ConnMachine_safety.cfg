\* Framing and buffer bounds with allocation failures, growth past the
\* high-water mark, shrink and reuse of the conn for a second connection;
\* and, under the fairness of the worker loop, every request of the stream
\* is answered unless the connection is closed.
CONSTANTS
    Reqs <- GrowStream
    HeaderSize = 2
    NumberSize = 1
    DataBufferSize = 4
    ReadBufferHighwat = 8
    ReqsPerEvent = 1
    RespSize = 3
    Mtu = 2
    MaxConns = 2
    AllocFailures = TRUE
    EventFailures = FALSE
SPECIFICATION FairSpec
INVARIANT TypeOK BufferBounds FramingPreserved ReplyOnWire
PROPERTY RequestsAnswered
