\* Two requests that exactly fill rbuf, then a half-close by the client.
CONSTANTS
    Reqs <- FillStream
    HeaderSize = 2
    NumberSize = 1
    DataBufferSize = 6
    ReadBufferHighwat = 12
    ReqsPerEvent = 20
    RespSize = 1
    Mtu = 2
    MaxConns = 1
    AllocFailures = FALSE
    EventFailures = FALSE
SPECIFICATION Spec
INVARIANT NoRequestLostAtEof
