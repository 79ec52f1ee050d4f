\* event_del/event_add may fail.
CONSTANTS
    Reqs <- BadStream
    HeaderSize = 2
    NumberSize = 1
    DataBufferSize = 4
    ReadBufferHighwat = 8
    ReqsPerEvent = 1
    RespSize = 1
    Mtu = 2
    MaxConns = 1
    AllocFailures = FALSE
    EventFailures = TRUE
SPECIFICATION FairSpec
PROPERTY ClosingCompletes
CHECK_DEADLOCK FALSE
