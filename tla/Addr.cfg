\* Two addresses, one descriptor.
CONSTANTS
    Addr = {a1, a2}
    Host = {any, lo}
    AnyHost = any
    Loopback = lo
    Port = {p}
    SockType = {stream, dgram}
    Stream = stream
    Protocol = {tcp}
    Socket = {f}
    Resolved <- Families
    NULL = NULL
    MaxCalls = 5
CHECK_DEADLOCK FALSE
SYMMETRY Addresses
SPECIFICATION Spec
INVARIANTS
    TypeOK
    OneCloser
    ListIsItsOwn
    NamesAgree
    ListFitsSettings
    PeersCompare
PROPERTY SocketFreezes
