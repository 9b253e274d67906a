-------------------------------- MODULE Addr --------------------------------
(***************************************************************************)
(* Addresses (I2util/addr.c) and the socket address helpers under them     *)
(* (I2util/saddr.c).  An I2Addr keeps up to four views of one endpoint: a  *)
(* node and a port as text, the settings of a lookup, the list the lookup  *)
(* gave, a pointer into that list, and a descriptor.  Its client fills     *)
(* them in, copies the address, and frees originals and copies in any      *)
(* order.                                                                  *)
(*                                                                         *)
(* An absent value (no port, socket type 0, descriptor -1) is NULL.        *)
(***************************************************************************)
EXTENDS Integers, FiniteSets, SequencesExt

CONSTANTS
    Addr,        \* the client's I2Addr variables
    Host,
    AnyHost,     \* the wildcard address
    Loopback,    \* 127.0.0.1 and ::1
    Port,
    SockType,
    Stream,      \* SOCK_STREAM
    Protocol,
    Socket,      \* descriptors
    Resolved,    \* the families lookups give, in their order
    NULL,
    MaxCalls     \* bound: calls of the library

ASSUME NullAssumption ==
    NULL \notin Addr \cup Host \cup Port \cup SockType \cup Protocol \cup Socket
ASSUME MemberAssumption ==
    AnyHost \in Host /\ Loopback \in Host /\ Stream \in SockType
ASSUME ResolvedAssumption == Resolved \subseteq Seq({"v4", "v6", "mapped"}) \ {<<>>}
ASSUME BoundAssumption == MaxCalls \in Nat

VARIABLES
    addr,    \* of every variable: its address, or NULL
    open,    \* the descriptors that are open
    client,  \* those of them the client closes itself
    calls

vars == <<addr, open, client, calls>>

Opt(S) == S \cup {NULL}
SockAddr == [fam : {"v4", "v6", "mapped", "unix"}, host : Opt(Host), port : Opt(Port)]

(* The length that goes with a socket address: that of its family, or a    *)
(* longer one, as of the sockaddr_storage a client keeps it in.            *)
Length == {"exact", "longer"}

AddrInfo == [sa : SockAddr, addrlen : Length, socktype : Opt(SockType),
             protocol : Opt(Protocol), by : {"resolver", "library"}]
-----------------------------------------------------------------------------
(*                          Socket addresses                               *)

Family(sa) == IF sa.fam \in {"v6", "mapped"} THEN "AF_INET6" ELSE sa.fam

(* Only these two families can be decoded. *)
I2SockAddrToSockUnion(sa) == Family(sa) \in {"v4", "AF_INET6"}

(* The IPv4 address a mapped IPv6 address stands for. *)
AsV4(sa) == IF sa.fam = "mapped" THEN [sa EXCEPT !.fam = "v4"] ELSE sa

AsV4Length(sa, len) == IF sa.fam = "mapped" THEN "exact" ELSE len

SameFamilyEqual(sa1, sa2, chk_what) ==
    IF ~I2SockAddrToSockUnion(sa1) \/ ~I2SockAddrToSockUnion(sa2) THEN -1
    ELSE IF /\ "addr" \in chk_what => sa1.fam = sa2.fam /\ sa1.host = sa2.host
            /\ "port" \in chk_what => sa1.port = sa2.port
         THEN 1 ELSE 0

(* Mutant: only the first address is unmapped. *)
I2SockAddrEqual_OneSide(sa1, len1, sa2, len2, chk_what) ==
    IF len1 = len2 /\ Family(sa1) = Family(sa2) THEN SameFamilyEqual(sa1, sa2, chk_what)
    ELSE IF ~I2SockAddrToSockUnion(sa1) \/ ~I2SockAddrToSockUnion(sa2) THEN -1
    ELSE IF AsV4Length(sa1, len1) = len2 /\ Family(AsV4(sa1)) = Family(sa2)
         THEN SameFamilyEqual(AsV4(sa1), sa2, chk_what)
         ELSE 0

(* Addresses of different lengths or families are compared again, unmapped. *)
I2SockAddrEqual(sa1, len1, sa2, len2, chk_what) ==
    IF len1 = len2 /\ Family(sa1) = Family(sa2) THEN SameFamilyEqual(sa1, sa2, chk_what)
    ELSE IF ~I2SockAddrToSockUnion(sa1) \/ ~I2SockAddrToSockUnion(sa2) THEN -1
    ELSE IF /\ AsV4Length(sa1, len1) = AsV4Length(sa2, len2)
            /\ Family(AsV4(sa1)) = Family(AsV4(sa2))
         THEN SameFamilyEqual(AsV4(sa1), AsV4(sa2), chk_what)
         ELSE 0

(* The call for a mapped address passes the mapped address again, with the *)
(* length of an IPv4 one, and that is refused.                             *)
I2SockAddrIsLoopback(sa) ==
    IF sa.fam \in {"unix", "mapped"} THEN -1
    ELSE IF sa.host = Loopback THEN 1 ELSE 0
-----------------------------------------------------------------------------
(*                             The record                                  *)

(* A pointer to the socket address of an element of a list: whose list it  *)
(* is and which element.                                                   *)
Pointer == Addr \X (Nat \ {0})

(* Not in the code: where the list is from.  The lookup was for a passive  *)
(* socket; a client gave the socket address; the list was copied; and the  *)
(* settings that had no value when the list came and were given one since. *)
Origin == [passive : BOOLEAN, given : BOOLEAN, copied : BOOLEAN,
           late : SUBSET {"so_type", "so_protocol"}]
NoOrigin == [passive |-> FALSE, given |-> FALSE, copied |-> FALSE, late |-> {}]

_I2AddrAlloc ==
    [node |-> "unknown", node_set |-> FALSE,
     port |-> "unknown", port_set |-> FALSE, port_value |-> NULL,
     ai |-> <<>>, ai_free |-> FALSE, saddr |-> NULL, saddrlen |-> NULL,
     so_type |-> NULL, so_protocol |-> NULL, passive |-> FALSE,
     fd |-> NULL, fd_user |-> FALSE, origin |-> NoOrigin]

AddrRec ==
    [node : Host \cup {"unknown", "unixsock"}, node_set : BOOLEAN,
     port : Port \cup {"unknown", "unnamed", "0"}, port_set : BOOLEAN,
     port_value : Opt(Port),
     ai : Seq(AddrInfo), ai_free : BOOLEAN,
     saddr : Opt(Pointer), saddrlen : Opt(Length),
     so_type : Opt(SockType), so_protocol : Opt(Protocol), passive : BOOLEAN,
     fd : Opt(Socket), fd_user : BOOLEAN, origin : Origin]

ASSUME NoAddressAssumption == NULL \notin AddrRec /\ NULL \notin Pointer

TypeOK ==
    /\ addr \in [Addr -> AddrRec \cup {NULL}]
    /\ open \subseteq Socket /\ client \subseteq open
    /\ calls \in 0..MaxCalls

Init ==
    /\ addr = [a \in Addr |-> NULL]
    /\ open = {} /\ client = {}
    /\ calls = 0

Live == {a \in Addr : addr[a] # NULL}
SA(a) == addr[addr[a].saddr[1]].ai[addr[a].saddr[2]].sa

_I2AddrClearAI(rec) ==
    [rec EXCEPT !.ai = <<>>, !.ai_free = FALSE, !.saddr = NULL, !.saddrlen = NULL,
                !.origin = NoOrigin]

(* What I2AddrFree closes. *)
Closed(rec) == IF rec.fd_user THEN {} ELSE {rec.fd} \cap Socket

Call == calls < MaxCalls /\ calls' = calls + 1
NewAddr(a, rec) == addr[a] = NULL /\ addr' = [addr EXCEPT ![a] = rec]
Update(a, rec) == addr' = [addr EXCEPT ![a] = rec]
-----------------------------------------------------------------------------
(*                      Making and freeing addresses                       *)

(* "host:port" or "[host]:port"; either part may be missing, and a port     *)
(* that is no number in range counts as missing.                            *)
I2AddrByNode(a) ==
    /\ Call
    /\ \E n \in Opt(Host), p \in Opt(Port) :
         NewAddr(a, [_I2AddrAlloc EXCEPT
            !.node = IF n = NULL THEN @ ELSE n, !.node_set = n # NULL,
            !.port = IF p = NULL THEN @ ELSE p, !.port_set = p # NULL,
            !.port_value = p])
    /\ UNCHANGED <<open, client>>

(* getaddrinfo(): a list with one element for each address of the host. *)
Lookups(host, port, so_type, so_protocol) ==
    {[i \in DOMAIN fams |->
        [sa |-> [fam |-> fams[i], host |-> host, port |-> port],
         addrlen |-> "exact", socktype |-> so_type, protocol |-> proto, by |-> "resolver"]] :
       fams \in {r \in Resolved : host = AnyHost => "mapped" \notin Range(r)},
       proto \in IF so_protocol = NULL THEN Protocol ELSE {so_protocol}}

I2AddrByWildcard(a) ==
    /\ Call
    /\ \E socktype \in SockType, p \in Opt(Port) :
       \E list \in Lookups(AnyHost, p, socktype, NULL) :
         NewAddr(a, [_I2AddrAlloc EXCEPT
            !.ai = list, !.passive = TRUE, !.origin.passive = TRUE])
    /\ UNCHANGED <<open, client>>

(* Mutant: a mapped address is kept as it is. *)
BySAddr_Mapped(sa, len, socktype, protocol, a) ==
    [_I2AddrAlloc EXCEPT
        !.ai = <<[sa |-> sa, addrlen |-> len,
                  socktype |-> socktype, protocol |-> protocol, by |-> "library"]>>,
        !.ai_free = TRUE, !.saddr = <<a, 1>>, !.saddrlen = len,
        !.so_type = socktype, !.so_protocol = protocol, !.origin.given = TRUE]

(* The list has one element; a mapped address becomes an IPv4 address. *)
BySAddr(sa, len, socktype, protocol, a) ==
    [_I2AddrAlloc EXCEPT
        !.ai = <<[sa |-> AsV4(sa), addrlen |-> AsV4Length(sa, len),
                  socktype |-> socktype, protocol |-> protocol, by |-> "library"]>>,
        !.ai_free = TRUE, !.saddr = <<a, 1>>, !.saddrlen = AsV4Length(sa, len),
        !.so_type = socktype, !.so_protocol = protocol, !.origin.given = TRUE]

(* The socket addresses clients have from accept(), recvfrom() and so on. *)
Inet == [fam : {"v4", "v6", "mapped"}, host : Host \ {AnyHost}, port : Port]
Unix == [fam : {"unix"}, host : {NULL}, port : {NULL}]

(* A length that is too long is accepted, and no type need be given. *)
I2AddrBySAddr(a) ==
    /\ Call
    /\ \E sa \in Inet \cup Unix, len \in Length,
          socktype \in Opt(SockType), protocol \in Opt(Protocol) :
         NewAddr(a, BySAddr(sa, len, socktype, protocol, a))
    /\ UNCHANGED <<open, client>>

(* I2AddrBySockFD and I2AddrByLocalSockFD: the address of a peer or one's   *)
(* own, with the descriptor, which the client may hand over.                *)
ByAnySockFD(a) ==
    /\ Call
    /\ \E fd \in open, close_on_free \in BOOLEAN, sa \in Inet \cup Unix,
          socktype \in SockType :
         /\ close_on_free => fd \in client
         /\ NewAddr(a, [BySAddr(sa, "exact", socktype, NULL, a) EXCEPT
                          !.fd = fd, !.fd_user = ~close_on_free])
         /\ client' = IF close_on_free THEN client \ {fd} ELSE client
    /\ UNCHANGED open

(* CopyAddrRec for the first n elements of a list. *)
CopyAddrRecs(ai, n) == [i \in 1..n |-> [ai[i] EXCEPT !.by = "library"]]

Reached(from, n) == from.saddr # NULL /\ from.saddr[2] <= n
CopiedOrigin(from) ==
    IF from.ai = <<>> THEN NoOrigin ELSE [from.origin EXCEPT !.copied = TRUE, !.late = {}]

(* Mutant: the list is not marked as the library's own. *)
PartCopy_NotOwn(from, to, n) ==
    [_I2AddrAlloc EXCEPT
        !.node = IF from.node_set THEN from.node ELSE @, !.node_set = from.node_set,
        !.port = IF from.port_set THEN from.port ELSE @, !.port_set = from.port_set,
        !.port_value = IF from.port_set THEN from.port_value ELSE @,
        !.ai = CopyAddrRecs(from.ai, n),
        !.saddr = IF Reached(from, n) THEN <<to, from.saddr[2]>> ELSE NULL,
        !.saddrlen = IF Reached(from, n) THEN from.ai[from.saddr[2]].addrlen ELSE NULL,
        !.origin = CopiedOrigin(from)]

(* The copy I2AddrCopy has after n elements: the socket type, the protocol *)
(* and passive are not copied, and the length is the one in the list.      *)
PartCopy(from, to, n) ==
    [_I2AddrAlloc EXCEPT
        !.node = IF from.node_set THEN from.node ELSE @, !.node_set = from.node_set,
        !.port = IF from.port_set THEN from.port ELSE @, !.port_set = from.port_set,
        !.port_value = IF from.port_set THEN from.port_value ELSE @,
        !.ai = CopyAddrRecs(from.ai, n), !.ai_free = from.ai # <<>>,
        !.saddr = IF Reached(from, n) THEN <<to, from.saddr[2]>> ELSE NULL,
        !.saddrlen = IF Reached(from, n) THEN from.ai[from.saddr[2]].addrlen ELSE NULL,
        !.origin = CopiedOrigin(from)]

(* Mutant: the pointer is copied like everything else. *)
I2AddrCopy_SharesSAddr(a, b) ==
    /\ Call /\ a # b /\ addr[a] # NULL
    /\ NewAddr(b, [PartCopy(addr[a], b, Len(addr[a].ai)) EXCEPT
            !.saddr = addr[a].saddr,
            !.fd = addr[a].fd, !.fd_user = addr[a].fd # NULL])
    /\ UNCHANGED <<open, client>>

(* Mutant: the descriptor is copied first, and marked shared at the end. *)
I2AddrCopy_FdFirst(a, b) ==
    /\ Call /\ a # b /\ addr[a] # NULL
    /\ \/ /\ NewAddr(b, [PartCopy(addr[a], b, Len(addr[a].ai)) EXCEPT
                  !.fd = addr[a].fd, !.fd_user = addr[a].fd # NULL])
          /\ UNCHANGED <<open, client>>
       \/ \E n \in 0..(Len(addr[a].ai) - 1) :
            /\ addr[b] = NULL
            /\ open' = open \ Closed([PartCopy(addr[a], b, n) EXCEPT !.fd = addr[a].fd])
            /\ UNCHANGED <<addr, client>>

(* The copy shares the descriptor and does not close it.  When memory runs *)
(* out after n elements the part that is there is freed.                   *)
I2AddrCopy(a, b) ==
    /\ Call /\ a # b /\ addr[a] # NULL
    /\ \/ /\ NewAddr(b, [PartCopy(addr[a], b, Len(addr[a].ai)) EXCEPT
                  !.fd = addr[a].fd, !.fd_user = addr[a].fd # NULL])
          /\ UNCHANGED <<open, client>>
       \/ \E n \in 0..(Len(addr[a].ai) - 1) :
            /\ addr[b] = NULL
            /\ open' = open \ Closed(PartCopy(addr[a], b, n))
            /\ UNCHANGED <<addr, client>>

(* Mutant: the descriptor is closed whoever it belongs to. *)
I2AddrFree_ClosesAny(a) ==
    /\ Call /\ addr[a] # NULL
    /\ open' = open \ {addr[a].fd}
    /\ Update(a, NULL)
    /\ UNCHANGED client

I2AddrFree(a) ==
    /\ Call /\ addr[a] # NULL
    /\ open' = open \ Closed(addr[a])
    /\ Update(a, NULL)
    /\ UNCHANGED client
-----------------------------------------------------------------------------
(*                        Names from the address                           *)

PortName(p) == IF p = NULL THEN "0" ELSE p

(* getnameinfo() may fail; it numbers ports, and finds a name or a number  *)
(* for the host.                                                           *)
_I2AddrSetPort(rec, sa) ==
    IF rec.port_set THEN {rec}
    ELSE IF sa.fam = "unix"
    THEN {[rec EXCEPT !.port = "unnamed", !.port_set = TRUE, !.port_value = NULL]}
    ELSE {[rec EXCEPT !.port = "unknown"],
          [rec EXCEPT !.port = PortName(sa.port),
                      !.port_set = TRUE, !.port_value = sa.port]}

_I2AddrSetNodePort(rec, sa) ==
    IF rec.node_set /\ rec.port_set THEN {rec}
    ELSE IF sa.fam = "unix"
    THEN _I2AddrSetPort([rec EXCEPT !.node = "unixsock", !.node_set = TRUE], sa)
    ELSE {[rec EXCEPT !.node = "unknown"]}
         \cup _I2AddrSetPort([rec EXCEPT !.node = sa.host, !.node_set = TRUE], sa)

(* I2AddrPort fills in a missing port. *)
I2AddrPort(a) ==
    /\ addr[a] # NULL /\ ~addr[a].port_set /\ addr[a].saddr # NULL
    /\ Call
    /\ \E rec \in _I2AddrSetPort(addr[a], SA(a)) : Update(a, rec)
    /\ UNCHANGED <<open, client>>

(* I2AddrNodeName, I2AddrServName and I2AddrNodeServName fill in both when *)
(* the one they are asked for is missing.                                  *)
I2AddrNodeServName(a) ==
    /\ addr[a] # NULL /\ addr[a].saddr # NULL
    /\ ~addr[a].node_set \/ ~addr[a].port_set
    /\ Call
    /\ \E rec \in _I2AddrSetNodePort(addr[a], SA(a)) : Update(a, rec)
    /\ UNCHANGED <<open, client>>
-----------------------------------------------------------------------------
(*      Setters, refused once the address is associated with a socket      *)

(* The client chooses an element of the list, to which it could connect.   *)
I2AddrSetSAddr(a) ==
    /\ addr[a] # NULL
    /\ addr[a].fd = NULL
    /\ Call
    /\ \E i \in DOMAIN addr[a].ai :
         Update(a, [addr[a] EXCEPT !.saddr = <<a, i>>, !.saddrlen = addr[a].ai[i].addrlen,
                                   !.node_set = FALSE, !.port_set = FALSE,
                                   !.port_value = NULL])
    /\ UNCHANGED <<open, client>>

Owned(a) == Closed(addr[a])

(* A descriptor is set, set again or dropped.  Clients hand over what is    *)
(* theirs, and have back what the address no longer closes.                 *)
I2AddrSetFD(a) ==
    /\ addr[a] # NULL
    /\ Call
    /\ \E fd \in open \cup {NULL}, close_on_free \in BOOLEAN :
         /\ ~(fd # NULL /\ fd # addr[a].fd /\ addr[a].fd # NULL)
         /\ fd # NULL /\ close_on_free => fd \in client \cup Owned(a)
         /\ Update(a, [addr[a] EXCEPT !.fd = fd, !.fd_user = ~close_on_free])
         /\ client' = (client \cup Owned(a)) \ (IF close_on_free THEN {fd} ELSE {})
    /\ UNCHANGED open

(* Mutant: only the port is recorded, not written to the socket address. *)
I2AddrSetPort_NameOnly(a) ==
    /\ addr[a] # NULL
    /\ addr[a].fd = NULL
    /\ Call
    /\ \E p \in Opt(Port) :
         Update(a, [addr[a] EXCEPT !.port = PortName(p), !.port_set = TRUE,
                                   !.port_value = p])
    /\ UNCHANGED <<open, client>>

(* The port is recorded, and written through the pointer when there is one: *)
(* to an element of the list then, and the length becomes that of the       *)
(* family (the element's own stays).  AF_UNIX addresses are refused.        *)
I2AddrSetPort(a) ==
    /\ addr[a] # NULL
    /\ addr[a].fd = NULL
    /\ Call
    /\ \E p \in Opt(Port) :
       LET named == [addr[a] EXCEPT !.port = PortName(p), !.port_set = TRUE,
                                    !.port_value = p]
       IN \/ addr[a].saddr = NULL /\ Update(a, named)
          \/ /\ addr[a].saddr # NULL
             /\ I2SockAddrToSockUnion(SA(a))
             /\ Update(a, [named EXCEPT !.ai[addr[a].saddr[2]].sa.port = p,
                                        !.saddrlen = "exact"])
    /\ UNCHANGED <<open, client>>

Unassociated(a) == addr[a].fd = NULL /\ addr[a].saddr = NULL
Late(rec, setting) == IF rec.ai = <<>> THEN {} ELSE {setting}

(* A value that was unset is simply assigned; another is replaced, and the  *)
(* list found with it dropped, while there is no socket or socket address.  *)
I2AddrSetProtocol(a) ==
    /\ addr[a] # NULL
    /\ Call
    /\ \E protocol \in Opt(Protocol) \ {addr[a].so_protocol} :
         \/ /\ addr[a].so_protocol = NULL
            /\ Update(a, [addr[a] EXCEPT !.so_protocol = protocol,
                                         !.origin.late = @ \cup Late(addr[a], "so_protocol")])
         \/ /\ addr[a].so_protocol # NULL
            /\ Unassociated(a)
            /\ Update(a, [_I2AddrClearAI(addr[a]) EXCEPT !.so_protocol = protocol])
    /\ UNCHANGED <<open, client>>

(* Mutant: the list found for the old type is kept. *)
I2AddrSetSocktype_KeepsList(a) ==
    /\ addr[a] # NULL
    /\ Call
    /\ \E so_type \in Opt(SockType) \ {addr[a].so_type} :
         \/ /\ addr[a].so_type = NULL
            /\ Update(a, [addr[a] EXCEPT !.so_type = so_type,
                                         !.origin.late = @ \cup Late(addr[a], "so_type")])
         \/ /\ addr[a].so_type # NULL
            /\ Unassociated(a)
            /\ Update(a, [addr[a] EXCEPT !.so_type = so_type])
    /\ UNCHANGED <<open, client>>

I2AddrSetSocktype(a) ==
    /\ addr[a] # NULL
    /\ Call
    /\ \E so_type \in Opt(SockType) \ {addr[a].so_type} :
         \/ /\ addr[a].so_type = NULL
            /\ Update(a, [addr[a] EXCEPT !.so_type = so_type,
                                         !.origin.late = @ \cup Late(addr[a], "so_type")])
         \/ /\ addr[a].so_type # NULL
            /\ Unassociated(a)
            /\ Update(a, [_I2AddrClearAI(addr[a]) EXCEPT !.so_type = so_type])
    /\ UNCHANGED <<open, client>>

(* Mutant: passive is changed whatever the address is associated with. *)
I2AddrSetPassive_Always(a) ==
    /\ addr[a] # NULL
    /\ Call
    /\ Update(a, [_I2AddrClearAI(addr[a]) EXCEPT !.passive = ~@])
    /\ UNCHANGED <<open, client>>

I2AddrSetPassive(a) ==
    /\ addr[a] # NULL
    /\ Unassociated(a)
    /\ Call
    /\ Update(a, [_I2AddrClearAI(addr[a]) EXCEPT !.passive = ~@])
    /\ UNCHANGED <<open, client>>

OrElse(set, own, default) == IF set THEN own ELSE default

(* The list there is, or a lookup: of the address's own node and port, then *)
(* of the caller's.  Without a host only a passive address is looked up.    *)
I2AddrAddrInfo(a) ==
    /\ addr[a] # NULL
    /\ addr[a].ai = <<>>
    /\ Call
    /\ \E def_node \in Opt(Host), def_serv \in Opt(Port) :
       LET rec  == addr[a]
           host == OrElse(rec.node_set /\ rec.node # "unknown", rec.node, def_node)
           port == OrElse(rec.port_set, rec.port_value, def_serv)
           type == IF rec.so_type = NULL THEN Stream ELSE rec.so_type
       IN /\ host # NULL \/ rec.passive
          /\ \E list \in Lookups(IF host = NULL THEN AnyHost ELSE host, port,
                                  type, rec.so_protocol) :
               Update(a, [rec EXCEPT !.ai = list, !.ai_free = FALSE,
                                     !.origin.passive = rec.passive])
    /\ UNCHANGED <<open, client>>
-----------------------------------------------------------------------------
(* The client opens descriptors, the lowest that is free, and closes those *)
(* that are its own.                                                       *)
OpenSocket(fd) ==
    /\ fd \notin open
    /\ open' = open \cup {fd} /\ client' = client \cup {fd}
    /\ UNCHANGED <<addr, calls>>

CloseSocket(fd) ==
    /\ fd \in client
    /\ open' = open \ {fd} /\ client' = client \ {fd}
    /\ UNCHANGED <<addr, calls>>

Next ==
    \/ \E a \in Addr :
         \/ I2AddrByNode(a) \/ I2AddrByWildcard(a) \/ I2AddrBySAddr(a)
         \/ ByAnySockFD(a) \/ I2AddrFree(a)
         \/ I2AddrPort(a) \/ I2AddrNodeServName(a)
         \/ I2AddrSetSAddr(a) \/ I2AddrSetFD(a) \/ I2AddrSetPort(a)
         \/ I2AddrSetProtocol(a) \/ I2AddrSetSocktype(a) \/ I2AddrSetPassive(a)
         \/ I2AddrAddrInfo(a)
         \/ \E b \in Addr : I2AddrCopy(a, b)
    \/ \E fd \in Socket : OpenSocket(fd) \/ CloseSocket(fd)

Spec == Init /\ [][Next]_vars
-----------------------------------------------------------------------------
(*                              Properties                                 *)

(* A descriptor that is open is closed by exactly one party, the client or  *)
(* one of the addresses that carry it (addr.h: "free'ing the copy I2Addr    *)
(* will not close the fd"), and one that is closed by none: no descriptor   *)
(* is leaked or closed twice, whatever is copied, dropped or fails.         *)
OneCloser ==
    \A fd \in Socket :
        Cardinality({a \in Live : fd \in Owned(a)} \cup (IF fd \in client THEN {NULL} ELSE {}))
        = IF fd \in open THEN 1 ELSE 0

(* An address can be freed whenever, and its copies stay whole: the pointer *)
(* to the socket address goes into its own list (addr.c:683), and the list  *)
(* is freed by who made it: freeaddrinfo() never gets memory of CopyAddrRec *)
(* or I2AddrBySAddr, nor free() a list of the resolver.                     *)
ListIsItsOwn ==
    \A a \in Live :
        /\ addr[a].saddr # NULL => addr[a].saddr[1] = a
                                  /\ addr[a].saddr[2] \in DOMAIN addr[a].ai
        /\ \A i \in DOMAIN addr[a].ai :
             addr[a].ai_free = (addr[a].ai[i].by = "library")

(* Once there is a socket address, the node and port kept as text name it,  *)
(* in whatever order they were set, derived, copied and set again.  (After  *)
(* a failed lookup the node is "unknown".)                                  *)
NamesAgree ==
    \A a \in Live : addr[a].saddr # NULL =>
        LET sa == SA(a) rec == addr[a]
        IN /\ rec.node_set => rec.node \in {"unknown", IF sa.fam = "unix" THEN "unixsock"
                                                       ELSE sa.host}
           /\ rec.port_set => rec.port_value = sa.port

(* The list is the one the settings ask for: its elements have the socket   *)
(* type and the protocol that were set, and it was looked up for a passive  *)
(* socket when the address is passive.  Two things in the code make an      *)
(* exception, and nothing else: a value set for the first time leaves the   *)
(* list as it is (addr.c:887, :967: "a simple assignment"), and a copy of a *)
(* passive list is no longer passive (addr.c:217).                          *)
ListFitsSettings ==
    \A a \in Live : addr[a].ai # <<>> =>
        LET rec == addr[a]
        IN /\ \A i \in DOMAIN rec.ai :
                /\ rec.ai[i].socktype = rec.so_type
                      \/ rec.so_type = NULL \/ "so_type" \in rec.origin.late
                /\ rec.ai[i].protocol = rec.so_protocol
                      \/ rec.so_protocol = NULL \/ "so_protocol" \in rec.origin.late
           /\ rec.passive => rec.origin.passive
           /\ rec.origin.passive => rec.passive \/ rec.origin.copied

(* I2AddrSAddr's pointer and length can be given to I2SockAddrEqual, which  *)
(* answers whether two peers are the same: mapped addresses compare as the  *)
(* IPv4 addresses they stand for, whether they come from a lookup, a        *)
(* descriptor or a client.  The same peer held with two lengths is not the  *)
(* same (saddr.c:184), and only a client can have given the longer one, to  *)
(* I2AddrBySAddr.  The question for loopback is answered for an address     *)
(* that was built from a socket address (addr.c:515: "so addr matching will *)
(* work in other parts of the code"), mapped or not, and for its copies.    *)
PeersCompare ==
    /\ \A a, b \in Live : addr[a].saddr # NULL /\ addr[b].saddr # NULL =>
         LET s == SA(a) r == SA(b) len == addr[a].saddrlen other == addr[b].saddrlen
         IN I2SockAddrEqual(s, len, r, other, {"addr", "port"}) =
              IF "unix" \in {s.fam, r.fam} THEN -1
              ELSE IF AsV4(s) = AsV4(r) /\ len = other THEN 1 ELSE 0
    /\ \A a \in Live : addr[a].saddr # NULL =>
         /\ addr[a].saddrlen = "longer" => addr[a].origin.given
         /\ addr[a].origin.given /\ SA(a).fam # "unix" =>
              I2SockAddrIsLoopback(SA(a)) = IF SA(a).host = Loopback THEN 1 ELSE 0

(* addr.h: the set functions are only valid before a socket is associated:  *)
(* while an address keeps its descriptor, what the descriptor was connected *)
(* with stays.                                                              *)
SocketFreezes ==
    [][\A a \in Live : addr[a].fd # NULL /\ addr'[a] # NULL /\ addr'[a].fd = addr[a].fd =>
         LET rec == addr[a] new == addr'[a]
         IN /\ new.saddr = rec.saddr /\ new.passive = rec.passive
            /\ rec.ai # <<>> => new.ai = rec.ai
            /\ rec.port_set => new.port_value = rec.port_value
            /\ rec.so_type # NULL => new.so_type = rec.so_type
            /\ rec.so_protocol # NULL => new.so_protocol = rec.so_protocol]_vars
=============================================================================
