----------------------------- MODULE Addr_proofs -----------------------------
(***************************************************************************)
(* Proofs about addresses: for any number of addresses, descriptors, hosts *)
(* and families, and calls in any order, every address points into its own *)
(* list, and an open descriptor is closed by exactly one party; the names, *)
(* the list and the comparison of an address are those of its socket       *)
(* address and settings, which stay as they are while it has a socket.     *)
(***************************************************************************)
EXTENDS Addr, FiniteSetTheorems, TLAPS

-----------------------------------------------------------------------------
(*                            The invariants                               *)

(* The elements of a list: made by who frees it, and with a host to name    *)
(* unless the socket is a local one.                                        *)
ListSound(rec) ==
    \A i \in DOMAIN rec.ai :
        /\ rec.ai_free => rec.ai[i].by = "library"
        /\ ~rec.ai_free => rec.ai[i].by = "resolver"
        /\ rec.ai[i].sa.fam # "unix" => rec.ai[i].sa.host \in Host

(* The pointer goes into the address's own list. *)
PointerSound(a, rec) ==
    rec.saddr # NULL => rec.saddr[1] = a /\ rec.saddr[2] \in DOMAIN rec.ai

(* Only an address with a socket address has a name that is no host's, so   *)
(* a lookup is always for a host.                                           *)
NodeSound(rec) ==
    rec.node_set /\ rec.node \notin Host \cup {"unknown"} => rec.saddr # NULL

Sound(a, rec) == rec \in AddrRec /\ ListSound(rec) /\ PointerSound(a, rec) /\ NodeSound(rec)

Records ==
    /\ addr \in [Addr -> AddrRec \cup {NULL}]
    /\ \A a \in Addr : addr[a] # NULL => Sound(a, addr[a])

(* What freeing the variable would close. *)
Closes(a) == IF addr[a] = NULL THEN {} ELSE Closed(addr[a])

(* Who closes an open descriptor: the client or one address. *)
Parties ==
    /\ open \subseteq Socket /\ client \subseteq open
    /\ \A a \in Addr : Closes(a) \subseteq open
    /\ \A fd \in client : \A a \in Addr : fd \notin Closes(a)
    /\ \A a, b \in Addr : a # b => Closes(a) \cap Closes(b) = {}
    /\ \A fd \in open : fd \in client \/ \E a \in Addr : fd \in Closes(a)

AddrInv == Records /\ Parties /\ calls \in 0..MaxCalls

LEMMA InvInit == Init => AddrInv
BY BoundAssumption DEF Init, AddrInv, Records, Parties, Closes
-----------------------------------------------------------------------------
(*                            Kinds of steps                               *)

(* One variable gets another sound address. *)
LEMMA RecordsUpdated ==
    ASSUME Records, NEW a \in Addr, NEW rec, Update(a, rec), Sound(a, rec)
    PROVE  Records'
BY DEF Records, Update, Sound

LEMMA ClosesUpdated ==
    ASSUME Records, NEW a \in Addr, NEW rec, Update(a, rec), Sound(a, rec)
    PROVE  /\ Closes(a)' = Closed(rec)
           /\ \A b \in Addr \ {a} : Closes(b)' = Closes(b)
BY NoAddressAssumption DEF Records, Update, Sound, Closes, Closed

LEMMA CallCounts == calls \in 0..MaxCalls /\ Call => (calls \in 0..MaxCalls)'
BY BoundAssumption DEF Call

(* A setter or a getter: the descriptor and whose it is are as before. *)
LEMMA KeepsOwner ==
    ASSUME AddrInv, NEW a \in Addr, NEW rec, addr[a] # NULL, Call, Update(a, rec),
           Sound(a, rec), rec.fd = addr[a].fd, rec.fd_user = addr[a].fd_user,
           UNCHANGED <<open, client>>
    PROVE  AddrInv'
<1>1. Records'
  BY RecordsUpdated DEF AddrInv
<1>2. Closed(rec) = Closes(a)
  BY DEF Closed, Closes
<1>3. \A b \in Addr : Closes(b)' = Closes(b)
  BY <1>2, ClosesUpdated DEF AddrInv
<1>4. Parties'
  BY <1>3 DEF AddrInv, Parties
<1> QED BY <1>1, <1>4, CallCounts DEF AddrInv

(* A constructor without a descriptor to close. *)
LEMMA MakesIdle ==
    ASSUME AddrInv, NEW a \in Addr, NEW rec, Call, NewAddr(a, rec),
           Sound(a, rec), rec.fd = NULL \/ rec.fd_user, UNCHANGED <<open, client>>
    PROVE  AddrInv'
<1>1. Update(a, rec) /\ addr[a] = NULL
  BY DEF NewAddr, Update
<1>2. Records'
  BY <1>1, RecordsUpdated DEF AddrInv
<1>3. Closed(rec) = {} /\ Closes(a) = {}
  BY <1>1, NullAssumption DEF Closed, Closes
<1>4. \A b \in Addr : Closes(b)' = Closes(b)
  BY <1>1, <1>3, ClosesUpdated DEF AddrInv
<1>5. Parties'
  BY <1>4 DEF AddrInv, Parties
<1> QED BY <1>2, <1>5, CallCounts DEF AddrInv
-----------------------------------------------------------------------------
(*                           New addresses                                 *)

LEMMA AllocSound == \A a \in Addr : Sound(a, _I2AddrAlloc)
BY DEF Sound, ListSound, PointerSound, NodeSound, AddrRec, _I2AddrAlloc, Opt, NoOrigin, Origin

LEMMA LookupSound ==
    ASSUME NEW host \in Host, NEW port \in Opt(Port), NEW so_type \in SockType,
           NEW so_protocol \in Opt(Protocol),
           NEW list \in Lookups(host, port, so_type, so_protocol)
    PROVE  /\ list \in Seq(AddrInfo)
           /\ \A i \in DOMAIN list : list[i].by = "resolver" /\ list[i].sa.host \in Host
<1>1. PICK fams \in Resolved, proto \in Opt(Protocol) :
        list = [i \in DOMAIN fams |->
                  [sa |-> [fam |-> fams[i], host |-> host, port |-> port],
                   addrlen |-> "exact", socktype |-> so_type, protocol |-> proto,
                   by |-> "resolver"]]
  BY DEF Lookups, Opt
<1>2. fams \in Seq({"v4", "v6", "mapped"})
  BY ResolvedAssumption
<1>3. DOMAIN fams = 1..Len(fams) /\ \A i \in DOMAIN fams : fams[i] \in {"v4", "v6", "mapped"}
  BY <1>2
<1>4. \A i \in DOMAIN fams : list[i] \in AddrInfo
  BY <1>1, <1>3 DEF AddrInfo, SockAddr, Opt, Length
<1>5. list \in Seq(AddrInfo)
  <2>1. DOMAIN list = 1..Len(fams) /\ Len(fams) \in Nat
    BY <1>1, <1>2, <1>3
  <2>2. list = [i \in 1..Len(fams) |-> list[i]]
    BY <1>1, <2>1
  <2> QED BY <1>1, <1>4, <2>1, <2>2
<1>6. \A i \in DOMAIN list : list[i].by = "resolver" /\ list[i].sa.host = host
  BY <1>1
<1> QED BY <1>5, <1>6

LEMMA LookupInet ==
    ASSUME NEW host \in Host, NEW port \in Opt(Port), NEW so_type \in SockType,
           NEW so_protocol \in Opt(Protocol),
           NEW list \in Lookups(host, port, so_type, so_protocol)
    PROVE  /\ list # <<>>
           /\ \A i \in DOMAIN list :
                /\ list[i].by = "resolver" /\ list[i].sa.fam # "unix"
                /\ list[i].addrlen = "exact" /\ list[i].socktype = so_type
                /\ so_protocol # NULL => list[i].protocol = so_protocol
<1>1. PICK fams \in Resolved, proto \in Opt(Protocol) :
        /\ so_protocol # NULL => proto = so_protocol
        /\ list = [i \in DOMAIN fams |->
                  [sa |-> [fam |-> fams[i], host |-> host, port |-> port],
                   addrlen |-> "exact", socktype |-> so_type, protocol |-> proto,
                   by |-> "resolver"]]
  BY DEF Lookups, Opt
<1>2. \A i \in DOMAIN fams : fams[i] \in {"v4", "v6", "mapped"}
  BY ResolvedAssumption
<1>3. so_protocol # NULL => proto = so_protocol
  BY <1>1
<1>4. \A i \in DOMAIN list :
         /\ list[i].by = "resolver" /\ list[i].sa.fam # "unix"
         /\ list[i].addrlen = "exact" /\ list[i].socktype = so_type
         /\ list[i].protocol = proto
  BY <1>1, <1>2
<1>5. list # <<>>
  <2>1. fams # <<>> /\ fams \in Seq({"v4", "v6", "mapped"})
    BY ResolvedAssumption
  <2>2. 1 \in DOMAIN fams
    BY <2>1
  <2>3. 1 \in DOMAIN list
    BY <1>1, <2>2
  <2> QED BY <2>3
<1> QED BY <1>3, <1>4, <1>5

LEMMA NamedTyped ==
    ASSUME NEW node \in Host \cup {"unknown"}, NEW ns \in BOOLEAN,
           NEW port \in Port \cup {"unknown"}, NEW ps \in BOOLEAN, NEW p \in Opt(Port)
    PROVE  [_I2AddrAlloc EXCEPT !.node = node, !.node_set = ns, !.port = port,
                                !.port_set = ps, !.port_value = p] \in AddrRec
<1> DEFINE named == [_I2AddrAlloc EXCEPT !.node = node, !.node_set = ns, !.port = port,
                                         !.port_set = ps, !.port_value = p]
<1>1. _I2AddrAlloc \in AddrRec
  BY DEF AddrRec, _I2AddrAlloc, Opt, NoOrigin, Origin
<1> QED BY <1>1 DEF AddrRec

LEMMA ByNodeStep == ASSUME AddrInv, NEW a \in Addr, I2AddrByNode(a) PROVE AddrInv'
<1>1. PICK n \in Opt(Host), p \in Opt(Port) :
        NewAddr(a, [_I2AddrAlloc EXCEPT
            !.node = IF n = NULL THEN @ ELSE n, !.node_set = n # NULL,
            !.port = IF p = NULL THEN @ ELSE p, !.port_set = p # NULL,
            !.port_value = p])
  BY DEF I2AddrByNode
<1> DEFINE rec == [_I2AddrAlloc EXCEPT
            !.node = IF n = NULL THEN @ ELSE n, !.node_set = n # NULL,
            !.port = IF p = NULL THEN @ ELSE p, !.port_set = p # NULL,
            !.port_value = p]
<1>2. rec \in AddrRec
  <2>1. PICK node \in Host \cup {"unknown"} : node = IF n = NULL THEN _I2AddrAlloc.node ELSE n
    BY DEF _I2AddrAlloc, Opt
  <2>2. PICK port \in Port \cup {"unknown"} : port = IF p = NULL THEN _I2AddrAlloc.port ELSE p
    BY DEF _I2AddrAlloc, Opt
  <2>3. (n # NULL) \in BOOLEAN /\ (p # NULL) \in BOOLEAN
    OBVIOUS
  <2> QED BY <2>1, <2>2, <2>3, NamedTyped, Zenon
<1>3. /\ rec.ai = <<>> /\ rec.saddr = NULL /\ rec.fd = NULL
      /\ rec.node \in Host \cup {"unknown"}
  BY DEF _I2AddrAlloc, Opt
<1>4. Sound(a, rec)
  BY <1>2, <1>3 DEF Sound, ListSound, PointerSound, NodeSound
<1> QED BY <1>1, <1>3, <1>4, MakesIdle DEF I2AddrByNode

LEMMA ByWildcardStep == ASSUME AddrInv, NEW a \in Addr, I2AddrByWildcard(a) PROVE AddrInv'
<1>1. PICK socktype \in SockType, p \in Opt(Port) :
        \E list \in Lookups(AnyHost, p, socktype, NULL) :
        NewAddr(a, [_I2AddrAlloc EXCEPT
            !.ai = list, !.passive = TRUE, !.origin.passive = TRUE])
  BY DEF I2AddrByWildcard
<1>2. PICK list \in Lookups(AnyHost, p, socktype, NULL) :
        NewAddr(a, [_I2AddrAlloc EXCEPT
            !.ai = list, !.passive = TRUE, !.origin.passive = TRUE])
  BY <1>1
<1> DEFINE rec == [_I2AddrAlloc EXCEPT !.ai = list, !.passive = TRUE, !.origin.passive = TRUE]
<1>3. /\ list \in Seq(AddrInfo)
      /\ \A i \in DOMAIN list : list[i].by = "resolver" /\ list[i].sa.host \in Host
  BY LookupSound, MemberAssumption DEF Opt
<1>4. Sound(a, rec)
  BY <1>3 DEF Sound, ListSound, PointerSound, NodeSound, AddrRec, _I2AddrAlloc, Opt, NoOrigin, Origin
<1>5. rec.fd = NULL
  BY DEF _I2AddrAlloc
<1> QED BY <1>2, <1>4, <1>5, MakesIdle DEF I2AddrByWildcard

LEMMA BySAddrSound ==
    ASSUME NEW a \in Addr, NEW sa \in (Inet \cup Unix), NEW len \in Length,
           NEW socktype \in Opt(SockType), NEW protocol \in Opt(Protocol)
    PROVE  /\ Sound(a, BySAddr(sa, len, socktype, protocol, a))
           /\ BySAddr(sa, len, socktype, protocol, a).fd = NULL
<1> DEFINE given == AsV4Length(sa, len)
           el == [sa |-> AsV4(sa), addrlen |-> given, socktype |-> socktype,
                  protocol |-> protocol, by |-> "library"]
           rec == BySAddr(sa, len, socktype, protocol, a)
<1>1. /\ AsV4(sa) \in SockAddr
      /\ AsV4(sa).fam # "unix" => AsV4(sa).host \in Host
  <2>1. CASE sa \in Inet
    BY <2>1 DEF Inet, AsV4, SockAddr, Opt
  <2>2. CASE sa \in Unix
    BY <2>2 DEF Unix, AsV4, SockAddr, Opt
  <2> QED BY <2>1, <2>2
<1>2. el \in AddrInfo /\ given \in Opt(Length)
  BY <1>1 DEF AddrInfo, AsV4Length, Length, Opt
<1>3. <<el>> \in Seq(AddrInfo) /\ DOMAIN <<el>> = {1} /\ <<el>>[1] = el
  BY <1>2
<1>4. <<a, 1>> \in Pointer /\ <<a, 1>>[1] = a /\ <<a, 1>>[2] = 1
  BY DEF Pointer
<1>5. /\ rec.ai = <<el>> /\ rec.ai_free = TRUE /\ rec.saddr = <<a, 1>>
      /\ rec.fd = NULL /\ rec.node = "unknown"
  BY DEF BySAddr, _I2AddrAlloc
<1>6. rec \in AddrRec
  <2>1. PICK list \in Seq(AddrInfo), saddr \in Pointer : list = <<el>> /\ saddr = <<a, 1>>
    BY <1>3, <1>4
  <2> DEFINE r1 == [_I2AddrAlloc EXCEPT
                      !.ai = list, !.ai_free = TRUE, !.saddr = saddr, !.saddrlen = given,
                      !.so_type = socktype, !.so_protocol = protocol]
             r2 == [r1 EXCEPT !.origin.given = TRUE]
  <2>2. rec = r2
    BY <2>1 DEF BySAddr
  <2>3. _I2AddrAlloc \in AddrRec
    BY AllocSound DEF Sound
  <2> HIDE DEF given
  <2>4. r1 \in AddrRec
    BY <1>2, <2>3 DEF AddrRec, Opt
  <2> HIDE DEF r1
  <2>5. r2 \in AddrRec
    BY <2>4 DEF AddrRec, Origin
  <2> QED BY <2>2, <2>5
<1> QED BY <1>1, <1>3, <1>4, <1>5, <1>6 DEF Sound, ListSound, PointerSound, NodeSound

LEMMA BySAddrStep == ASSUME AddrInv, NEW a \in Addr, I2AddrBySAddr(a) PROVE AddrInv'
BY BySAddrSound, MakesIdle DEF I2AddrBySAddr

WithFd(old, fd, user) == [old EXCEPT !.fd = fd, !.fd_user = user]

LEMMA FdSetSound ==
    ASSUME NEW a \in Addr, NEW old, Sound(a, old), NEW fd \in Opt(Socket), NEW user \in BOOLEAN
    PROVE  /\ Sound(a, WithFd(old, fd, user))
           /\ WithFd(old, fd, user).fd = fd /\ WithFd(old, fd, user).fd_user = user
<1> DEFINE rec == WithFd(old, fd, user)
<1>1. old \in AddrRec
  BY DEF Sound
<1>2. /\ rec \in AddrRec /\ rec.fd = fd /\ rec.fd_user = user
  BY <1>1 DEF AddrRec, WithFd
<1>3. /\ rec.ai = old.ai /\ rec.ai_free = old.ai_free /\ rec.saddr = old.saddr
      /\ rec.node = old.node /\ rec.node_set = old.node_set
  BY <1>1 DEF AddrRec, WithFd
<1>4. ListSound(rec) /\ PointerSound(a, rec) /\ NodeSound(rec)
  BY <1>3 DEF Sound, ListSound, PointerSound, NodeSound
<1> HIDE DEF rec
<1> QED BY <1>2, <1>4 DEF Sound, rec

(* The descriptor comes from the client, who gives it up or keeps it.       *)
LEMMA BySockFDStep == ASSUME AddrInv, NEW a \in Addr, ByAnySockFD(a) PROVE AddrInv'
<1>1. PICK fd \in open, close_on_free \in BOOLEAN, sa \in (Inet \cup Unix), socktype \in SockType :
        /\ close_on_free => fd \in client
        /\ NewAddr(a, [BySAddr(sa, "exact", socktype, NULL, a) EXCEPT
                         !.fd = fd, !.fd_user = ~close_on_free])
        /\ client' = IF close_on_free THEN client \ {fd} ELSE client
  BY DEF ByAnySockFD
<1> DEFINE old == BySAddr(sa, "exact", socktype, NULL, a)
           rec == [old EXCEPT !.fd = fd, !.fd_user = ~close_on_free]
<1>2. fd \in Socket
  BY DEF AddrInv, Parties
<1>3. Sound(a, old)
  BY BySAddrSound DEF Opt, Length
<1>4. Sound(a, rec) /\ rec.fd = fd /\ rec.fd_user = ~close_on_free
  <2> HIDE DEF old
  <2>1. PICK user \in BOOLEAN : user = ~close_on_free
    BY Zenon
  <2>2. fd \in Opt(Socket)
    BY <1>2 DEF Opt
  <2>3. /\ Sound(a, WithFd(old, fd, user))
        /\ WithFd(old, fd, user).fd = fd /\ WithFd(old, fd, user).fd_user = user
    BY <1>3, <2>2, FdSetSound
  <2>4. rec = WithFd(old, fd, user)
    BY <2>1, Zenon DEF WithFd
  <2> QED BY <2>1, <2>3, <2>4, Zenon
<1>5. Update(a, rec) /\ Closes(a) = {}
  BY <1>1 DEF NewAddr, Update, Closes
<1>6. Records'
  BY <1>4, <1>5, RecordsUpdated DEF AddrInv
<1>7. /\ Closes(a)' = IF close_on_free THEN {fd} ELSE {}
      /\ \A b \in Addr \ {a} : Closes(b)' = Closes(b)
  BY <1>2, <1>4, <1>5, ClosesUpdated DEF AddrInv, Closed
<1>8. Parties'
  <2>1. CASE close_on_free
    BY <1>1, <1>5, <1>7, <2>1 DEF AddrInv, Parties, ByAnySockFD
  <2>2. CASE ~close_on_free
    <3>1. client' = client /\ open' = open /\ \A b \in Addr : Closes(b)' = Closes(b)
      BY <1>1, <1>5, <1>7, <2>2 DEF ByAnySockFD
    <3> QED BY <3>1 DEF AddrInv, Parties
  <2> QED BY <2>1, <2>2
<1> QED BY <1>6, <1>8, CallCounts DEF AddrInv, ByAnySockFD
-----------------------------------------------------------------------------
(*                       Copying and freeing                               *)

LEMMA CopiedList ==
    ASSUME NEW ai \in Seq(AddrInfo), NEW n \in 0..Len(ai)
    PROVE  /\ CopyAddrRecs(ai, n) \in Seq(AddrInfo)
           /\ DOMAIN CopyAddrRecs(ai, n) = 1..n
           /\ \A i \in 1..n : /\ CopyAddrRecs(ai, n)[i].by = "library"
                             /\ CopyAddrRecs(ai, n)[i].sa = ai[i].sa
                             /\ CopyAddrRecs(ai, n)[i].addrlen = ai[i].addrlen
<1>1. \A i \in 1..n : ai[i] \in AddrInfo
  OBVIOUS
<1>2. \A el \in AddrInfo : /\ [el EXCEPT !.by = "library"] \in AddrInfo
                            /\ [el EXCEPT !.by = "library"].by = "library"
                            /\ [el EXCEPT !.by = "library"].sa = el.sa
                            /\ [el EXCEPT !.by = "library"].addrlen = el.addrlen
  BY DEF AddrInfo
<1> DEFINE copy == CopyAddrRecs(ai, n)
<1>3. n \in Nat /\ copy = [i \in 1..n |-> [ai[i] EXCEPT !.by = "library"]]
  BY DEF CopyAddrRecs
<1>4. \A i \in 1..n : /\ copy[i] \in AddrInfo /\ copy[i].by = "library"
                      /\ copy[i].sa = ai[i].sa /\ copy[i].addrlen = ai[i].addrlen
  <2>1. \A i \in 1..n : copy[i] = [ai[i] EXCEPT !.by = "library"]
    BY <1>3, Zenon
  <2> HIDE DEF copy
  <2> SUFFICES ASSUME NEW i \in 1..n
               PROVE  /\ copy[i] \in AddrInfo /\ copy[i].by = "library"
                      /\ copy[i].sa = ai[i].sa /\ copy[i].addrlen = ai[i].addrlen
    OBVIOUS
  <2>2. PICK el \in AddrInfo : el = ai[i]
    BY <1>1, Zenon
  <2>3. copy[i] = [el EXCEPT !.by = "library"]
    BY <2>1, <2>2, Zenon
  <2> QED BY <1>2, <2>2, <2>3, Zenon
<1>5. DOMAIN copy = 1..n
  BY <1>3
<1>6. copy = [i \in 1..n |-> copy[i]]
  BY <1>3, Zenon
<1> HIDE DEF copy
<1>7. copy \in Seq(AddrInfo)
  <2>1. \A i \in 1..n : copy[i] \in AddrInfo
    BY <1>4, Zenon
  <2> QED BY <1>3, <1>6, <2>1
<1> QED BY <1>4, <1>5, <1>7 DEF copy

LEMMA WholeCopySound ==
    ASSUME NEW a \in Addr, NEW b \in Addr, NEW from, Sound(a, from)
    PROVE  Sound(b, PartCopy(from, b, Len(from.ai)))
<1> DEFINE n == Len(from.ai)
           rec == PartCopy(from, b, n)
<1>1. from \in AddrRec /\ from.ai \in Seq(AddrInfo) /\ n \in Nat /\ n \in 0..n
  BY DEF Sound, AddrRec
<1>2. /\ CopyAddrRecs(from.ai, n) \in Seq(AddrInfo)
      /\ DOMAIN CopyAddrRecs(from.ai, n) = 1..n
      /\ \A i \in 1..n : /\ CopyAddrRecs(from.ai, n)[i].by = "library"
                        /\ CopyAddrRecs(from.ai, n)[i].sa = from.ai[i].sa
  BY <1>1, CopiedList
<1>3. /\ rec.ai = CopyAddrRecs(from.ai, n) /\ rec.ai_free = (from.ai # <<>>)
      /\ rec.node_set = from.node_set
      /\ rec.node = IF from.node_set THEN from.node ELSE "unknown"
      /\ rec.saddr = IF Reached(from, n) THEN <<b, from.saddr[2]>> ELSE NULL
  BY DEF PartCopy, _I2AddrAlloc
<1>4. from.saddr # NULL => /\ from.saddr[2] \in Nat \ {0} /\ from.saddr[2] \in 1..n
                           /\ <<b, from.saddr[2]>> \in Pointer
  BY <1>1 DEF Sound, PointerSound, AddrRec, Opt, Pointer
<1>5. rec.saddr = IF from.saddr # NULL THEN <<b, from.saddr[2]>> ELSE NULL
  BY <1>3, <1>4 DEF Reached
<1>6. rec \in AddrRec
  <2>1. PICK list \in Seq(AddrInfo) : list = CopyAddrRecs(from.ai, n)
    BY <1>2
  <2>2. PICK free \in BOOLEAN : free = (from.ai # <<>>)
    BY Zenon
  <2>3. PICK node \in Host \cup {"unknown", "unixsock"} :
          node = IF from.node_set THEN from.node ELSE _I2AddrAlloc.node
    BY <1>1 DEF AddrRec, _I2AddrAlloc
  <2>4. PICK port \in Port \cup {"unknown", "unnamed", "0"} :
          port = IF from.port_set THEN from.port ELSE _I2AddrAlloc.port
    BY <1>1 DEF AddrRec, _I2AddrAlloc
  <2>5. PICK value \in Opt(Port) :
          value = IF from.port_set THEN from.port_value ELSE _I2AddrAlloc.port_value
    BY <1>1 DEF AddrRec, _I2AddrAlloc, Opt
  <2>6. PICK saddr \in Opt(Pointer) :
          saddr = IF Reached(from, n) THEN <<b, from.saddr[2]>> ELSE NULL
    BY <1>4 DEF Opt, Reached
  <2>10. PICK len \in Opt(Length) :
          len = IF Reached(from, n) THEN from.ai[from.saddr[2]].addrlen ELSE NULL
    <3>1. Reached(from, n) => from.ai[from.saddr[2]] \in AddrInfo
      BY <1>1, <1>4 DEF Reached
    <3> QED BY <3>1 DEF Opt, AddrInfo
  <2>11. PICK origin \in Origin : origin = CopiedOrigin(from)
    BY <1>1 DEF CopiedOrigin, AddrRec, Origin, NoOrigin
  <2>7. rec = [_I2AddrAlloc EXCEPT !.node = node, !.node_set = from.node_set,
                 !.port = port, !.port_set = from.port_set, !.port_value = value,
                 !.ai = list, !.ai_free = free, !.saddr = saddr, !.saddrlen = len,
                 !.origin = origin]
    BY <2>1, <2>2, <2>3, <2>4, <2>5, <2>6, <2>10, <2>11, Zenon DEF PartCopy
  <2>8. _I2AddrAlloc \in AddrRec
    BY DEF AddrRec, _I2AddrAlloc, Opt, NoOrigin, Origin
  <2>9. from.node_set \in BOOLEAN /\ from.port_set \in BOOLEAN
    BY <1>1 DEF AddrRec
  <2> HIDE DEF rec
  <2> QED BY <2>7, <2>8, <2>9 DEF AddrRec
<1>7. ListSound(rec)
  <2>1. CASE from.ai = <<>>
    BY <1>2, <1>3, <2>1 DEF ListSound
  <2>2. CASE from.ai # <<>>
    <3>1. rec.ai_free /\ DOMAIN rec.ai = 1..n /\ DOMAIN from.ai = 1..n
      <4>1. rec.ai_free
        BY <1>3, <2>2, Zenon
      <4>2. DOMAIN rec.ai = 1..n
        BY <1>2, <1>3, Zenon
      <4>3. DOMAIN from.ai = 1..n
        BY <1>1
      <4> QED BY <4>1, <4>2, <4>3
    <3>2. \A i \in 1..n : rec.ai[i].by = "library" /\ rec.ai[i].sa = from.ai[i].sa
      BY <1>2, <1>3
    <3>3. \A i \in 1..n : from.ai[i].sa.fam # "unix" => from.ai[i].sa.host \in Host
      BY <3>1 DEF Sound, ListSound
    <3> HIDE DEF rec
    <3> QED BY <3>1, <3>2, <3>3 DEF ListSound
  <2> QED BY <2>1, <2>2
<1>8. PointerSound(b, rec)
  BY <1>2, <1>3, <1>4, <1>5 DEF PointerSound
<1>9. NodeSound(rec)
  BY <1>3, <1>4, <1>5, NoAddressAssumption DEF NodeSound, Sound
<1> QED BY <1>6, <1>7, <1>8, <1>9 DEF Sound

LEMMA CopyStep == ASSUME AddrInv, NEW a \in Addr, NEW b \in Addr, I2AddrCopy(a, b) PROVE AddrInv'
<1> DEFINE whole == PartCopy(addr[a], b, Len(addr[a].ai))
<1>1. Sound(a, addr[a]) /\ addr[a] \in AddrRec /\ addr[a].fd \in Opt(Socket)
  BY DEF AddrInv, Records, I2AddrCopy, Sound, AddrRec
<1>2. Sound(b, whole)
  BY <1>1, WholeCopySound
<1>3. CASE /\ NewAddr(b, [whole EXCEPT !.fd = addr[a].fd, !.fd_user = addr[a].fd # NULL])
           /\ UNCHANGED <<open, client>>
  <2>1. PICK user \in BOOLEAN : user = (addr[a].fd # NULL)
    BY Zenon
  <2> HIDE DEF whole
  <2>2. NewAddr(b, WithFd(whole, addr[a].fd, user))
    BY <1>3, <2>1, Zenon DEF WithFd
  <2>3. /\ Sound(b, WithFd(whole, addr[a].fd, user))
        /\ WithFd(whole, addr[a].fd, user).fd = addr[a].fd
        /\ WithFd(whole, addr[a].fd, user).fd_user = user
    BY <1>1, <1>2, FdSetSound
  <2>4. WithFd(whole, addr[a].fd, user).fd = NULL \/ WithFd(whole, addr[a].fd, user).fd_user
    BY <2>1, <2>3
  <2> QED BY <1>3, <2>2, <2>3, <2>4, MakesIdle DEF I2AddrCopy
<1>4. CASE \E n \in 0..(Len(addr[a].ai) - 1) :
             /\ addr[b] = NULL
             /\ open' = open \ Closed(PartCopy(addr[a], b, n))
             /\ UNCHANGED <<addr, client>>
  <2>1. \A n : Closed(PartCopy(addr[a], b, n)) = {}
    BY NullAssumption DEF Closed, PartCopy, _I2AddrAlloc
  <2>2. UNCHANGED <<addr, open, client>>
    BY <1>4, <2>1
  <2> QED BY <2>2, CallCounts DEF AddrInv, Records, Parties, Closes, I2AddrCopy
<1> QED BY <1>3, <1>4 DEF I2AddrCopy

LEMMA FreeStep == ASSUME AddrInv, NEW a \in Addr, I2AddrFree(a) PROVE AddrInv'
<1>1. Records'
  BY DEF AddrInv, Records, I2AddrFree, Update
<1>2. Closes(a)' = {} /\ \A b \in Addr \ {a} : Closes(b)' = Closes(b)
  BY DEF AddrInv, Records, I2AddrFree, Update, Closes
<1>3. open' = open \ Closes(a) /\ client' = client
  BY DEF I2AddrFree, Closes
<1>4. Parties'
  BY <1>2, <1>3 DEF AddrInv, Parties
<1> QED BY <1>1, <1>4, CallCounts DEF AddrInv, I2AddrFree
-----------------------------------------------------------------------------
(*                         Names from the address                          *)

(* What a getter or a setter of names leaves alone. *)
SameList(rec, new) ==
    /\ new.ai = rec.ai /\ new.ai_free = rec.ai_free /\ new.saddr = rec.saddr
    /\ new.fd = rec.fd /\ new.fd_user = rec.fd_user

LEMMA SameListSound ==
    ASSUME NEW a \in Addr, NEW rec, NEW new \in AddrRec, Sound(a, rec), SameList(rec, new),
           NodeSound(new)
    PROVE  Sound(a, new)
BY DEF Sound, ListSound, PointerSound, SameList

LEMMA PointsInside ==
    ASSUME AddrInv, NEW a \in Addr, addr[a] # NULL, addr[a].saddr # NULL
    PROVE  /\ SA(a) \in SockAddr
           /\ SA(a).fam # "unix" => SA(a).host \in Host
           /\ SA(a) = addr[a].ai[addr[a].saddr[2]].sa
<1>1. Sound(a, addr[a]) /\ addr[a].ai \in Seq(AddrInfo)
  BY DEF AddrInv, Records, Sound, AddrRec
<1>2. addr[a].saddr[1] = a /\ addr[a].saddr[2] \in DOMAIN addr[a].ai
  BY <1>1 DEF Sound, PointerSound
<1>3. SA(a) = addr[a].ai[addr[a].saddr[2]].sa
  BY <1>2 DEF SA
<1>4. addr[a].ai[addr[a].saddr[2]] \in AddrInfo
  BY <1>1, <1>2
<1> QED BY <1>1, <1>2, <1>3, <1>4 DEF AddrInfo, Sound, ListSound

LEMMA PortNamed ==
    ASSUME NEW rec \in AddrRec, NEW sa \in SockAddr, NEW new \in _I2AddrSetPort(rec, sa)
    PROVE  /\ new \in AddrRec /\ SameList(rec, new)
           /\ new.node = rec.node /\ new.node_set = rec.node_set
<1>1. sa.port \in Opt(Port) /\ PortName(sa.port) \in Port \cup {"0"}
  BY DEF SockAddr, PortName, Opt
<1>2. CASE new = rec
  BY <1>2 DEF SameList
<1>3. CASE new = [rec EXCEPT !.port = "unnamed", !.port_set = TRUE, !.port_value = NULL]
  BY <1>3 DEF SameList, AddrRec, Opt
<1>4. CASE new = [rec EXCEPT !.port = "unknown"]
  BY <1>4 DEF SameList, AddrRec
<1>5. CASE new = [rec EXCEPT !.port = PortName(sa.port), !.port_set = TRUE, !.port_value = sa.port]
  BY <1>1, <1>5 DEF SameList, AddrRec
<1> QED BY <1>2, <1>3, <1>4, <1>5 DEF _I2AddrSetPort

LEMMA NodePortNamed ==
    ASSUME NEW rec \in AddrRec, NEW sa \in SockAddr, sa.fam # "unix" => sa.host \in Host,
           NEW new \in _I2AddrSetNodePort(rec, sa)
    PROVE  new \in AddrRec /\ SameList(rec, new)
<1>1. CASE new = rec
  BY <1>1 DEF SameList
<1>2. CASE new = [rec EXCEPT !.node = "unknown"]
  BY <1>2 DEF SameList, AddrRec
<1>3. ASSUME NEW node \in Host \cup {"unixsock"},
             new \in _I2AddrSetPort([rec EXCEPT !.node = node, !.node_set = TRUE], sa)
      PROVE  new \in AddrRec /\ SameList(rec, new)
  <2> DEFINE named == [rec EXCEPT !.node = node, !.node_set = TRUE]
  <2>1. named \in AddrRec /\ SameList(rec, named)
    BY DEF AddrRec, SameList
  <2>2. new \in AddrRec /\ SameList(named, new)
    BY <1>3, <2>1, PortNamed
  <2> QED BY <2>1, <2>2 DEF SameList
<1>4. CASE sa.fam = "unix"
  BY <1>1, <1>3, <1>4 DEF _I2AddrSetNodePort
<1>5. CASE sa.fam # "unix"
  BY <1>1, <1>2, <1>3, <1>5 DEF _I2AddrSetNodePort
<1> QED BY <1>4, <1>5

LEMMA PortStep == ASSUME AddrInv, NEW a \in Addr, I2AddrPort(a) PROVE AddrInv'
<1>1. PICK new \in _I2AddrSetPort(addr[a], SA(a)) : Update(a, new)
  BY DEF I2AddrPort
<1>2. Sound(a, addr[a]) /\ addr[a] \in AddrRec /\ addr[a] # NULL /\ addr[a].saddr # NULL
  BY DEF AddrInv, Records, Sound, I2AddrPort
<1>3. SA(a) \in SockAddr
  BY <1>2, PointsInside
<1>4. new \in AddrRec /\ SameList(addr[a], new)
  BY <1>2, <1>3, PortNamed
<1>5. Sound(a, new)
  BY <1>2, <1>4, SameListSound DEF NodeSound, SameList
<1> QED BY <1>1, <1>2, <1>4, <1>5, KeepsOwner DEF I2AddrPort, SameList

LEMMA NodeServNameStep ==
    ASSUME AddrInv, NEW a \in Addr, I2AddrNodeServName(a) PROVE AddrInv'
<1>1. PICK new \in _I2AddrSetNodePort(addr[a], SA(a)) : Update(a, new)
  BY DEF I2AddrNodeServName
<1>2. Sound(a, addr[a]) /\ addr[a] \in AddrRec /\ addr[a] # NULL /\ addr[a].saddr # NULL
  BY DEF AddrInv, Records, Sound, I2AddrNodeServName
<1>3. SA(a) \in SockAddr /\ (SA(a).fam # "unix" => SA(a).host \in Host)
  BY <1>2, PointsInside
<1>4. new \in AddrRec /\ SameList(addr[a], new)
  BY <1>2, <1>3, NodePortNamed
<1>5. Sound(a, new)
  BY <1>2, <1>4, SameListSound DEF NodeSound, SameList
<1> QED BY <1>1, <1>2, <1>4, <1>5, KeepsOwner DEF I2AddrNodeServName, SameList
-----------------------------------------------------------------------------
(*                               Setters                                   *)

LEMMA SetSAddrStep == ASSUME AddrInv, NEW a \in Addr, I2AddrSetSAddr(a) PROVE AddrInv'
<1>1. PICK i \in DOMAIN addr[a].ai :
         Update(a, [addr[a] EXCEPT !.saddr = <<a, i>>, !.saddrlen = addr[a].ai[i].addrlen,
                                   !.node_set = FALSE, !.port_set = FALSE,
                                   !.port_value = NULL])
  BY DEF I2AddrSetSAddr
<1> DEFINE rec == addr[a]
           new == [rec EXCEPT !.saddr = <<a, i>>, !.saddrlen = rec.ai[i].addrlen,
                              !.node_set = FALSE, !.port_set = FALSE, !.port_value = NULL]
<1>2. Sound(a, rec) /\ rec \in AddrRec /\ rec # NULL /\ rec.ai \in Seq(AddrInfo)
  BY DEF AddrInv, Records, Sound, AddrRec, I2AddrSetSAddr
<1>3. <<a, i>> \in Pointer /\ <<a, i>>[1] = a /\ <<a, i>>[2] = i
  BY <1>2 DEF Pointer
<1> HIDE DEF rec
<1>4. /\ new \in AddrRec /\ new.saddr = <<a, i>> /\ ~new.node_set
      /\ new.ai = rec.ai /\ new.ai_free = rec.ai_free
      /\ new.fd = rec.fd /\ new.fd_user = rec.fd_user
  <2>1. PICK ptr \in Pointer : ptr = <<a, i>>
    BY <1>3
  <2>6. rec.ai[i] \in AddrInfo
    BY <1>2 DEF rec
  <2>5. PICK len \in Length : len = rec.ai[i].addrlen
    BY <2>6 DEF AddrInfo
  <2>2. [rec EXCEPT !.saddr = ptr, !.saddrlen = len, !.node_set = FALSE,
                    !.port_set = FALSE, !.port_value = NULL] \in AddrRec
    BY <1>2 DEF AddrRec, Opt
  <2>3. new \in AddrRec
    BY <2>1, <2>2, <2>5, Zenon
  <2>4. /\ new.saddr = <<a, i>> /\ ~new.node_set
        /\ new.ai = rec.ai /\ new.ai_free = rec.ai_free
        /\ new.fd = rec.fd /\ new.fd_user = rec.fd_user
    BY <1>2 DEF AddrRec
  <2> QED BY <2>3, <2>4
<1>5. i \in DOMAIN rec.ai
  BY DEF rec
<1> HIDE DEF new
<1>6. Sound(a, new)
  BY <1>2, <1>3, <1>4, <1>5 DEF Sound, ListSound, PointerSound, NodeSound
<1> QED BY <1>1, <1>2, <1>4, <1>6, KeepsOwner DEF I2AddrSetSAddr, rec, new

(* What the address closed goes back to the client, and what it closes now  *)
(* was the client's.                                                        *)
LEMMA SetFDStep == ASSUME AddrInv, NEW a \in Addr, I2AddrSetFD(a) PROVE AddrInv'
<1>1. PICK fd \in open \cup {NULL}, close_on_free \in BOOLEAN :
         /\ ~(fd # NULL /\ fd # addr[a].fd /\ addr[a].fd # NULL)
         /\ fd # NULL /\ close_on_free => fd \in client \cup Owned(a)
         /\ Update(a, [addr[a] EXCEPT !.fd = fd, !.fd_user = ~close_on_free])
         /\ client' = (client \cup Owned(a)) \ (IF close_on_free THEN {fd} ELSE {})
  BY DEF I2AddrSetFD
<1>2. PICK user \in BOOLEAN : user = ~close_on_free
  BY Zenon
<1> DEFINE rec == WithFd(addr[a], fd, user)
<1>3. Sound(a, addr[a]) /\ addr[a] # NULL /\ open' = open
  BY DEF AddrInv, Records, I2AddrSetFD
<1>4. fd \in Opt(Socket)
  BY DEF AddrInv, Parties, Opt
<1>5. Sound(a, rec) /\ rec.fd = fd /\ rec.fd_user = user
  BY <1>3, <1>4, FdSetSound
<1>6. Update(a, rec)
  BY <1>1, <1>2, Zenon DEF WithFd
<1> HIDE DEF rec
<1>7. Records'
  BY <1>5, <1>6, RecordsUpdated DEF AddrInv
<1>8. /\ Closes(a)' = IF close_on_free THEN {fd} \cap Socket ELSE {}
      /\ \A b \in Addr \ {a} : Closes(b)' = Closes(b)
  BY <1>2, <1>5, <1>6, ClosesUpdated DEF AddrInv, Closed
<1>9. Owned(a) = Closes(a)
  BY <1>3 DEF Owned, Closes
<1>10. NULL \notin Socket
  BY NullAssumption
<1>11. Parties'
  <2>1. CASE close_on_free
    <3>1. client' = (client \cup Closes(a)) \ {fd} /\ Closes(a)' = {fd} \cap Socket
      BY <1>1, <1>8, <1>9, <2>1
    <3>2. fd # NULL => fd \in client \cup Closes(a)
      BY <1>1, <1>9, <2>1
    <3> QED BY <1>3, <1>4, <1>8, <1>10, <3>1, <3>2 DEF AddrInv, Parties, Opt
  <2>2. CASE ~close_on_free
    <3>1. client' = client \cup Closes(a) /\ Closes(a)' = {}
      BY <1>1, <1>8, <1>9, <2>2
    <3> QED BY <1>3, <1>8, <3>1 DEF AddrInv, Parties
  <2> QED BY <2>1, <2>2
<1> QED BY <1>7, <1>11, CallCounts DEF AddrInv, I2AddrSetFD

(* The port of one element of a list, written through the pointer. *)
LEMMA PortWritten ==
    ASSUME NEW ai \in Seq(AddrInfo), NEW i \in DOMAIN ai, NEW p \in Opt(Port)
    PROVE  LET new == [ai EXCEPT ![i].sa.port = p]
           IN /\ new \in Seq(AddrInfo) /\ DOMAIN new = DOMAIN ai
              /\ \A j \in DOMAIN ai : /\ new[j].by = ai[j].by
                                     /\ new[j].sa.fam = ai[j].sa.fam
                                     /\ new[j].sa.host = ai[j].sa.host
                                     /\ new[j].addrlen = ai[j].addrlen
                                     /\ new[j].socktype = ai[j].socktype
                                     /\ new[j].protocol = ai[j].protocol
<1> DEFINE el == [ai[i] EXCEPT !.sa.port = p]
           new == [ai EXCEPT ![i] = el]
<1>1. ai[i] \in AddrInfo
  OBVIOUS
<1>2. [ai[i].sa EXCEPT !.port = p] \in SockAddr
  BY <1>1 DEF AddrInfo, SockAddr
<1>3. /\ el \in AddrInfo /\ el.by = ai[i].by /\ el.sa = [ai[i].sa EXCEPT !.port = p]
      /\ el.addrlen = ai[i].addrlen /\ el.socktype = ai[i].socktype
      /\ el.protocol = ai[i].protocol
  BY <1>1, <1>2 DEF AddrInfo
<1>4. el.sa.fam = ai[i].sa.fam /\ el.sa.host = ai[i].sa.host
  BY <1>1, <1>3 DEF AddrInfo, SockAddr
<1>5. new = [ai EXCEPT ![i].sa.port = p]
  OBVIOUS
<1> HIDE DEF el
<1>6. new \in Seq(AddrInfo) /\ DOMAIN new = DOMAIN ai
  BY <1>3
<1>7. \A j \in DOMAIN ai : new[j] = IF j = i THEN el ELSE ai[j]
  OBVIOUS
<1> HIDE DEF new
<1>8. \A j \in DOMAIN ai : /\ new[j].by = ai[j].by
                          /\ new[j].sa.fam = ai[j].sa.fam
                          /\ new[j].sa.host = ai[j].sa.host
                          /\ new[j].addrlen = ai[j].addrlen
                          /\ new[j].socktype = ai[j].socktype
                          /\ new[j].protocol = ai[j].protocol
  BY <1>3, <1>4, <1>7
<1> QED BY <1>5, <1>6, <1>8

LEMMA PortWrittenThere ==
    ASSUME NEW ai \in Seq(AddrInfo), NEW i \in DOMAIN ai, NEW p \in Opt(Port)
    PROVE  /\ [ai EXCEPT ![i].sa.port = p][i].sa.port = p
           /\ \A j \in DOMAIN ai : j # i => [ai EXCEPT ![i].sa.port = p][j] = ai[j]
<1>1. ai[i] \in AddrInfo
  OBVIOUS
<1>2. [ai[i].sa EXCEPT !.port = p].port = p
  BY <1>1 DEF AddrInfo, SockAddr
<1>3. [ai[i] EXCEPT !.sa.port = p].sa = [ai[i].sa EXCEPT !.port = p]
  BY <1>1 DEF AddrInfo
<1> QED BY <1>2, <1>3

LEMMA SetPortStep == ASSUME AddrInv, NEW a \in Addr, I2AddrSetPort(a) PROVE AddrInv'
<1> DEFINE rec == addr[a]
           named(p) == [rec EXCEPT !.port = PortName(p), !.port_set = TRUE, !.port_value = p]
<1>1. PICK p \in Opt(Port) :
        \/ rec.saddr = NULL /\ Update(a, named(p))
        \/ /\ rec.saddr # NULL
           /\ Update(a, [named(p) EXCEPT !.ai[rec.saddr[2]].sa.port = p, !.saddrlen = "exact"])
  BY DEF I2AddrSetPort
<1>2. Sound(a, rec) /\ rec \in AddrRec /\ rec # NULL /\ rec.ai \in Seq(AddrInfo)
  BY DEF AddrInv, Records, Sound, AddrRec, I2AddrSetPort
<1> HIDE DEF rec
<1>3. PortName(p) \in Port \cup {"0"}
  BY DEF PortName, Opt
<1>4. /\ named(p) \in AddrRec /\ SameList(rec, named(p))
      /\ named(p).node = rec.node /\ named(p).node_set = rec.node_set
  <2>1. named(p) \in AddrRec
    BY <1>2, <1>3 DEF AddrRec
  <2>2. SameList(rec, named(p))
    BY DEF SameList
  <2> QED BY <2>1, <2>2
<1> HIDE DEF named
<1>5. Sound(a, named(p))
  BY <1>2, <1>4, SameListSound DEF Sound, NodeSound, SameList
<1>6. CASE rec.saddr = NULL /\ Update(a, named(p))
  BY <1>2, <1>4, <1>5, <1>6, KeepsOwner DEF I2AddrSetPort, SameList, rec
<1>7. CASE /\ rec.saddr # NULL
           /\ Update(a, [named(p) EXCEPT !.ai[rec.saddr[2]].sa.port = p, !.saddrlen = "exact"])
  <2> DEFINE i == rec.saddr[2]
             ai == [named(p).ai EXCEPT ![i].sa.port = p]
             new == [named(p) EXCEPT !.ai = ai, !.saddrlen = "exact"]
  <2>1. i \in DOMAIN named(p).ai /\ named(p).ai \in Seq(AddrInfo)
    BY <1>2, <1>4, <1>7 DEF Sound, PointerSound, SameList
  <2>2. /\ ai \in Seq(AddrInfo) /\ DOMAIN ai = DOMAIN named(p).ai
        /\ \A j \in DOMAIN named(p).ai :
             /\ ai[j].by = named(p).ai[j].by
             /\ ai[j].sa.fam = named(p).ai[j].sa.fam
             /\ ai[j].sa.host = named(p).ai[j].sa.host
    BY <2>1, PortWritten
  <2>3. [named(p) EXCEPT !.ai[rec.saddr[2]].sa.port = p, !.saddrlen = "exact"] = new
    OBVIOUS
  <2> HIDE DEF ai, i
  <2>4. /\ new \in AddrRec /\ new.ai = ai /\ new.ai_free = named(p).ai_free
        /\ new.saddr = named(p).saddr /\ new.fd = named(p).fd /\ new.fd_user = named(p).fd_user
        /\ new.node = named(p).node /\ new.node_set = named(p).node_set
    BY <1>4, <2>2 DEF AddrRec, Opt, Length
  <2> HIDE DEF new
  <2>5. ListSound(new)
    BY <1>5, <2>2, <2>4 DEF Sound, ListSound
  <2>6. PointerSound(a, new) /\ NodeSound(new)
    BY <1>5, <2>2, <2>4 DEF Sound, PointerSound, NodeSound
  <2>7. Sound(a, new) /\ Update(a, new)
    BY <1>7, <2>3, <2>4, <2>5, <2>6 DEF Sound
  <2> QED BY <1>2, <1>4, <2>4, <2>7, KeepsOwner DEF I2AddrSetPort, SameList, rec
<1> QED BY <1>1, <1>6, <1>7

(* The list dropped, and perhaps a setting changed. *)
Cleared(rec, new) ==
    /\ new \in AddrRec /\ new.ai = <<>> /\ new.saddr = NULL /\ new.saddrlen = NULL
    /\ new.origin = NoOrigin
    /\ new.node = rec.node /\ new.node_set = rec.node_set
    /\ new.fd = rec.fd /\ new.fd_user = rec.fd_user

LEMMA ClearAISound ==
    ASSUME NEW rec \in AddrRec PROVE Cleared(rec, _I2AddrClearAI(rec))
<1> DEFINE new == _I2AddrClearAI(rec)
<1>1. <<>> \in Seq(AddrInfo)
  OBVIOUS
<1>2. new \in AddrRec
  BY <1>1 DEF _I2AddrClearAI, AddrRec, Opt, NoOrigin, Origin
<1>3. /\ new.ai = <<>> /\ new.saddr = NULL /\ new.saddrlen = NULL
      /\ new.origin = NoOrigin
      /\ new.node = rec.node /\ new.node_set = rec.node_set
      /\ new.fd = rec.fd /\ new.fd_user = rec.fd_user
  BY DEF _I2AddrClearAI, AddrRec
<1> QED BY <1>2, <1>3 DEF Cleared

LEMMA ClearedSound ==
    ASSUME NEW a \in Addr, NEW rec, Sound(a, rec), rec.saddr = NULL,
           NEW new, Cleared(rec, new)
    PROVE  Sound(a, new)
BY DEF Cleared, Sound, ListSound, PointerSound, NodeSound

(* A value set for the first time, which leaves the list as it is. *)
Noted(rec, setting) == [rec.origin EXCEPT !.late = @ \cup Late(rec, setting)]

LEMMA NotedOrigin ==
    ASSUME NEW rec \in AddrRec, NEW setting \in {"so_type", "so_protocol"}
    PROVE  /\ Noted(rec, setting) \in Origin
           /\ Noted(rec, setting).late = rec.origin.late \cup Late(rec, setting)
           /\ Noted(rec, setting).passive = rec.origin.passive
           /\ Noted(rec, setting).given = rec.origin.given
           /\ Noted(rec, setting).copied = rec.origin.copied
<1>1. rec.origin \in Origin
  BY DEF AddrRec
<1>2. PICK late \in SUBSET {"so_type", "so_protocol"} :
        late = rec.origin.late \cup Late(rec, setting)
  BY <1>1 DEF Origin, Late
<1>3. Noted(rec, setting) = [rec.origin EXCEPT !.late = late]
  BY <1>2 DEF Noted
<1> QED BY <1>1, <1>2, <1>3 DEF Origin

LEMMA ProtocolStep == ASSUME AddrInv, NEW a \in Addr, I2AddrSetProtocol(a) PROVE AddrInv'
<1> DEFINE rec == addr[a]
<1>1. PICK value \in Opt(Protocol) :
        \/ Update(a, [rec EXCEPT !.so_protocol = value, !.origin = Noted(rec, "so_protocol")])
        \/ rec.saddr = NULL /\ Update(a, [_I2AddrClearAI(rec) EXCEPT !.so_protocol = value])
  BY DEF I2AddrSetProtocol, Unassociated, Noted
<1>2. Sound(a, rec) /\ rec \in AddrRec /\ rec # NULL
  BY DEF AddrInv, Records, Sound, I2AddrSetProtocol
<1> HIDE DEF rec
<1>3. CASE Update(a, [rec EXCEPT !.so_protocol = value, !.origin = Noted(rec, "so_protocol")])
  <2> DEFINE new == [rec EXCEPT !.so_protocol = value, !.origin = Noted(rec, "so_protocol")]
  <2>1. /\ new \in AddrRec /\ SameList(rec, new)
        /\ new.node = rec.node /\ new.node_set = rec.node_set
    BY <1>2, NotedOrigin DEF AddrRec, SameList
  <2> HIDE DEF new
  <2>2. Sound(a, new)
    BY <1>2, <2>1, SameListSound DEF Sound, NodeSound, SameList
  <2> QED BY <1>2, <1>3, <2>1, <2>2, KeepsOwner DEF I2AddrSetProtocol, SameList, rec, new
<1>4. CASE rec.saddr = NULL /\ Update(a, [_I2AddrClearAI(rec) EXCEPT !.so_protocol = value])
  <2> DEFINE new == [_I2AddrClearAI(rec) EXCEPT !.so_protocol = value]
  <2>1. Cleared(rec, _I2AddrClearAI(rec))
    BY <1>2, ClearAISound
  <2>2. Cleared(rec, new)
    BY <2>1 DEF Cleared, AddrRec
  <2> HIDE DEF new
  <2>3. Sound(a, new)
    BY <1>2, <1>4, <2>2, ClearedSound
  <2> QED BY <1>2, <1>4, <2>2, <2>3, KeepsOwner DEF I2AddrSetProtocol, Cleared, rec, new
<1> QED BY <1>1, <1>3, <1>4

LEMMA SocktypeStep == ASSUME AddrInv, NEW a \in Addr, I2AddrSetSocktype(a) PROVE AddrInv'
<1> DEFINE rec == addr[a]
<1>1. PICK value \in Opt(SockType) :
        \/ Update(a, [rec EXCEPT !.so_type = value, !.origin = Noted(rec, "so_type")])
        \/ rec.saddr = NULL /\ Update(a, [_I2AddrClearAI(rec) EXCEPT !.so_type = value])
  BY DEF I2AddrSetSocktype, Unassociated, Noted
<1>2. Sound(a, rec) /\ rec \in AddrRec /\ rec # NULL
  BY DEF AddrInv, Records, Sound, I2AddrSetSocktype
<1> HIDE DEF rec
<1>3. CASE Update(a, [rec EXCEPT !.so_type = value, !.origin = Noted(rec, "so_type")])
  <2> DEFINE new == [rec EXCEPT !.so_type = value, !.origin = Noted(rec, "so_type")]
  <2>1. /\ new \in AddrRec /\ SameList(rec, new)
        /\ new.node = rec.node /\ new.node_set = rec.node_set
    BY <1>2, NotedOrigin DEF AddrRec, SameList
  <2> HIDE DEF new
  <2>2. Sound(a, new)
    BY <1>2, <2>1, SameListSound DEF Sound, NodeSound, SameList
  <2> QED BY <1>2, <1>3, <2>1, <2>2, KeepsOwner DEF I2AddrSetSocktype, SameList, rec, new
<1>4. CASE rec.saddr = NULL /\ Update(a, [_I2AddrClearAI(rec) EXCEPT !.so_type = value])
  <2> DEFINE new == [_I2AddrClearAI(rec) EXCEPT !.so_type = value]
  <2>1. Cleared(rec, _I2AddrClearAI(rec))
    BY <1>2, ClearAISound
  <2>2. Cleared(rec, new)
    BY <2>1 DEF Cleared, AddrRec
  <2> HIDE DEF new
  <2>3. Sound(a, new)
    BY <1>2, <1>4, <2>2, ClearedSound
  <2> QED BY <1>2, <1>4, <2>2, <2>3, KeepsOwner DEF I2AddrSetSocktype, Cleared, rec, new
<1> QED BY <1>1, <1>3, <1>4

LEMMA PassiveStep == ASSUME AddrInv, NEW a \in Addr, I2AddrSetPassive(a) PROVE AddrInv'
<1> DEFINE rec == addr[a]
           new == [_I2AddrClearAI(rec) EXCEPT !.passive = ~@]
<1>1. Sound(a, rec) /\ rec \in AddrRec /\ rec # NULL /\ rec.saddr = NULL
  BY DEF AddrInv, Records, Sound, I2AddrSetPassive, Unassociated
<1> HIDE DEF rec
<1>2. Cleared(rec, _I2AddrClearAI(rec))
  BY <1>1, ClearAISound
<1>3. Cleared(rec, new)
  BY <1>2 DEF Cleared, AddrRec
<1>4. Sound(a, new)
  BY <1>1, <1>3, ClearedSound
<1> QED BY <1>1, <1>3, <1>4, KeepsOwner DEF I2AddrSetPassive, Cleared, rec

LEMMA AddrInfoStep == ASSUME AddrInv, NEW a \in Addr, I2AddrAddrInfo(a) PROVE AddrInv'
<1> DEFINE rec == addr[a]
           host(def_node) == OrElse(rec.node_set /\ rec.node # "unknown", rec.node, def_node)
           port(def_serv) == OrElse(rec.port_set, rec.port_value, def_serv)
           type == IF rec.so_type = NULL THEN Stream ELSE rec.so_type
           Found(list) == [rec EXCEPT !.ai = list, !.ai_free = FALSE,
                                  !.origin.passive = rec.passive]
<1>1. PICK def_node \in Opt(Host), def_serv \in Opt(Port) :
        \E list \in Lookups(IF host(def_node) = NULL THEN AnyHost ELSE host(def_node),
                            port(def_serv), type, rec.so_protocol) :
          Update(a, Found(list))
  BY DEF I2AddrAddrInfo
<1>2. PICK list \in Lookups(IF host(def_node) = NULL THEN AnyHost ELSE host(def_node),
                            port(def_serv), type, rec.so_protocol) :
          Update(a, Found(list))
  BY <1>1
<1>3. Sound(a, rec) /\ rec \in AddrRec /\ rec # NULL /\ rec.ai = <<>>
  BY DEF AddrInv, Records, Sound, I2AddrAddrInfo
<1> HIDE DEF rec
<1>4. rec.saddr = NULL
  BY <1>3 DEF Sound, PointerSound
<1>5. host(def_node) \in Opt(Host)
  BY <1>3, <1>4 DEF Sound, NodeSound, AddrRec, Opt, OrElse
<1>6. port(def_serv) \in Opt(Port) /\ type \in SockType /\ rec.so_protocol \in Opt(Protocol)
  BY <1>3, MemberAssumption DEF AddrRec, Opt, OrElse
<1>7. (IF host(def_node) = NULL THEN AnyHost ELSE host(def_node)) \in Host
  BY <1>5, MemberAssumption DEF Opt
<1> HIDE DEF host, port, type
<1>8. /\ list \in Seq(AddrInfo)
      /\ \A i \in DOMAIN list : list[i].by = "resolver" /\ list[i].sa.host \in Host
  BY <1>6, <1>7, LookupSound
<1> DEFINE new == Found(list)
<1>10. /\ new \in AddrRec /\ new.ai = list /\ new.ai_free = FALSE /\ new.saddr = NULL
       /\ new.node = rec.node /\ new.node_set = rec.node_set
       /\ new.fd = rec.fd /\ new.fd_user = rec.fd_user
  BY <1>3, <1>4, <1>8 DEF AddrRec, Origin
<1>11. Update(a, new)
  BY <1>2
<1> HIDE DEF new
<1>12. Sound(a, new)
  BY <1>3, <1>4, <1>8, <1>10 DEF Sound, ListSound, PointerSound, NodeSound
<1> QED BY <1>3, <1>10, <1>11, <1>12, KeepsOwner DEF I2AddrAddrInfo, rec
-----------------------------------------------------------------------------
(*                         The client's sockets                            *)

LEMMA OpenStep == ASSUME AddrInv, NEW fd \in Socket, OpenSocket(fd) PROVE AddrInv'
<1>1. Records' /\ \A b \in Addr : Closes(b)' = Closes(b)
  BY DEF AddrInv, Records, OpenSocket, Closes
<1>2. Parties'
  BY <1>1 DEF AddrInv, Parties, OpenSocket
<1> QED BY <1>1, <1>2 DEF AddrInv, OpenSocket

LEMMA CloseStep == ASSUME AddrInv, NEW fd \in Socket, CloseSocket(fd) PROVE AddrInv'
<1>1. Records' /\ \A b \in Addr : Closes(b)' = Closes(b)
  BY DEF AddrInv, Records, CloseSocket, Closes
<1>2. Parties'
  BY <1>1 DEF AddrInv, Parties, CloseSocket
<1> QED BY <1>1, <1>2 DEF AddrInv, CloseSocket

LEMMA InvNext == AddrInv /\ [Next]_vars => AddrInv'
<1> SUFFICES ASSUME AddrInv, [Next]_vars PROVE AddrInv'
  OBVIOUS
<1>1. CASE UNCHANGED vars
  BY <1>1 DEF vars, AddrInv, Records, Parties, Closes
<1>2. CASE \E fd \in Socket : OpenSocket(fd) \/ CloseSocket(fd)
  BY <1>2, OpenStep, CloseStep
<1>3. ASSUME NEW a \in Addr,
             \/ I2AddrByNode(a) \/ I2AddrByWildcard(a) \/ I2AddrBySAddr(a)
             \/ ByAnySockFD(a) \/ I2AddrFree(a)
             \/ I2AddrPort(a) \/ I2AddrNodeServName(a)
      PROVE  AddrInv'
  BY <1>3, ByNodeStep, ByWildcardStep, BySAddrStep, BySockFDStep, FreeStep, PortStep,
     NodeServNameStep
<1>4. ASSUME NEW a \in Addr,
             \/ I2AddrSetSAddr(a) \/ I2AddrSetFD(a) \/ I2AddrSetPort(a)
             \/ I2AddrSetProtocol(a) \/ I2AddrSetSocktype(a) \/ I2AddrSetPassive(a)
             \/ I2AddrAddrInfo(a)
             \/ \E b \in Addr : I2AddrCopy(a, b)
      PROVE  AddrInv'
  BY <1>4, SetSAddrStep, SetFDStep, SetPortStep, ProtocolStep, SocktypeStep, PassiveStep,
     AddrInfoStep, CopyStep
<1> QED BY <1>1, <1>2, <1>3, <1>4 DEF Next

LEMMA InvAlways == Spec => []AddrInv
BY InvInit, InvNext, PTL DEF Spec
-----------------------------------------------------------------------------
(*             What an address tells its client: the invariant             *)

BareUnix(rec) ==
    \A i \in DOMAIN rec.ai : rec.ai[i].sa.fam = "unix" => rec.ai[i].sa.port = NULL

(* The node and port kept as text are those of a socket address. *)
Names(rec, sa) ==
    /\ rec.node_set => rec.node \in {"unknown", IF sa.fam = "unix" THEN "unixsock" ELSE sa.host}
    /\ rec.port_set => rec.port_value = sa.port

NamesSound(rec) == rec.saddr # NULL => Names(rec, rec.ai[rec.saddr[2]].sa)

(* The list is the one the settings ask for, but for what was set late and  *)
(* what a copy forgets.                                                     *)
SettingsSound(rec) ==
    rec.ai # <<>> =>
        /\ \A i \in DOMAIN rec.ai :
             /\ rec.ai[i].socktype = rec.so_type
                   \/ rec.so_type = NULL \/ "so_type" \in rec.origin.late
             /\ rec.ai[i].protocol = rec.so_protocol
                   \/ rec.so_protocol = NULL \/ "so_protocol" \in rec.origin.late
        /\ rec.passive => rec.origin.passive
        /\ rec.origin.passive => rec.passive \/ rec.origin.copied

(* An address that was built from a socket address holds no mapped one, and *)
(* no other has a length that is not its family's.                          *)
GivenSound(rec) ==
    /\ rec.ai = <<>> => ~rec.origin.given
    /\ \A i \in DOMAIN rec.ai :
         /\ rec.origin.given => rec.ai[i].sa.fam # "mapped"
         /\ rec.ai[i].addrlen = "longer" => rec.origin.given
    /\ rec.saddr # NULL => rec.saddrlen \in Length
    /\ rec.saddr # NULL /\ rec.saddrlen = "longer" => rec.origin.given

Faithful(rec) == BareUnix(rec) /\ NamesSound(rec) /\ SettingsSound(rec) /\ GivenSound(rec)

Views == \A a \in Addr : addr[a] # NULL => Faithful(addr[a])

(* A descriptor that stays keeps what it was connected with. *)
Frozen(rec, new) ==
    rec.fd # NULL /\ new.fd = rec.fd =>
        /\ new.saddr = rec.saddr /\ new.passive = rec.passive
        /\ rec.ai # <<>> => new.ai = rec.ai
        /\ rec.port_set => new.port_value = rec.port_value
        /\ rec.so_type # NULL => new.so_type = rec.so_type
        /\ rec.so_protocol # NULL => new.so_protocol = rec.so_protocol

Follows(rec, new) == Faithful(new) /\ Frozen(rec, new)

(* Every call that changes an address makes one that follows from it; every *)
(* other changes none, makes one, or frees one.                             *)
Evolves ==
    \/ UNCHANGED addr
    \/ \E a \in Addr : \E new : addr[a] # NULL /\ Update(a, new) /\ Follows(addr[a], new)
    \/ \E a \in Addr : \E new : addr[a] = NULL /\ Update(a, new) /\ Faithful(new)
    \/ \E a \in Addr : Update(a, NULL)

LEMMA ViewsKept == ASSUME AddrInv, Views, Evolves PROVE Views'
<1>1. DOMAIN addr = Addr
  BY DEF AddrInv, Records
<1>2. CASE UNCHANGED addr
  BY <1>2 DEF Views
<1>3. ASSUME NEW a \in Addr, NEW new, Update(a, new), new = NULL \/ Faithful(new)
      PROVE  Views'
  <2>1. addr'[a] = new /\ \A b \in Addr : b # a => addr'[b] = addr[b]
    BY <1>1, <1>3 DEF Update
  <2> QED BY <1>3, <2>1 DEF Views
<1> QED BY <1>2, <1>3 DEF Evolves, Follows

LEMMA FrozenKept ==
    ASSUME AddrInv, Evolves, NEW a \in Addr, addr[a] # NULL, addr'[a] # NULL
    PROVE  Frozen(addr[a], addr'[a])
<1>1. DOMAIN addr = Addr
  BY DEF AddrInv, Records
<1>2. CASE addr'[a] = addr[a]
  BY <1>2 DEF Frozen
<1>3. ASSUME NEW b \in Addr, NEW new, Update(b, new)
      PROVE  addr'[b] = new /\ (a # b => addr'[a] = addr[a])
  BY <1>1, <1>3 DEF Update
<1> QED BY <1>2, <1>3 DEF Evolves, Follows
-----------------------------------------------------------------------------
(*             What an address tells its client: new addresses             *)

(* Nothing is said before there is a list. *)
LEMMA NoListFaithful ==
    ASSUME NEW rec, rec.ai = <<>>, rec.saddr = NULL, ~rec.origin.given PROVE Faithful(rec)
BY DEF Faithful, BareUnix, NamesSound, SettingsSound, GivenSound

(* What a list has to do with: the views of an address. *)
SameViews(rec, new) ==
    /\ new.ai = rec.ai /\ new.saddr = rec.saddr /\ new.origin = rec.origin
    /\ new.saddrlen = rec.saddrlen
    /\ new.node_set = rec.node_set /\ new.node = rec.node
    /\ new.port_set = rec.port_set /\ new.port_value = rec.port_value
    /\ new.so_type = rec.so_type /\ new.so_protocol = rec.so_protocol
    /\ new.passive = rec.passive

LEMMA SameViewsFollow ==
    ASSUME NEW rec, NEW new, Faithful(rec), SameViews(rec, new) PROVE Follows(rec, new)
BY DEF Follows, Frozen, SameViews, Faithful, BareUnix, NamesSound, Names, SettingsSound, GivenSound

LEMMA FdSetFollows ==
    ASSUME NEW rec \in AddrRec, Faithful(rec), NEW fd \in Opt(Socket), NEW user \in BOOLEAN
    PROVE  Follows(rec, WithFd(rec, fd, user))
<1>1. SameViews(rec, WithFd(rec, fd, user))
  BY DEF SameViews, WithFd, AddrRec
<1> QED BY <1>1, SameViewsFollow

LEMMA BySAddrFaithful ==
    ASSUME NEW a \in Addr, NEW sa \in (Inet \cup Unix), NEW len \in Length,
           NEW socktype \in Opt(SockType), NEW protocol \in Opt(Protocol)
    PROVE  Faithful(BySAddr(sa, len, socktype, protocol, a))
<1> DEFINE given == AsV4Length(sa, len)
           el == [sa |-> AsV4(sa), addrlen |-> given, socktype |-> socktype,
                  protocol |-> protocol, by |-> "library"]
           rec == BySAddr(sa, len, socktype, protocol, a)
<1>1. /\ rec.ai = <<el>> /\ ~rec.node_set /\ ~rec.port_set /\ rec.saddrlen = given
      /\ rec.so_type = socktype /\ rec.so_protocol = protocol /\ rec.passive = FALSE
      /\ rec.origin.given = TRUE /\ rec.origin.passive = FALSE
  <2>1. rec.ai = <<el>> /\ ~rec.node_set /\ ~rec.port_set /\ rec.saddrlen = given
    BY DEF BySAddr, _I2AddrAlloc
  <2>2. rec.so_type = socktype /\ rec.so_protocol = protocol /\ rec.passive = FALSE
    BY DEF BySAddr, _I2AddrAlloc
  <2>3. rec.origin = [NoOrigin EXCEPT !.given = TRUE]
    BY DEF BySAddr, _I2AddrAlloc
  <2>4. rec.origin.given = TRUE /\ rec.origin.passive = FALSE
    <3> HIDE DEF rec
    <3> QED BY <2>3 DEF NoOrigin
  <2> HIDE DEF rec, el, given
  <2> QED BY <2>1, <2>2, <2>4
<1>2. /\ DOMAIN <<el>> = {1} /\ <<el>>[1] = el /\ el.sa = AsV4(sa) /\ el.addrlen = given
      /\ el.socktype = socktype /\ el.protocol = protocol
  OBVIOUS
<1>3. /\ AsV4(sa).fam # "mapped"
      /\ AsV4(sa).fam = "unix" => AsV4(sa).port = NULL
      /\ given \in Length
  <2>1. given \in Length
    BY DEF AsV4Length, Length
  <2>2. CASE sa \in Inet
    BY <2>1, <2>2 DEF Inet, AsV4
  <2>3. CASE sa \in Unix
    BY <2>1, <2>3 DEF Unix, AsV4
  <2> QED BY <2>2, <2>3
<1> HIDE DEF rec, el, given
<1>4. BareUnix(rec)
  BY <1>1, <1>2, <1>3 DEF BareUnix
<1>5. NamesSound(rec)
  BY <1>1 DEF NamesSound, Names
<1>6. GivenSound(rec)
  BY <1>1, <1>2, <1>3 DEF GivenSound
<1>7. SettingsSound(rec)
  BY <1>1, <1>2 DEF SettingsSound
<1> QED BY <1>4, <1>5, <1>6, <1>7 DEF Faithful, rec

LEMMA ByNodeEvolves == ASSUME NEW a \in Addr, I2AddrByNode(a) PROVE Evolves
<1>1. PICK n \in Opt(Host), p \in Opt(Port) :
        NewAddr(a, [_I2AddrAlloc EXCEPT
            !.node = IF n = NULL THEN @ ELSE n, !.node_set = n # NULL,
            !.port = IF p = NULL THEN @ ELSE p, !.port_set = p # NULL,
            !.port_value = p])
  BY DEF I2AddrByNode
<1> DEFINE rec == [_I2AddrAlloc EXCEPT
            !.node = IF n = NULL THEN @ ELSE n, !.node_set = n # NULL,
            !.port = IF p = NULL THEN @ ELSE p, !.port_set = p # NULL,
            !.port_value = p]
<1>2. rec.ai = <<>> /\ rec.saddr = NULL /\ ~rec.origin.given
  BY DEF _I2AddrAlloc, NoOrigin
<1>3. addr[a] = NULL /\ Update(a, rec)
  BY <1>1 DEF NewAddr, Update
<1> HIDE DEF rec
<1> QED BY <1>2, <1>3, NoListFaithful DEF Evolves

LEMMA ByWildcardEvolves == ASSUME NEW a \in Addr, I2AddrByWildcard(a) PROVE Evolves
<1>1. PICK socktype \in SockType, p \in Opt(Port) :
        \E list \in Lookups(AnyHost, p, socktype, NULL) :
        NewAddr(a, [_I2AddrAlloc EXCEPT
            !.ai = list, !.passive = TRUE, !.origin.passive = TRUE])
  BY DEF I2AddrByWildcard
<1>2. PICK list \in Lookups(AnyHost, p, socktype, NULL) :
        NewAddr(a, [_I2AddrAlloc EXCEPT
            !.ai = list, !.passive = TRUE, !.origin.passive = TRUE])
  BY <1>1
<1> DEFINE rec == [_I2AddrAlloc EXCEPT !.ai = list, !.passive = TRUE, !.origin.passive = TRUE]
<1>3. \A i \in DOMAIN list :
         list[i].sa.fam # "unix" /\ list[i].addrlen = "exact"
  BY LookupInet, MemberAssumption DEF Opt
<1>4. /\ rec.ai = list /\ rec.saddr = NULL /\ rec.passive = TRUE
      /\ rec.so_type = NULL /\ rec.so_protocol = NULL
      /\ rec.origin = [NoOrigin EXCEPT !.passive = TRUE]
  BY DEF _I2AddrAlloc
<1>5. addr[a] = NULL /\ Update(a, rec)
  BY <1>2 DEF NewAddr, Update
<1> HIDE DEF rec
<1>6. rec.origin.passive = TRUE /\ rec.origin.given = FALSE
  BY <1>4 DEF NoOrigin
<1>7. SettingsSound(rec)
  BY <1>4, <1>6, Zenon DEF SettingsSound
<1>8. BareUnix(rec) /\ NamesSound(rec) /\ GivenSound(rec)
  BY <1>3, <1>4, <1>6 DEF BareUnix, NamesSound, GivenSound
<1> QED BY <1>5, <1>7, <1>8 DEF Evolves, Faithful

LEMMA BySAddrEvolves == ASSUME NEW a \in Addr, I2AddrBySAddr(a) PROVE Evolves
<1>1. PICK sa \in (Inet \cup Unix), len \in Length,
           socktype \in Opt(SockType), protocol \in Opt(Protocol) :
        NewAddr(a, BySAddr(sa, len, socktype, protocol, a))
  BY DEF I2AddrBySAddr
<1>2. Faithful(BySAddr(sa, len, socktype, protocol, a))
  BY BySAddrFaithful
<1> QED BY <1>1, <1>2 DEF NewAddr, Update, Evolves

LEMMA BySockFDEvolves == ASSUME AddrInv, NEW a \in Addr, ByAnySockFD(a) PROVE Evolves
<1>1. PICK fd \in open, close_on_free \in BOOLEAN, sa \in (Inet \cup Unix), socktype \in SockType :
        NewAddr(a, [BySAddr(sa, "exact", socktype, NULL, a) EXCEPT
                         !.fd = fd, !.fd_user = ~close_on_free])
  BY DEF ByAnySockFD
<1> DEFINE old == BySAddr(sa, "exact", socktype, NULL, a)
<1>2. PICK user \in BOOLEAN : user = ~close_on_free
  BY Zenon
<1>3. fd \in Opt(Socket)
  BY DEF AddrInv, Parties, Opt
<1>4. Faithful(old) /\ old \in AddrRec
  BY BySAddrFaithful, BySAddrSound DEF Opt, Length, Sound
<1> HIDE DEF old
<1>5. Faithful(WithFd(old, fd, user))
  BY <1>3, <1>4, FdSetFollows DEF Follows
<1>6. NewAddr(a, WithFd(old, fd, user))
  BY <1>1, <1>2, Zenon DEF WithFd, old
<1> QED BY <1>5, <1>6 DEF NewAddr, Update, Evolves

(* A copy has its original's names and list, and none of its settings.      *)
LEMMA WholeCopyFaithful ==
    ASSUME NEW a \in Addr, NEW b \in Addr, NEW from, Sound(a, from), Faithful(from)
    PROVE  Faithful(PartCopy(from, b, Len(from.ai)))
<1> DEFINE n == Len(from.ai)
           rec == PartCopy(from, b, n)
<1>1. /\ from.ai \in Seq(AddrInfo) /\ n \in Nat /\ n \in 0..n /\ DOMAIN from.ai = 1..n
      /\ from.origin \in Origin
  BY DEF Sound, AddrRec
<1>2. /\ DOMAIN CopyAddrRecs(from.ai, n) = 1..n
      /\ \A i \in 1..n : /\ CopyAddrRecs(from.ai, n)[i].sa = from.ai[i].sa
                        /\ CopyAddrRecs(from.ai, n)[i].addrlen = from.ai[i].addrlen
  BY <1>1, CopiedList
<1>3. /\ rec.ai = CopyAddrRecs(from.ai, n)
      /\ rec.so_type = NULL /\ rec.so_protocol = NULL /\ rec.passive = FALSE
      /\ rec.origin = CopiedOrigin(from)
      /\ rec.saddr = IF Reached(from, n) THEN <<b, from.saddr[2]>> ELSE NULL
      /\ rec.saddrlen = IF Reached(from, n) THEN from.ai[from.saddr[2]].addrlen ELSE NULL
  BY DEF PartCopy, _I2AddrAlloc
<1>4. /\ rec.node_set = from.node_set /\ rec.port_set = from.port_set
      /\ from.node_set => rec.node = from.node
      /\ from.port_set => rec.port_value = from.port_value
  BY DEF PartCopy, _I2AddrAlloc
<1>5. BareUnix(rec)
  BY <1>1, <1>2, <1>3 DEF Faithful, BareUnix
<1>6. /\ rec.ai = <<>> <=> from.ai = <<>>
      /\ from.ai = <<>> => rec.origin.given = FALSE
      /\ from.ai # <<>> => /\ rec.origin.given = from.origin.given
                           /\ rec.origin.copied = TRUE
  <2>1. DOMAIN rec.ai = 1..n
    BY <1>2, <1>3
  <2> HIDE DEF rec
  <2>2. /\ from.ai = <<>> => rec.origin = NoOrigin
        /\ from.ai # <<>> => rec.origin = [from.origin EXCEPT !.copied = TRUE, !.late = {}]
    BY <1>3 DEF CopiedOrigin
  <2>5. from.ai = <<>> => rec.origin.given = FALSE
    BY <2>2 DEF NoOrigin
  <2>6. from.ai # <<>> => rec.origin.given = from.origin.given /\ rec.origin.copied = TRUE
    <3> SUFFICES ASSUME from.ai # <<>>
                 PROVE  rec.origin.given = from.origin.given /\ rec.origin.copied = TRUE
      OBVIOUS
    <3>1. PICK origin \in Origin : origin = from.origin
      BY <1>1, Zenon
    <3>2. rec.origin = [origin EXCEPT !.copied = TRUE, !.late = {}]
      BY <2>2, <3>1, Zenon
    <3>3. rec.origin.given = origin.given /\ rec.origin.copied = TRUE
      BY <3>2 DEF Origin
    <3> QED BY <3>1, <3>3, Zenon
  <2>3. /\ from.ai = <<>> => rec.origin.given = FALSE
        /\ from.ai # <<>> => /\ rec.origin.given = from.origin.given
                             /\ rec.origin.copied = TRUE
    BY <2>5, <2>6, Zenon
  <2>4. rec.ai = <<>> <=> from.ai = <<>>
    <3>1. rec.ai = CopyAddrRecs(from.ai, n) /\ CopyAddrRecs(from.ai, n) \in Seq(AddrInfo)
      BY <1>1, <1>3, CopiedList
    <3>2. rec.ai \in Seq(AddrInfo)
      BY <3>1
    <3> QED BY <1>1, <2>1, <3>2
  <2> QED BY <2>3, <2>4
<1>7. SettingsSound(rec)
  <2> HIDE DEF rec
  <2> QED BY <1>3, <1>6, Zenon DEF SettingsSound
<1>8. rec.saddr # NULL => /\ from.saddr # NULL /\ from.saddr[2] \in 1..n
                          /\ rec.saddr = <<b, from.saddr[2]>>
                          /\ rec.saddrlen = from.ai[from.saddr[2]].addrlen
  BY <1>1, <1>3 DEF Sound, PointerSound, Reached
<1>9. GivenSound(rec)
  <2> HIDE DEF rec
  <2>1. ~from.origin.given => \A i \in 1..n : from.ai[i].addrlen # "longer"
    BY <1>1 DEF Faithful, GivenSound
  <2>6. \A i \in 1..n : from.ai[i] \in AddrInfo
    BY <1>1
  <2>2. \A i \in 1..n : from.ai[i].addrlen \in Length
    BY <2>6 DEF AddrInfo
  <2>3. \A i \in 1..n : from.origin.given => from.ai[i].sa.fam # "mapped"
    BY <1>1 DEF Faithful, GivenSound
  <2>4. \A i \in DOMAIN rec.ai :
          /\ rec.origin.given => rec.ai[i].sa.fam # "mapped"
          /\ rec.ai[i].addrlen = "longer" => rec.origin.given
    BY <1>2, <1>3, <1>6, <2>1, <2>3
  <2>5. rec.saddr # NULL => /\ rec.saddrlen \in Length
                            /\ rec.saddrlen = "longer" => rec.origin.given
    BY <1>1, <1>6, <1>8, <2>1, <2>2
  <2> QED BY <1>6, <2>4, <2>5 DEF GivenSound
<1>10. NamesSound(rec)
  <2> SUFFICES ASSUME rec.saddr # NULL PROVE Names(rec, rec.ai[rec.saddr[2]].sa)
    BY DEF NamesSound
  <2>2. rec.ai[rec.saddr[2]].sa = from.ai[from.saddr[2]].sa
    BY <1>2, <1>3, <1>8
  <2> QED BY <1>4, <1>8, <2>2 DEF Faithful, NamesSound, Names
<1> QED BY <1>5, <1>7, <1>9, <1>10 DEF Faithful

LEMMA CopyEvolves ==
    ASSUME AddrInv, Views, NEW a \in Addr, NEW b \in Addr, I2AddrCopy(a, b) PROVE Evolves
<1> DEFINE whole == PartCopy(addr[a], b, Len(addr[a].ai))
<1>1. Sound(a, addr[a]) /\ addr[a].fd \in Opt(Socket) /\ Faithful(addr[a])
  BY DEF AddrInv, Records, I2AddrCopy, Sound, AddrRec, Views
<1>2. whole \in AddrRec /\ Faithful(whole)
  BY <1>1, WholeCopySound, WholeCopyFaithful DEF Sound
<1>3. CASE NewAddr(b, [whole EXCEPT !.fd = addr[a].fd, !.fd_user = addr[a].fd # NULL])
  <2>1. PICK user \in BOOLEAN : user = (addr[a].fd # NULL)
    BY Zenon
  <2> HIDE DEF whole
  <2>2. NewAddr(b, WithFd(whole, addr[a].fd, user))
    BY <1>3, <2>1, Zenon DEF WithFd
  <2>3. Faithful(WithFd(whole, addr[a].fd, user))
    BY <1>1, <1>2, FdSetFollows DEF Follows
  <2> QED BY <2>2, <2>3 DEF NewAddr, Update, Evolves
<1> QED BY <1>3 DEF I2AddrCopy, Evolves
-----------------------------------------------------------------------------
(*        What an address tells its client: names from the address         *)

(* A name that is set, or found to be unknown, for the pointer's element.   *)
SameElement(rec, new) ==
    /\ new.ai = rec.ai /\ new.saddr = rec.saddr /\ new.origin = rec.origin
    /\ new.saddrlen = rec.saddrlen
    /\ new.so_type = rec.so_type /\ new.so_protocol = rec.so_protocol
    /\ new.passive = rec.passive /\ new.fd = rec.fd

LEMMA NamesFollow ==
    ASSUME NEW rec, NEW new, Faithful(rec), SameElement(rec, new),
           Names(new, rec.ai[rec.saddr[2]].sa),
           rec.port_set => new.port_value = rec.port_value
    PROVE  Follows(rec, new)
<1>1. Faithful(new)
  BY DEF SameElement, Faithful, BareUnix, NamesSound, SettingsSound, GivenSound
<1>2. Frozen(rec, new)
  BY DEF SameElement, Frozen
<1> QED BY <1>1, <1>2 DEF Follows

LEMMA PortNamesIt ==
    ASSUME NEW rec \in AddrRec, NEW sa, sa.fam = "unix" => sa.port = NULL, Names(rec, sa),
           NEW new \in _I2AddrSetPort(rec, sa)
    PROVE  /\ SameElement(rec, new) /\ Names(new, sa)
           /\ rec.port_set => new = rec
<1>1. CASE rec.port_set
  BY <1>1 DEF _I2AddrSetPort, SameElement
<1>2. ASSUME ~rec.port_set, NEW port, NEW value, value = sa.port,
             new = [rec EXCEPT !.port = port, !.port_set = TRUE, !.port_value = value]
      PROVE  SameElement(rec, new) /\ Names(new, sa)
  BY <1>2 DEF SameElement, Names, AddrRec
<1>3. CASE ~rec.port_set /\ new = [rec EXCEPT !.port = "unknown"]
  BY <1>3 DEF SameElement, Names, AddrRec
<1>4. CASE ~rec.port_set /\ sa.fam = "unix"
  BY <1>2, <1>4 DEF _I2AddrSetPort
<1>5. CASE ~rec.port_set /\ sa.fam # "unix"
  BY <1>2, <1>3, <1>5 DEF _I2AddrSetPort
<1> QED BY <1>1, <1>4, <1>5

LEMMA NodePortNamesIt ==
    ASSUME NEW rec \in AddrRec, NEW sa, sa.fam = "unix" => sa.port = NULL, Names(rec, sa),
           sa.fam # "unix" => sa.host \in Host,
           NEW new \in _I2AddrSetNodePort(rec, sa)
    PROVE  /\ SameElement(rec, new) /\ Names(new, sa)
           /\ rec.port_set => new.port_value = rec.port_value
<1>1. CASE new = rec
  BY <1>1 DEF SameElement
<1>2. CASE new = [rec EXCEPT !.node = "unknown"]
  BY <1>2 DEF SameElement, Names, AddrRec
<1>3. ASSUME NEW node \in Host \cup {"unixsock"},
             node = IF sa.fam = "unix" THEN "unixsock" ELSE sa.host,
             new \in _I2AddrSetPort([rec EXCEPT !.node = node, !.node_set = TRUE], sa)
      PROVE  /\ SameElement(rec, new) /\ Names(new, sa)
             /\ rec.port_set => new.port_value = rec.port_value
  <2> DEFINE named == [rec EXCEPT !.node = node, !.node_set = TRUE]
  <2>1. named \in AddrRec /\ SameElement(rec, named) /\ Names(named, sa)
    BY <1>3 DEF AddrRec, SameElement, Names
  <2>2. named.port_set = rec.port_set /\ named.port_value = rec.port_value
    BY DEF AddrRec
  <2>3. SameElement(named, new) /\ Names(new, sa) /\ (named.port_set => new = named)
    BY <1>3, <2>1, PortNamesIt
  <2> HIDE DEF named
  <2> QED BY <2>1, <2>2, <2>3 DEF SameElement
<1>4. CASE sa.fam = "unix"
  BY <1>1, <1>3, <1>4 DEF _I2AddrSetNodePort
<1>5. CASE sa.fam # "unix"
  BY <1>1, <1>2, <1>3, <1>5 DEF _I2AddrSetNodePort
<1> QED BY <1>4, <1>5

LEMMA PointedNames ==
    ASSUME AddrInv, Views, NEW a \in Addr, addr[a] # NULL, addr[a].saddr # NULL
    PROVE  /\ addr[a] \in AddrRec /\ Faithful(addr[a])
           /\ SA(a) = addr[a].ai[addr[a].saddr[2]].sa
           /\ SA(a).fam = "unix" => SA(a).port = NULL
           /\ Names(addr[a], SA(a))
<1>1. Sound(a, addr[a]) /\ Faithful(addr[a])
  BY DEF AddrInv, Records, Views
<1>2. SA(a) = addr[a].ai[addr[a].saddr[2]].sa
  BY PointsInside
<1>3. addr[a].saddr[2] \in DOMAIN addr[a].ai
  BY <1>1 DEF Sound, PointerSound
<1>4. SA(a).fam = "unix" => SA(a).port = NULL
  BY <1>1, <1>2, <1>3 DEF Faithful, BareUnix
<1> QED BY <1>1, <1>2, <1>4 DEF Sound, Faithful, NamesSound

LEMMA PortEvolves == ASSUME AddrInv, Views, NEW a \in Addr, I2AddrPort(a) PROVE Evolves
<1>1. PICK new \in _I2AddrSetPort(addr[a], SA(a)) : Update(a, new)
  BY DEF I2AddrPort
<1>2. /\ addr[a] # NULL /\ addr[a] \in AddrRec /\ Faithful(addr[a])
      /\ SA(a) = addr[a].ai[addr[a].saddr[2]].sa
      /\ SA(a).fam = "unix" => SA(a).port = NULL
      /\ Names(addr[a], SA(a))
  BY PointedNames DEF I2AddrPort
<1>3. /\ SameElement(addr[a], new) /\ Names(new, SA(a))
      /\ addr[a].port_set => new = addr[a]
  BY <1>2, PortNamesIt
<1>4. Follows(addr[a], new)
  BY <1>2, <1>3, NamesFollow
<1> QED BY <1>1, <1>2, <1>4 DEF Evolves

LEMMA NodeServNameEvolves ==
    ASSUME AddrInv, Views, NEW a \in Addr, I2AddrNodeServName(a) PROVE Evolves
<1>1. PICK new \in _I2AddrSetNodePort(addr[a], SA(a)) : Update(a, new)
  BY DEF I2AddrNodeServName
<1>2. /\ addr[a] # NULL /\ addr[a] \in AddrRec /\ Faithful(addr[a])
      /\ SA(a) = addr[a].ai[addr[a].saddr[2]].sa
      /\ SA(a).fam = "unix" => SA(a).port = NULL
      /\ Names(addr[a], SA(a))
  BY PointedNames DEF I2AddrNodeServName
<1>3. SA(a).fam # "unix" => SA(a).host \in Host
  BY PointsInside DEF I2AddrNodeServName
<1>4. /\ SameElement(addr[a], new) /\ Names(new, SA(a))
      /\ addr[a].port_set => new.port_value = addr[a].port_value
  BY <1>2, <1>3, NodePortNamesIt
<1>5. Follows(addr[a], new)
  BY <1>2, <1>4, NamesFollow
<1> QED BY <1>1, <1>2, <1>5 DEF Evolves
-----------------------------------------------------------------------------
(*             What an address tells its client: the setters               *)

(* A new pointer forgets the names, and is refused while there is a socket. *)
LEMMA SetSAddrEvolves == ASSUME AddrInv, Views, NEW a \in Addr, I2AddrSetSAddr(a) PROVE Evolves
<1>1. PICK i \in DOMAIN addr[a].ai :
         Update(a, [addr[a] EXCEPT !.saddr = <<a, i>>, !.saddrlen = addr[a].ai[i].addrlen,
                                   !.node_set = FALSE, !.port_set = FALSE,
                                   !.port_value = NULL])
  BY DEF I2AddrSetSAddr
<1> DEFINE rec == addr[a]
           new == [rec EXCEPT !.saddr = <<a, i>>, !.saddrlen = rec.ai[i].addrlen,
                              !.node_set = FALSE, !.port_set = FALSE, !.port_value = NULL]
<1>2. Sound(a, rec) /\ rec # NULL /\ rec \in AddrRec /\ Faithful(rec) /\ rec.fd = NULL
  BY DEF AddrInv, Records, Sound, Views, I2AddrSetSAddr
<1> HIDE DEF rec
<1>3. /\ ~new.node_set /\ ~new.port_set /\ new.ai = rec.ai /\ new.origin = rec.origin
      /\ new.so_type = rec.so_type /\ new.so_protocol = rec.so_protocol
      /\ new.passive = rec.passive /\ new.saddrlen = rec.ai[i].addrlen
  BY <1>2 DEF AddrRec
<1>6. i \in DOMAIN rec.ai
  BY DEF rec
<1>10. rec.ai \in Seq(AddrInfo)
  BY <1>2 DEF AddrRec
<1>11. rec.ai[i] \in AddrInfo
  BY <1>6, <1>10
<1>7. rec.ai[i].addrlen \in Length
  BY <1>11 DEF AddrInfo
<1> HIDE DEF new
<1>8. SettingsSound(new)
  BY <1>2, <1>3, Zenon DEF Faithful, SettingsSound
<1>9. GivenSound(new)
  BY <1>2, <1>3, <1>6, <1>7 DEF Faithful, GivenSound
<1>4. Faithful(new)
  BY <1>2, <1>3, <1>8, <1>9 DEF Faithful, BareUnix, NamesSound, Names
<1>5. Follows(rec, new)
  BY <1>2, <1>4 DEF Follows, Frozen
<1> QED BY <1>1, <1>2, <1>5 DEF Evolves, rec, new

LEMMA SetFDEvolves == ASSUME AddrInv, Views, NEW a \in Addr, I2AddrSetFD(a) PROVE Evolves
<1>1. PICK fd \in open \cup {NULL}, close_on_free \in BOOLEAN :
         Update(a, [addr[a] EXCEPT !.fd = fd, !.fd_user = ~close_on_free])
  BY DEF I2AddrSetFD
<1>2. PICK user \in BOOLEAN : user = ~close_on_free
  BY Zenon
<1>3. addr[a] # NULL /\ addr[a] \in AddrRec /\ Faithful(addr[a])
  BY DEF AddrInv, Records, Sound, Views, I2AddrSetFD
<1>4. fd \in Opt(Socket)
  BY DEF AddrInv, Parties, Opt
<1>5. Follows(addr[a], WithFd(addr[a], fd, user))
  BY <1>3, <1>4, FdSetFollows
<1>6. Update(a, WithFd(addr[a], fd, user))
  BY <1>1, <1>2, Zenon DEF WithFd
<1> QED BY <1>3, <1>5, <1>6 DEF Evolves

(* The port is the one that is written through the pointer. *)
LEMMA SetPortEvolves == ASSUME AddrInv, Views, NEW a \in Addr, I2AddrSetPort(a) PROVE Evolves
<1> DEFINE rec == addr[a]
           named(p) == [rec EXCEPT !.port = PortName(p), !.port_set = TRUE, !.port_value = p]
<1>1. PICK p \in Opt(Port) :
        \/ rec.saddr = NULL /\ Update(a, named(p))
        \/ /\ rec.saddr # NULL /\ I2SockAddrToSockUnion(SA(a))
           /\ Update(a, [named(p) EXCEPT !.ai[rec.saddr[2]].sa.port = p, !.saddrlen = "exact"])
  BY DEF I2AddrSetPort
<1>2. /\ Sound(a, rec) /\ rec \in AddrRec /\ rec # NULL /\ rec.ai \in Seq(AddrInfo)
      /\ Faithful(rec) /\ rec.fd = NULL
  BY DEF AddrInv, Records, Sound, AddrRec, Views, I2AddrSetPort
<1>3. rec.saddr # NULL => SA(a) = rec.ai[rec.saddr[2]].sa
  BY <1>2, PointsInside
<1> HIDE DEF rec
<1>4. named(p) \in AddrRec
  <2>1. PortName(p) \in Port \cup {"0"}
    BY DEF PortName, Opt
  <2> QED BY <1>2, <2>1 DEF AddrRec
<1>5. /\ named(p).ai = rec.ai /\ named(p).saddr = rec.saddr /\ named(p).origin = rec.origin
      /\ named(p).so_type = rec.so_type /\ named(p).so_protocol = rec.so_protocol
      /\ named(p).passive = rec.passive /\ named(p).node = rec.node
      /\ named(p).node_set = rec.node_set /\ named(p).port_value = p
      /\ named(p).saddrlen = rec.saddrlen
  BY <1>2 DEF AddrRec
<1> HIDE DEF named
<1>6. CASE rec.saddr = NULL /\ Update(a, named(p))
  <2>1. Faithful(named(p))
    BY <1>2, <1>5, <1>6 DEF Faithful, BareUnix, NamesSound, SettingsSound, GivenSound
  <2>2. Follows(rec, named(p))
    BY <1>2, <2>1 DEF Follows, Frozen
  <2> QED BY <1>2, <1>6, <2>2 DEF Evolves, rec
<1>7. CASE /\ rec.saddr # NULL /\ I2SockAddrToSockUnion(SA(a))
           /\ Update(a, [named(p) EXCEPT !.ai[rec.saddr[2]].sa.port = p, !.saddrlen = "exact"])
  <2> DEFINE i == rec.saddr[2]
             ai == [rec.ai EXCEPT ![i].sa.port = p]
             new == [named(p) EXCEPT !.ai = ai, !.saddrlen = "exact"]
  <2>1. i \in DOMAIN rec.ai
    BY <1>2, <1>7 DEF Sound, PointerSound
  <2>2. rec.ai[i].sa.fam # "unix"
    BY <1>3, <1>7 DEF I2SockAddrToSockUnion, Family
  <2>3. /\ ai \in Seq(AddrInfo) /\ DOMAIN ai = DOMAIN rec.ai
        /\ \A j \in DOMAIN rec.ai : /\ ai[j].by = rec.ai[j].by
                                     /\ ai[j].sa.fam = rec.ai[j].sa.fam
                                     /\ ai[j].sa.host = rec.ai[j].sa.host
                                     /\ ai[j].addrlen = rec.ai[j].addrlen
                                     /\ ai[j].socktype = rec.ai[j].socktype
                                     /\ ai[j].protocol = rec.ai[j].protocol
    BY <1>2, <2>1, PortWritten
  <2>4. /\ ai[i].sa.port = p
        /\ \A j \in DOMAIN rec.ai : j # i => ai[j] = rec.ai[j]
    <3>1. rec.ai \in Seq(AddrInfo)
      BY <1>2
    <3> HIDE DEF i
    <3> QED BY <2>1, <3>1, PortWrittenThere
  <2>5. [named(p) EXCEPT !.ai[rec.saddr[2]].sa.port = p, !.saddrlen = "exact"] = new
    BY <1>5
  <2> HIDE DEF ai
  <2>6. /\ new.ai = ai /\ new.saddr = rec.saddr /\ new.origin = rec.origin
        /\ new.so_type = rec.so_type /\ new.so_protocol = rec.so_protocol
        /\ new.passive = rec.passive /\ new.node = rec.node
        /\ new.node_set = rec.node_set /\ new.port_value = p
        /\ new.saddrlen = "exact"
    BY <1>4, <1>5, <2>3 DEF AddrRec
  <2> HIDE DEF new
  <2>7. BareUnix(new)
    BY <1>2, <2>2, <2>3, <2>4, <2>6 DEF Faithful, BareUnix
  <2>8. GivenSound(new)
    <3>1. new.ai # <<>>
      BY <2>1, <2>3, <2>6
    <3> QED BY <1>2, <2>3, <2>6, <3>1 DEF Faithful, GivenSound, Length
  <2>9. NamesSound(new)
    <3> SUFFICES Names(new, ai[i].sa)
      BY <2>6 DEF NamesSound
    <3>1. Names(rec, rec.ai[i].sa)
      BY <1>2, <1>7 DEF Faithful, NamesSound
    <3> QED BY <2>1, <2>3, <2>4, <2>6, <3>1 DEF Names
  <2>10. SettingsSound(new)
    <3>1. rec.ai # <<>>
      BY <2>1
    <3>2. SettingsSound(rec)
      BY <1>2 DEF Faithful
    <3> QED BY <2>3, <2>6, <3>1, <3>2 DEF SettingsSound
  <2>11. Follows(rec, new)
    BY <1>2, <2>7, <2>8, <2>9, <2>10 DEF Follows, Faithful, Frozen
  <2>12. Update(a, new)
    BY <1>7, <2>5
  <2> QED BY <1>2, <2>11, <2>12 DEF Evolves, rec
<1> QED BY <1>1, <1>6, <1>7

(* A setting: it had no value, or there is no socket and no pointer and the *)
(* list goes with it.                                                       *)
LEMMA ClearedFollows ==
    ASSUME NEW rec, NEW new, Cleared(rec, new), rec.fd = NULL PROVE Follows(rec, new)
<1>1. ~new.origin.given
  BY DEF Cleared, NoOrigin
<1> QED BY <1>1, NoListFaithful DEF Cleared, Follows, Frozen

LEMMA ProtocolEvolves ==
    ASSUME AddrInv, Views, NEW a \in Addr, I2AddrSetProtocol(a) PROVE Evolves
<1> DEFINE rec == addr[a]
<1>1. PICK value \in Opt(Protocol) :
        \/ rec.so_protocol = NULL /\ Update(a, [rec EXCEPT !.so_protocol = value, !.origin = Noted(rec, "so_protocol")])
        \/ rec.fd = NULL /\ Update(a, [_I2AddrClearAI(rec) EXCEPT !.so_protocol = value])
  BY DEF I2AddrSetProtocol, Unassociated, Noted
<1>2. Faithful(rec) /\ rec \in AddrRec /\ rec # NULL
  BY DEF AddrInv, Records, Sound, Views, I2AddrSetProtocol
<1> HIDE DEF rec
<1>3. CASE rec.so_protocol = NULL /\ Update(a, [rec EXCEPT !.so_protocol = value, !.origin = Noted(rec, "so_protocol")])
  <2> DEFINE new == [rec EXCEPT !.so_protocol = value, !.origin = Noted(rec, "so_protocol")]
  <2>1. /\ new.ai = rec.ai /\ new.saddr = rec.saddr /\ new.saddrlen = rec.saddrlen
        /\ new.so_type = rec.so_type /\ new.passive = rec.passive /\ new.node = rec.node
        /\ new.node_set = rec.node_set /\ new.port_value = rec.port_value
        /\ new.port_set = rec.port_set
        /\ new.origin = Noted(rec, "so_protocol")
    BY <1>2 DEF AddrRec
  <2> HIDE DEF new
  <2>5. /\ new.origin.late = rec.origin.late \cup Late(rec, "so_protocol")
        /\ new.origin.passive = rec.origin.passive
        /\ new.origin.given = rec.origin.given
        /\ new.origin.copied = rec.origin.copied
    BY <1>2, <2>1, NotedOrigin
  <2>2. SettingsSound(new)
    <3> SUFFICES ASSUME rec.ai # <<>> PROVE SettingsSound(new)
      BY <2>1 DEF SettingsSound
    <3>1. "so_protocol" \in new.origin.late /\ rec.origin.late \subseteq new.origin.late
      BY <2>5 DEF Late
    <3> QED BY <1>2, <2>1, <2>5, <3>1 DEF Faithful, SettingsSound
  <2>3. BareUnix(new) /\ NamesSound(new) /\ GivenSound(new)
    BY <1>2, <2>1, <2>5 DEF Faithful, BareUnix, NamesSound, Names, GivenSound
  <2>4. Follows(rec, new)
    BY <1>3, <2>1, <2>2, <2>3 DEF Follows, Faithful, Frozen
  <2> QED BY <1>2, <1>3, <2>4 DEF Evolves, rec, new
<1>4. CASE rec.fd = NULL /\ Update(a, [_I2AddrClearAI(rec) EXCEPT !.so_protocol = value])
  <2> DEFINE new == [_I2AddrClearAI(rec) EXCEPT !.so_protocol = value]
  <2>1. Cleared(rec, _I2AddrClearAI(rec))
    BY <1>2, ClearAISound
  <2>2. Cleared(rec, new)
    BY <2>1 DEF Cleared, AddrRec
  <2> HIDE DEF new
  <2>3. Follows(rec, new)
    BY <1>4, <2>2, ClearedFollows
  <2> QED BY <1>2, <1>4, <2>3 DEF Evolves, rec, new
<1> QED BY <1>1, <1>3, <1>4

LEMMA SocktypeEvolves ==
    ASSUME AddrInv, Views, NEW a \in Addr, I2AddrSetSocktype(a) PROVE Evolves
<1> DEFINE rec == addr[a]
<1>1. PICK value \in Opt(SockType) :
        \/ rec.so_type = NULL /\ Update(a, [rec EXCEPT !.so_type = value, !.origin = Noted(rec, "so_type")])
        \/ rec.fd = NULL /\ Update(a, [_I2AddrClearAI(rec) EXCEPT !.so_type = value])
  BY DEF I2AddrSetSocktype, Unassociated, Noted
<1>2. Faithful(rec) /\ rec \in AddrRec /\ rec # NULL
  BY DEF AddrInv, Records, Sound, Views, I2AddrSetSocktype
<1> HIDE DEF rec
<1>3. CASE rec.so_type = NULL /\ Update(a, [rec EXCEPT !.so_type = value, !.origin = Noted(rec, "so_type")])
  <2> DEFINE new == [rec EXCEPT !.so_type = value, !.origin = Noted(rec, "so_type")]
  <2>1. /\ new.ai = rec.ai /\ new.saddr = rec.saddr /\ new.saddrlen = rec.saddrlen
        /\ new.so_protocol = rec.so_protocol /\ new.passive = rec.passive
        /\ new.node = rec.node /\ new.node_set = rec.node_set
        /\ new.port_value = rec.port_value /\ new.port_set = rec.port_set
        /\ new.origin = Noted(rec, "so_type")
    BY <1>2 DEF AddrRec
  <2> HIDE DEF new
  <2>5. /\ new.origin.late = rec.origin.late \cup Late(rec, "so_type")
        /\ new.origin.passive = rec.origin.passive
        /\ new.origin.given = rec.origin.given
        /\ new.origin.copied = rec.origin.copied
    BY <1>2, <2>1, NotedOrigin
  <2>2. SettingsSound(new)
    <3> SUFFICES ASSUME rec.ai # <<>> PROVE SettingsSound(new)
      BY <2>1 DEF SettingsSound
    <3>1. "so_type" \in new.origin.late /\ rec.origin.late \subseteq new.origin.late
      BY <2>5 DEF Late
    <3> QED BY <1>2, <2>1, <2>5, <3>1 DEF Faithful, SettingsSound
  <2>3. BareUnix(new) /\ NamesSound(new) /\ GivenSound(new)
    BY <1>2, <2>1, <2>5 DEF Faithful, BareUnix, NamesSound, Names, GivenSound
  <2>4. Follows(rec, new)
    BY <1>3, <2>1, <2>2, <2>3 DEF Follows, Faithful, Frozen
  <2> QED BY <1>2, <1>3, <2>4 DEF Evolves, rec, new
<1>4. CASE rec.fd = NULL /\ Update(a, [_I2AddrClearAI(rec) EXCEPT !.so_type = value])
  <2> DEFINE new == [_I2AddrClearAI(rec) EXCEPT !.so_type = value]
  <2>1. Cleared(rec, _I2AddrClearAI(rec))
    BY <1>2, ClearAISound
  <2>2. Cleared(rec, new)
    BY <2>1 DEF Cleared, AddrRec
  <2> HIDE DEF new
  <2>3. Follows(rec, new)
    BY <1>4, <2>2, ClearedFollows
  <2> QED BY <1>2, <1>4, <2>3 DEF Evolves, rec, new
<1> QED BY <1>1, <1>3, <1>4

LEMMA PassiveEvolves ==
    ASSUME AddrInv, Views, NEW a \in Addr, I2AddrSetPassive(a) PROVE Evolves
<1> DEFINE rec == addr[a]
           new == [_I2AddrClearAI(rec) EXCEPT !.passive = ~@]
<1>1. rec \in AddrRec /\ rec # NULL /\ rec.fd = NULL /\ Update(a, new)
  BY DEF AddrInv, Records, Sound, I2AddrSetPassive, Unassociated
<1> HIDE DEF rec
<1>2. Cleared(rec, _I2AddrClearAI(rec))
  BY <1>1, ClearAISound
<1>3. Cleared(rec, new)
  BY <1>2 DEF Cleared, AddrRec
<1> HIDE DEF new
<1>4. Follows(rec, new)
  BY <1>1, <1>3, ClearedFollows
<1> QED BY <1>1, <1>4 DEF Evolves, rec

(* The list a lookup gives is the one the settings ask for. *)
LEMMA AddrInfoEvolves ==
    ASSUME AddrInv, Views, NEW a \in Addr, I2AddrAddrInfo(a) PROVE Evolves
<1> DEFINE rec == addr[a]
           host(def_node) == OrElse(rec.node_set /\ rec.node # "unknown", rec.node, def_node)
           port(def_serv) == OrElse(rec.port_set, rec.port_value, def_serv)
           type == IF rec.so_type = NULL THEN Stream ELSE rec.so_type
           Found(list) == [rec EXCEPT !.ai = list, !.ai_free = FALSE,
                                  !.origin.passive = rec.passive]
<1>1. PICK def_node \in Opt(Host), def_serv \in Opt(Port) :
        \E list \in Lookups(IF host(def_node) = NULL THEN AnyHost ELSE host(def_node),
                            port(def_serv), type, rec.so_protocol) :
          Update(a, Found(list))
  BY DEF I2AddrAddrInfo
<1>2. PICK list \in Lookups(IF host(def_node) = NULL THEN AnyHost ELSE host(def_node),
                            port(def_serv), type, rec.so_protocol) :
          Update(a, Found(list))
  BY <1>1
<1>3. Sound(a, rec) /\ rec \in AddrRec /\ rec # NULL /\ rec.ai = <<>> /\ Faithful(rec)
  BY DEF AddrInv, Records, Sound, Views, I2AddrAddrInfo
<1> HIDE DEF rec
<1>4. rec.saddr = NULL
  BY <1>3 DEF Sound, PointerSound
<1>5. host(def_node) \in Opt(Host)
  BY <1>3, <1>4 DEF Sound, NodeSound, AddrRec, Opt, OrElse
<1>6. port(def_serv) \in Opt(Port) /\ type \in SockType /\ rec.so_protocol \in Opt(Protocol)
  BY <1>3, MemberAssumption DEF AddrRec, Opt, OrElse
<1>7. (IF host(def_node) = NULL THEN AnyHost ELSE host(def_node)) \in Host
  BY <1>5, MemberAssumption DEF Opt
<1> HIDE DEF host, port, type
<1>8. \A i \in DOMAIN list :
         /\ list[i].sa.fam # "unix" /\ list[i].addrlen = "exact"
         /\ list[i].socktype = type
         /\ rec.so_protocol # NULL => list[i].protocol = rec.so_protocol
  BY <1>6, <1>7, LookupInet
<1>14. list # <<>>
  BY <1>6, <1>7, LookupInet
<1> DEFINE new == Found(list)
<1>9. /\ new.ai = list /\ new.saddr = NULL
      /\ new.so_type = rec.so_type /\ new.so_protocol = rec.so_protocol
      /\ new.passive = rec.passive /\ new.port_value = rec.port_value
      /\ new.origin = [rec.origin EXCEPT !.passive = rec.passive]
  BY <1>3, <1>4 DEF AddrRec
<1>10. new.origin.passive = rec.passive /\ new.origin.given = FALSE
  <2>1. rec.origin \in Origin /\ ~rec.origin.given
    BY <1>3 DEF AddrRec, Faithful, GivenSound
  <2> HIDE DEF new
  <2> QED BY <1>9, <2>1 DEF Origin
<1>11. Update(a, new)
  BY <1>2
<1> HIDE DEF new
<1>15. SettingsSound(new)
  BY <1>8, <1>9, <1>10 DEF SettingsSound, type
<1>12. Faithful(new)
  BY <1>8, <1>9, <1>10, <1>14, <1>15 DEF Faithful, BareUnix, NamesSound, GivenSound
<1>13. Frozen(rec, new)
  BY <1>3, <1>4, <1>9 DEF Frozen
<1> QED BY <1>3, <1>11, <1>12, <1>13 DEF Evolves, Follows, rec
-----------------------------------------------------------------------------
(*             What an address tells its client: every step                *)

LEMMA NextEvolves == AddrInv /\ Views /\ [Next]_vars => Evolves
<1> SUFFICES ASSUME AddrInv, Views, [Next]_vars PROVE Evolves
  OBVIOUS
<1>1. CASE UNCHANGED vars
  BY <1>1 DEF vars, Evolves
<1>2. CASE \E fd \in Socket : OpenSocket(fd) \/ CloseSocket(fd)
  BY <1>2 DEF OpenSocket, CloseSocket, Evolves
<1>3. ASSUME NEW a \in Addr,
             \/ I2AddrByNode(a) \/ I2AddrByWildcard(a) \/ I2AddrBySAddr(a)
             \/ ByAnySockFD(a) \/ I2AddrFree(a)
             \/ I2AddrPort(a) \/ I2AddrNodeServName(a)
      PROVE  Evolves
  <2>1. CASE I2AddrFree(a)
    BY <2>1 DEF I2AddrFree, Evolves
  <2> QED BY <1>3, <2>1, ByNodeEvolves, ByWildcardEvolves, BySAddrEvolves, BySockFDEvolves,
          PortEvolves, NodeServNameEvolves
<1>4. ASSUME NEW a \in Addr,
             \/ I2AddrSetSAddr(a) \/ I2AddrSetFD(a) \/ I2AddrSetPort(a)
             \/ I2AddrSetProtocol(a) \/ I2AddrSetSocktype(a) \/ I2AddrSetPassive(a)
             \/ I2AddrAddrInfo(a)
             \/ \E b \in Addr : I2AddrCopy(a, b)
      PROVE  Evolves
  BY <1>4, SetSAddrEvolves, SetFDEvolves, SetPortEvolves, ProtocolEvolves, SocktypeEvolves,
     PassiveEvolves, AddrInfoEvolves, CopyEvolves
<1> QED BY <1>1, <1>2, <1>3, <1>4 DEF Next

LEMMA ViewsAlways == Spec => []Views
<1>1. Init => Views
  BY DEF Init, Views
<1>2. AddrInv /\ Views /\ [Next]_vars => Views'
  BY NextEvolves, ViewsKept
<1> QED BY <1>1, <1>2, InvAlways, PTL DEF Spec
-----------------------------------------------------------------------------
(*                              Theorems                                   *)

(* Every address is a whole record whatever was called in whatever order,   *)
(* and what the client may close is open.                                   *)
THEOREM AddressesTyped == Spec => []TypeOK
<1>1. AddrInv => TypeOK
  BY DEF AddrInv, Records, Parties, TypeOK
<1> QED BY <1>1, InvAlways, PTL

(* The pointer of an address goes into its own list, also in a copy whose   *)
(* original is gone, and a list is all the resolver's or all the library's, *)
(* as I2AddrFree assumes.                                                   *)
THEOREM ListsOwned == Spec => []ListIsItsOwn
<1>1. AddrInv => ListIsItsOwn
  <2> SUFFICES ASSUME AddrInv, NEW a \in Live
               PROVE  /\ addr[a].saddr # NULL => addr[a].saddr[1] = a
                                                /\ addr[a].saddr[2] \in DOMAIN addr[a].ai
                      /\ \A i \in DOMAIN addr[a].ai :
                           addr[a].ai_free = (addr[a].ai[i].by = "library")
    BY DEF ListIsItsOwn
  <2>1. Sound(a, addr[a]) /\ addr[a].ai_free \in BOOLEAN
    BY DEF Live, AddrInv, Records, Sound, AddrRec
  <2>2. ASSUME NEW i \in DOMAIN addr[a].ai
        PROVE  addr[a].ai_free = (addr[a].ai[i].by = "library")
    <3>1. CASE addr[a].ai_free
      BY <2>1, <3>1 DEF Sound, ListSound
    <3>2. CASE ~addr[a].ai_free
      BY <2>1, <3>2 DEF Sound, ListSound
    <3> QED BY <3>1, <3>2
  <2> QED BY <2>1, <2>2 DEF Sound, PointerSound
<1> QED BY <1>1, InvAlways, PTL

(* A descriptor that is open is closed by the client or by one address, and *)
(* one that is closed by nobody: whatever is copied, handed over, dropped   *)
(* or runs out of memory, none is leaked and none is closed twice.          *)
THEOREM OneCloserEach == Spec => []OneCloser
<1>1. AddrInv => OneCloser
  <2> SUFFICES ASSUME AddrInv, NEW fd \in Socket
               PROVE  Cardinality({a \in Live : fd \in Owned(a)}
                                  \cup (IF fd \in client THEN {NULL} ELSE {}))
                      = IF fd \in open THEN 1 ELSE 0
    BY DEF OneCloser
  <2> DEFINE closers == {a \in Live : fd \in Owned(a)}
                        \cup (IF fd \in client THEN {NULL} ELSE {})
  <2>1. {a \in Live : fd \in Owned(a)} = {a \in Addr : fd \in Closes(a)}
    BY DEF Live, Owned, Closes
  <2>2. CASE fd \notin open
    <3>1. closers = {}
      BY <2>1, <2>2 DEF AddrInv, Parties
    <3> QED BY <2>2, <3>1, FS_EmptySet
  <2>3. CASE fd \in client
    <3>1. closers = {NULL} /\ fd \in open
      BY <2>1, <2>3 DEF AddrInv, Parties
    <3> QED BY <3>1, FS_Singleton
  <2>4. CASE fd \in open /\ fd \notin client
    <3>1. PICK a \in Addr : fd \in Closes(a)
      BY <2>4 DEF AddrInv, Parties
    <3>2. closers = {a}
      BY <2>1, <2>4, <3>1 DEF AddrInv, Parties
    <3> QED BY <2>4, <3>2, FS_Singleton
  <2> QED BY <2>2, <2>3, <2>4
<1> QED BY <1>1, InvAlways, PTL

(* Once there is a socket address, the node and port kept as text name it,  *)
(* in whatever order they were set, looked up, derived and copied.          *)
THEOREM NamesAreOfTheAddress == Spec => []NamesAgree
<1>1. AddrInv /\ Views => NamesAgree
  <2> SUFFICES ASSUME AddrInv, Views, NEW a \in Live, addr[a].saddr # NULL
               PROVE  Names(addr[a], SA(a))
    BY DEF NamesAgree, Names
  <2> QED BY PointedNames DEF Live
<1> QED BY <1>1, InvAlways, ViewsAlways, PTL

(* The list of an address is the one its settings ask for: a setting that   *)
(* is replaced takes the list that was found with it away.                  *)
THEOREM ListsFit == Spec => []ListFitsSettings
<1>1. Views => ListFitsSettings
  BY DEF Views, Faithful, SettingsSound, ListFitsSettings, Live
<1> QED BY <1>1, ViewsAlways, PTL

(* Two socket addresses, mapped ones with their own length, compare as the  *)
(* peers they stand for when their lengths do.                              *)
LEMMA SockAddrsCompare ==
    ASSUME NEW s \in SockAddr, NEW r \in SockAddr, NEW len \in Length, NEW other \in Length,
           s.fam = "mapped" => len = "exact", r.fam = "mapped" => other = "exact"
    PROVE  I2SockAddrEqual(s, len, r, other, {"addr", "port"}) =
              IF "unix" \in {s.fam, r.fam} THEN -1
              ELSE IF AsV4(s) = AsV4(r) /\ len = other THEN 1 ELSE 0
<1> DEFINE s4 == AsV4(s)
           r4 == AsV4(r)
<1>1. /\ s4.fam = (IF s.fam = "mapped" THEN "v4" ELSE s.fam)
      /\ s4.host = s.host /\ s4.port = s.port /\ s4 \in SockAddr
  BY DEF AsV4, SockAddr
<1>2. /\ r4.fam = (IF r.fam = "mapped" THEN "v4" ELSE r.fam)
      /\ r4.host = r.host /\ r4.port = r.port /\ r4 \in SockAddr
  BY DEF AsV4, SockAddr
<1>3. s4 = r4 <=> s4.fam = r4.fam /\ s4.host = r4.host /\ s4.port = r4.port
  BY <1>1, <1>2 DEF SockAddr
<1>4. s.fam \in {"v4", "v6", "mapped", "unix"} /\ r.fam \in {"v4", "v6", "mapped", "unix"}
  BY DEF SockAddr
<1>8. AsV4Length(s, len) = len /\ AsV4Length(r, other) = other
  BY DEF AsV4Length
<1> HIDE DEF s4, r4
<1>5. \A x, y : SameFamilyEqual(x, y, {"addr", "port"}) =
         IF ~I2SockAddrToSockUnion(x) \/ ~I2SockAddrToSockUnion(y) THEN -1
         ELSE IF x.fam = y.fam /\ x.host = y.host /\ x.port = y.port THEN 1 ELSE 0
  BY DEF SameFamilyEqual
<1>6. CASE s.fam = "unix" \/ r.fam = "unix"
  <2>1. ~I2SockAddrToSockUnion(s) \/ ~I2SockAddrToSockUnion(r)
    BY <1>6 DEF Family, I2SockAddrToSockUnion
  <2>2. SameFamilyEqual(s, r, {"addr", "port"}) = -1
    BY <1>5, <2>1
  <2>3. I2SockAddrEqual(s, len, r, other, {"addr", "port"}) = -1
    BY <2>1, <2>2, Zenon DEF I2SockAddrEqual
  <2> QED BY <1>6, <2>3
<1>7. CASE s.fam # "unix" /\ r.fam # "unix"
  <2>1. I2SockAddrToSockUnion(s) /\ I2SockAddrToSockUnion(r)
    BY <1>4, <1>7 DEF Family, I2SockAddrToSockUnion
  <2>2. I2SockAddrToSockUnion(s4) /\ I2SockAddrToSockUnion(r4)
    BY <1>1, <1>2, <1>4, <1>7 DEF Family, I2SockAddrToSockUnion
  <2>3. CASE len = other /\ Family(s) = Family(r)
    <3>1. I2SockAddrEqual(s, len, r, other, {"addr", "port"}) =
            SameFamilyEqual(s, r, {"addr", "port"})
      BY <2>3, Zenon DEF I2SockAddrEqual
    <3>2. s.fam = r.fam <=> s4.fam = r4.fam
      BY <1>1, <1>2, <1>4, <1>7, <2>3 DEF Family
    <3> QED BY <1>1, <1>2, <1>3, <1>5, <1>7, <2>1, <2>3, <3>1, <3>2 DEF s4, r4
  <2>4. CASE ~(len = other /\ Family(s) = Family(r))
    <3>1. I2SockAddrEqual(s, len, r, other, {"addr", "port"}) =
            IF len = other /\ Family(s4) = Family(r4)
            THEN SameFamilyEqual(s4, r4, {"addr", "port"}) ELSE 0
      BY <1>8, <2>1, <2>4, Zenon DEF I2SockAddrEqual, s4, r4
    <3>2. Family(s4) = Family(r4) <=> s4.fam = r4.fam
      BY <1>1, <1>2, <1>4, <1>7 DEF Family
    <3> QED BY <1>3, <1>5, <1>7, <2>2, <3>1, <3>2 DEF s4, r4
  <2> QED BY <2>3, <2>4
<1> QED BY <1>6, <1>7

(* However two addresses came by their socket addresses and lengths,        *)
(* comparing them answers whether they are the same peer with the same      *)
(* length; only a length a client gave is another than the family's; and an *)
(* address that was built from a socket address, mapped or not, and a copy  *)
(* of it can be asked for loopback.                                         *)
THEOREM PeersAreCompared == Spec => []PeersCompare
<1>1. AddrInv /\ Views => PeersCompare
  <2> SUFFICES ASSUME AddrInv, Views PROVE PeersCompare
    OBVIOUS
  <2>1. ASSUME NEW a \in Live, addr[a].saddr # NULL
        PROVE  /\ SA(a) \in SockAddr /\ addr[a].saddrlen \in Length
               /\ addr[a].saddrlen = "longer" => addr[a].origin.given
               /\ addr[a].origin.given => SA(a).fam # "mapped"
    <3>1. /\ addr[a].saddr[2] \in DOMAIN addr[a].ai /\ Faithful(addr[a])
          /\ addr[a] # NULL /\ a \in Addr
      BY <2>1 DEF Live, AddrInv, Records, Sound, PointerSound, Views
    <3>2. SA(a) \in SockAddr /\ SA(a) = addr[a].ai[addr[a].saddr[2]].sa
      BY <2>1, <3>1, PointsInside
    <3> QED BY <2>1, <3>1, <3>2 DEF Faithful, GivenSound
  <2>2. ASSUME NEW a \in Live, NEW b \in Live, addr[a].saddr # NULL, addr[b].saddr # NULL
        PROVE  I2SockAddrEqual(SA(a), addr[a].saddrlen, SA(b), addr[b].saddrlen,
                               {"addr", "port"}) =
                 IF "unix" \in {SA(a).fam, SA(b).fam} THEN -1
                 ELSE IF AsV4(SA(a)) = AsV4(SA(b)) /\ addr[a].saddrlen = addr[b].saddrlen
                      THEN 1 ELSE 0
    <3>1. /\ SA(a).fam = "mapped" => addr[a].saddrlen = "exact"
          /\ SA(b).fam = "mapped" => addr[b].saddrlen = "exact"
      BY <2>1, <2>2 DEF Length
    <3> QED BY <2>1, <2>2, <3>1, SockAddrsCompare
  <2>3. ASSUME NEW a \in Live, addr[a].saddr # NULL, addr[a].origin.given, SA(a).fam # "unix"
        PROVE  I2SockAddrIsLoopback(SA(a)) = IF SA(a).host = Loopback THEN 1 ELSE 0
    BY <2>1, <2>3 DEF I2SockAddrIsLoopback
  <2> QED BY <2>1, <2>2, <2>3 DEF PeersCompare
<1> QED BY <1>1, InvAlways, ViewsAlways, PTL

(* While an address keeps its descriptor, what the descriptor was connected *)
(* with stays, whatever is set, asked for or looked up.                      *)
THEOREM SocketsFreeze == Spec => SocketFreezes
<1>1. AddrInv /\ Views /\ [Next]_vars =>
        [\A a \in Live : addr[a].fd # NULL /\ addr'[a] # NULL /\ addr'[a].fd = addr[a].fd =>
            LET rec == addr[a] new == addr'[a]
            IN /\ new.saddr = rec.saddr /\ new.passive = rec.passive
               /\ rec.ai # <<>> => new.ai = rec.ai
               /\ rec.port_set => new.port_value = rec.port_value
               /\ rec.so_type # NULL => new.so_type = rec.so_type
               /\ rec.so_protocol # NULL => new.so_protocol = rec.so_protocol]_vars
  BY NextEvolves, FrozenKept DEF Live, Frozen
<1> QED BY <1>1, InvAlways, ViewsAlways, PTL DEF Spec, SocketFreezes
=============================================================================
