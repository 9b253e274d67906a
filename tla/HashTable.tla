----------------------------- MODULE HashTable -----------------------------
(***************************************************************************)
(* The hash table of I2util (I2util/table.c, contract in I2util/table.h).  *)
(*                                                                         *)
(* Bindings are carved out of calloc'ed blocks of `hint' bindings and are  *)
(* threaded either on the free list or on exactly one bucket chain; both   *)
(* kinds of list are sequences of bindings, head first.  I2HashIterate     *)
(* hands the control to a callback that may fetch, count and delete, so it *)
(* is split into its steps: `op' says which loop of which function is      *)
(* running and (i, p) is the position that loop has reached.  A delete     *)
(* made inside the callback only marks the binding; the marked ones are    *)
(* unlinked by the sweep at the end of the iteration.  Every allocation    *)
(* may fail.                                                               *)
(***************************************************************************)
EXTENDS Integers, FiniteSets, SequencesExt

CONSTANTS
    Key, Value,   \* what the caller stores (compared by cmp, opaque otherwise)
    NULL,         \* the null pointer: no value, no key
    Hash,         \* the hash function, any function of the key
    Primes,       \* the bucket counts I2HashInit picks from, ascending
    Hint,         \* the caller's guess of the number of entries, may be 0
    MaxBlocks,    \* bound: blocks of bindings the memory has room for
    MaxAlist      \* bound: how far failed allocations may stretch alist

ASSUME KeyAssumption == NULL \notin Key \cup Value
ASSUME HashAssumption == Hash \in [Key -> Nat]
ASSUME PrimesAssumption ==
    /\ Primes \in Seq(Nat \ {0})
    /\ Len(Primes) > 0
ASSUME BoundAssumption ==
    /\ Hint \in Nat
    /\ MaxBlocks \in Nat \ {0}
    /\ MaxAlist \in Nat

(* The largest prime not above the hint, the first one if all are above. *)
size == LET fits == {j \in 1..Len(Primes) : j = 1 \/ Primes[j] <= Hint}
        IN  Primes[CHOOSE j \in fits : \A l \in fits : l <= j]

hint == IF Hint # 0 THEN Hint ELSE size

Bucket == 0..(size - 1)
Binding == (1..MaxBlocks) \X (1..hint)
BucketOf(k) == Hash[k] % size

VARIABLES
    heap,          \* what the table holds of the C heap
    num_alist,     \* blocks of bindings: alist[1..num_alist]
    size_alist,    \* entries alist has room for
    freelist,      \* the unused bindings
    buckets,       \* the chains
    bkey, bvalue, bdelete,  \* the fields of a binding
    length, delete_nodes, in_iterate,
    op,            \* the loop that is running, "idle" between two calls
    i, p,          \* its position: bucket i, p-th binding of the chain
    ret            \* the last result handed to the caller (or to ifunc)

store == <<heap, num_alist, size_alist>>
lists == <<freelist, buckets>>
fields == <<bkey, bvalue, bdelete>>
counts == <<length, delete_nodes, in_iterate>>
control == <<op, i, p>>
vars == <<store, lists, fields, counts, control, ret>>

Op == {"closed", "idle", "visit", "callback", "sweep", "clean", "cleanChain"}
(* The pieces of memory a table is made of, one of each but the blocks. *)
Table == <<"table", 0>>
Buckets == <<"buckets", 0>>
Alist == <<"alist", 0>>
Block(b) == <<"block", b>>
Memory == {Table, Buckets, Alist} \cup {Block(b) : b \in 1..MaxBlocks}

Result(call, out) == [call |-> call, out |-> out]

TypeOK ==
    /\ heap \subseteq Memory
    /\ num_alist \in 0..MaxBlocks
    /\ size_alist \in Nat
    /\ freelist \in Seq(Binding)
    /\ buckets \in [Bucket -> Seq(Binding)]
    /\ bkey \in [Binding -> Key \cup {NULL}]
    /\ bvalue \in [Binding -> Value \cup {NULL}]
    /\ bdelete \in [Binding -> BOOLEAN]
    /\ length \in Nat
    /\ delete_nodes \in Nat
    /\ in_iterate \in BOOLEAN
    /\ op \in Op
    /\ i \in 0..size
    /\ p \in Nat \ {0}
-----------------------------------------------------------------------------
NoChains == [b \in Bucket |-> <<>>]
AllBindings(field) == [n \in Binding |-> field]

(* No table yet. *)
Init ==
    /\ heap = {} /\ num_alist = 0 /\ size_alist = 0
    /\ freelist = <<>> /\ buckets = NoChains
    /\ bkey = AllBindings(NULL)
    /\ bvalue = AllBindings(NULL)
    /\ bdelete = AllBindings(FALSE)
    /\ length = 0 /\ delete_nodes = 0 /\ in_iterate = FALSE
    /\ op = "closed" /\ i = 0 /\ p = 1
    /\ ret = Result("none", NULL)

(* The bindings of block b in the order alloc_freelist leaves them. *)
BlockList(b) == [j \in 1..hint |-> <<b, hint + 1 - j>>]

(* free() of whatever alist points to, done only when size_alist is set. *)
AlistMemory(room, n) ==
    IF room > 0 THEN {Alist} \cup {Block(b) : b \in 1..n} ELSE {}

(* Mutant: the error path forgets alist. *)
InitErrorFrees_NoAlist(got, room) == {Table} \cup (got \cap {Buckets})

(* What the error path of I2HashInit frees, given what was allocated. *)
InitErrorFrees(got, room) ==
    {Table} \cup (got \cap {Buckets}) \cup AlistMemory(room, 0)

(* One of the four allocations fails: NULL is returned.  room is size_alist *)
(* at that time: set when realloc() worked and calloc() did not.            *)
I2HashInitFails ==
    /\ op = "closed"
    /\ \E got \in {{}, {Table}, {Table, Buckets}, {Table, Buckets, Alist}} :
         LET room == IF Alist \in got THEN hint ELSE 0
         IN  heap' = got \ InitErrorFrees(got, room)
    /\ ret' = Result("I2HashInit", NULL)
    /\ UNCHANGED <<num_alist, size_alist, lists, fields, counts, control>>

I2HashInit ==
    /\ op = "closed"
    /\ heap' = {Table, Buckets, Alist, Block(1)}
    /\ num_alist' = 1
    /\ size_alist' = hint
    /\ freelist' = BlockList(1)
    /\ op' = "idle"
    /\ ret' = Result("I2HashInit", 0)
    /\ UNCHANGED <<buckets, fields, counts, i, p>>

(* A closed table is gone: the variables go back to what calloc() and       *)
(* memset() will make of the next one.                                      *)
I2HashClose ==
    /\ op = "idle"
    /\ ~in_iterate
    /\ heap' = heap \ ({Table, Buckets} \cup AlistMemory(size_alist, num_alist))
    /\ num_alist' = 0 /\ size_alist' = 0
    /\ freelist' = <<>> /\ buckets' = NoChains
    /\ bkey' = AllBindings(NULL)
    /\ bvalue' = AllBindings(NULL)
    /\ bdelete' = AllBindings(FALSE)
    /\ length' = 0
    /\ op' = "closed"
    /\ UNCHANGED <<delete_nodes, in_iterate, i, p>>
    /\ ret' = Result("I2HashClose", NULL)
-----------------------------------------------------------------------------
(* Searching: where in the chain of its bucket a key is found.  Store     *)
(* compares the keys only; delete and fetch pass over marked bindings.    *)
HeldAt(k) ==
    LET chain == buckets[BucketOf(k)]
    IN  {j \in DOMAIN chain : bkey[chain[j]] = k}

ShownAt(k) == {j \in HeldAt(k) : ~bdelete[buckets[BucketOf(k)][j]]}

IsFirst(j, positions) == j \in positions /\ \A l \in positions : j <= l

(* Mutant: an unlinked binding is forgotten. *)
free_binding_Leaks(n) == freelist' = freelist

(* free_binding: the binding goes back to the free list, its fields as is. *)
free_binding(n) == freelist' = <<n>> \o freelist

(* Mutant: a binding is freed and left on its chain. *)
unlink_KeepsLink(b, j) ==
    /\ buckets' = buckets
    /\ free_binding(buckets[b][j])
    /\ length' = length - 1

unlink(b, j) ==
    /\ buckets' = [buckets EXCEPT ![b] = RemoveAt(@, j)]
    /\ free_binding(buckets[b][j])
    /\ length' = length - 1

Calling == op \in {"idle", "callback"}  \* where the caller has the control

I2HashDeleteMisses(k) ==
    /\ Calling
    /\ ShownAt(k) = {}
    /\ ret' = Result("I2HashDelete", -1)
    /\ UNCHANGED <<store, lists, fields, counts, control>>

(* A delete inside an iteration leaves the chain alone: the loop is on it. *)
I2HashDeleteMarks(k) ==
    /\ Calling
    /\ in_iterate
    /\ \E j \in ShownAt(k) :
         /\ IsFirst(j, ShownAt(k))
         /\ bdelete' = [bdelete EXCEPT ![buckets[BucketOf(k)][j]] = TRUE]
    /\ delete_nodes' = delete_nodes + 1
    /\ ret' = Result("I2HashDelete", 0)
    /\ UNCHANGED <<store, lists, bkey, bvalue, length, in_iterate, control>>

(* Mutant: a delete inside an iteration unlinks at once. *)
I2HashDeleteUnlinks_Always(k) ==
    /\ Calling
    /\ \E j \in ShownAt(k) :
         /\ IsFirst(j, ShownAt(k))
         /\ unlink(BucketOf(k), j)
    /\ ret' = Result("I2HashDelete", 0)
    /\ UNCHANGED <<store, fields, delete_nodes, in_iterate, control>>

I2HashDeleteUnlinks(k) ==
    /\ Calling
    /\ ~in_iterate
    /\ \E j \in ShownAt(k) :
         /\ IsFirst(j, ShownAt(k))
         /\ unlink(BucketOf(k), j)
    /\ ret' = Result("I2HashDelete", 0)
    /\ UNCHANGED <<store, fields, delete_nodes, in_iterate, control>>

I2HashDelete(k) ==
    \/ I2HashDeleteMisses(k)
    \/ I2HashDeleteMarks(k)
    \/ I2HashDeleteUnlinks(k)
-----------------------------------------------------------------------------
(* I2HashStore of a key the table holds: only the value changes. *)
I2HashStoreReplaces(k, v) ==
    /\ op = "idle"
    /\ ~in_iterate
    /\ \E j \in HeldAt(k) :
         /\ IsFirst(j, HeldAt(k))
         /\ bvalue' = [bvalue EXCEPT ![buckets[BucketOf(k)][j]] = v]
    /\ ret' = Result("I2HashStore", 0)
    /\ UNCHANGED <<store, lists, bkey, bdelete, counts, control>>

(* Mutant: a recycled binding keeps its deletion mark. *)
link_KeepsMark(n, fl, k, v) ==
    /\ freelist' = fl
    /\ bkey' = [bkey EXCEPT ![n] = k]
    /\ bvalue' = [bvalue EXCEPT ![n] = v]
    /\ buckets' = [buckets EXCEPT ![BucketOf(k)] = <<n>> \o @]
    /\ length' = length + 1
    /\ ret' = Result("I2HashStore", 0)
    /\ UNCHANGED <<bdelete, delete_nodes, in_iterate, control>>

(* I2HashStore of a new key in binding n, taken off a free list fl. *)
link(n, fl, k, v) ==
    /\ freelist' = fl
    /\ bkey' = [bkey EXCEPT ![n] = k]
    /\ bvalue' = [bvalue EXCEPT ![n] = v]
    /\ bdelete' = [bdelete EXCEPT ![n] = FALSE]
    /\ buckets' = [buckets EXCEPT ![BucketOf(k)] = <<n>> \o @]
    /\ length' = length + 1
    /\ ret' = Result("I2HashStore", 0)
    /\ UNCHANGED <<delete_nodes, in_iterate, control>>

(* Mutant: a key is stored without a search for it. *)
StoreIsNew_NoSearch(k) == op = "idle" /\ ~in_iterate

StoreIsNew(k) ==
    /\ op = "idle"
    /\ ~in_iterate
    /\ HeldAt(k) = {}

I2HashStoreAdds(k, v) ==
    /\ StoreIsNew(k)
    /\ freelist # <<>>
    /\ link(Head(freelist), Tail(freelist), k, v)
    /\ UNCHANGED store

(* The free list is empty: alloc_freelist adds a block and its entry in     *)
(* alist, which is grown by hint first.                                     *)
I2HashStoreGrows(k, v) ==
    /\ StoreIsNew(k)
    /\ freelist = <<>>
    /\ num_alist < MaxBlocks
    /\ num_alist' = num_alist + 1
    /\ size_alist' = IF num_alist <= size_alist THEN size_alist + hint ELSE size_alist
    /\ heap' = heap \cup {Alist, Block(num_alist + 1)}
    /\ LET fl == BlockList(num_alist + 1)
       IN  link(Head(fl), Tail(fl), k, v)

(* realloc() or calloc() fails; in the second case alist has been grown. *)
I2HashStoreFails(k) ==
    /\ StoreIsNew(k)
    /\ freelist = <<>>
    /\ \/ UNCHANGED size_alist
       \/ size_alist + hint <= MaxAlist /\ size_alist' = size_alist + hint
    /\ ret' = Result("I2HashStore", -1)
    /\ UNCHANGED <<heap, num_alist, lists, fields, counts, control>>

I2HashStore(k, v) ==
    \/ I2HashStoreReplaces(k, v)
    \/ I2HashStoreAdds(k, v)
    \/ I2HashStoreGrows(k, v)
    \/ I2HashStoreFails(k)

I2HashFetch(k) ==
    /\ Calling
    /\ \/ /\ ShownAt(k) = {}
          /\ ret' = Result("I2HashFetch", NULL)
       \/ \E j \in ShownAt(k) :
            /\ IsFirst(j, ShownAt(k))
            /\ ret' = Result("I2HashFetch", bvalue[buckets[BucketOf(k)][j]])
    /\ UNCHANGED <<store, lists, fields, counts, control>>

I2HashNumEntries ==
    /\ Calling
    /\ ret' = Result("I2HashNumEntries",
                     IF delete_nodes > length THEN 0 ELSE length - delete_nodes)
    /\ UNCHANGED <<store, lists, fields, counts, control>>
-----------------------------------------------------------------------------
GoTo(o, b, j) == op' = o /\ i' = b /\ p' = j

I2HashIterate ==
    /\ op = "idle"
    /\ ~in_iterate
    /\ in_iterate' = TRUE
    /\ delete_nodes' = 0
    /\ GoTo("visit", 0, 1)
    /\ ret' = Result("I2HashIterate", NULL)
    /\ UNCHANGED <<store, lists, fields, length>>

InChain == i < size /\ p <= Len(buckets[i])
Here == buckets[i][p]

(* The visiting loop: next bucket, past a marked binding, into the callback. *)
VisitNextBucket ==
    /\ op = "visit"
    /\ i < size /\ ~InChain
    /\ GoTo("visit", i + 1, 1)
    /\ UNCHANGED <<store, lists, fields, counts, ret>>

(* Mutant: the loop does not step past a marked binding. *)
VisitSkips_Stays ==
    /\ op = "visit"
    /\ InChain /\ bdelete[Here]
    /\ UNCHANGED vars

VisitSkips ==
    /\ op = "visit"
    /\ InChain /\ bdelete[Here]
    /\ GoTo("visit", i, p + 1)
    /\ UNCHANGED <<store, lists, fields, counts, ret>>

(* Mutant: the callback is called for marked bindings too. *)
VisitCalls_Marked ==
    /\ op = "visit"
    /\ InChain
    /\ GoTo("callback", i, p)
    /\ ret' = Result("ifunc", bkey[Here])
    /\ UNCHANGED <<store, lists, fields, counts>>

VisitCalls ==
    /\ op = "visit"
    /\ InChain /\ ~bdelete[Here]
    /\ GoTo("callback", i, p)
    /\ ret' = Result("ifunc", bkey[Here])
    /\ UNCHANGED <<store, lists, fields, counts>>

VisitEnds ==
    /\ op = "visit"
    /\ i = size
    /\ GoTo("sweep", 0, 1)
    /\ UNCHANGED <<store, lists, fields, counts, ret>>

(* ifunc returns: true goes on with the next binding, false ends the visits. *)
CallbackReturns ==
    /\ op = "callback"
    /\ GoTo("visit", i, p + 1) \/ GoTo("sweep", 0, 1)
    /\ UNCHANGED <<store, lists, fields, counts, ret>>

(* The sweeping loop, which stops early once no marked binding is left. *)
SweepGoesOn == op = "sweep" /\ i < size /\ delete_nodes > 0

SweepNextBucket ==
    /\ SweepGoesOn
    /\ ~InChain
    /\ GoTo("sweep", i + 1, 1)
    /\ UNCHANGED <<store, lists, fields, counts, ret>>

SweepKeeps ==
    /\ SweepGoesOn
    /\ InChain /\ ~bdelete[Here]
    /\ GoTo("sweep", i, p + 1)
    /\ UNCHANGED <<store, lists, fields, counts, ret>>

(* Mutant: the sweep forgets to count the binding out of the table. *)
SweepUnlinks_KeepsLength ==
    /\ SweepGoesOn
    /\ InChain /\ bdelete[Here]
    /\ buckets' = [buckets EXCEPT ![i] = RemoveAt(@, p)]
    /\ free_binding(Here)
    /\ delete_nodes' = delete_nodes - 1
    /\ UNCHANGED <<store, fields, length, in_iterate, control, ret>>

(* Mutant: the sweep steps past the binding after an unlinked one. *)
SweepUnlinks_Skips ==
    /\ SweepGoesOn
    /\ InChain /\ bdelete[Here]
    /\ unlink(i, p)
    /\ delete_nodes' = delete_nodes - 1
    /\ GoTo("sweep", i, p + 1)
    /\ UNCHANGED <<store, fields, in_iterate, ret>>

SweepUnlinks ==
    /\ SweepGoesOn
    /\ InChain /\ bdelete[Here]
    /\ unlink(i, p)
    /\ delete_nodes' = delete_nodes - 1
    /\ UNCHANGED <<store, fields, in_iterate, control, ret>>

SweepEnds ==
    /\ op = "sweep"
    /\ ~SweepGoesOn
    /\ in_iterate' = FALSE
    /\ GoTo("idle", 0, 1)
    /\ UNCHANGED <<store, lists, fields, length, delete_nodes, ret>>

IterateStep ==
    \/ VisitNextBucket \/ VisitSkips \/ VisitCalls \/ VisitEnds
    \/ SweepNextBucket \/ SweepKeeps \/ SweepUnlinks \/ SweepEnds
-----------------------------------------------------------------------------
I2HashClean ==
    /\ op = "idle"
    /\ ~in_iterate
    /\ GoTo("clean", 0, 1)
    /\ ret' = Result("I2HashClean", NULL)
    /\ UNCHANGED <<store, lists, fields, counts>>

CleanGoesOn == op = "clean" /\ i < size /\ length > 0

CleanEntersBucket ==
    /\ CleanGoesOn
    /\ GoTo("cleanChain", i, 1)
    /\ UNCHANGED <<store, lists, fields, counts, ret>>

CleanFrees ==
    /\ op = "cleanChain"
    /\ buckets[i] # <<>>
    /\ unlink(i, 1)
    /\ UNCHANGED <<store, fields, delete_nodes, in_iterate, control, ret>>

CleanLeavesBucket ==
    /\ op = "cleanChain"
    /\ buckets[i] = <<>>
    /\ GoTo("clean", i + 1, 1)
    /\ UNCHANGED <<store, lists, fields, counts, ret>>

CleanEnds ==
    /\ op = "clean"
    /\ ~CleanGoesOn
    /\ GoTo("idle", 0, 1)
    /\ UNCHANGED <<store, lists, fields, counts, ret>>

CleanStep == CleanEntersBucket \/ CleanFrees \/ CleanLeavesBucket \/ CleanEnds
-----------------------------------------------------------------------------
Next ==
    \/ I2HashInitFails
    \/ I2HashInit
    \/ I2HashClose
    \/ \E k \in Key : I2HashDelete(k)
    \/ \E k \in Key, v \in Value : I2HashStore(k, v)
    \/ \E k \in Key : I2HashFetch(k)
    \/ I2HashNumEntries
    \/ I2HashIterate
    \/ CallbackReturns
    \/ IterateStep
    \/ I2HashClean
    \/ CleanStep

Spec == Init /\ [][Next]_vars

(* The loops of the code run on, and a callback returns to its caller. *)
Fairness ==
    /\ WF_vars(IterateStep)
    /\ WF_vars(CleanStep)
    /\ WF_vars(CallbackReturns)

FairSpec == Spec /\ Fairness
-----------------------------------------------------------------------------
(*                              Properties                                 *)

ChainOf(b) == ToSet(buckets[b])
Linked == UNION {ChainOf(b) : b \in Bucket}
Free == ToSet(freelist)
Allocated == (1..num_alist) \X (1..hint)
Marked == {n \in Linked : bdelete[n]}

(* Every binding of the allocated blocks is on exactly one list, in exactly *)
(* one place: unlink, free_binding and alloc_binding neither lose a binding *)
(* nor leave one on two lists.                                              *)
OnOneList ==
    /\ IsInjective(freelist)
    /\ \A b \in Bucket : IsInjective(buckets[b])
    /\ \A b, c \in Bucket : b # c => ChainOf(b) \cap ChainOf(c) = {}
    /\ Linked \cap Free = {}
    /\ Linked \cup Free = Allocated

(* A linked binding hangs in the bucket its key hashes to, and no key is    *)
(* linked twice, so the first match a search finds is the only one.         *)
KeysOnce ==
    /\ \A b \in Bucket : \A n \in ChainOf(b) :
         bkey[n] \in Key /\ BucketOf(bkey[n]) = b
    /\ \A n, m \in Linked : bkey[n] = bkey[m] => n = m

(* The counters that I2HashNumEntries, the sweep and I2HashClean rely on    *)
(* are exact at every step, also in the middle of an iteration.             *)
CountsExact ==
    /\ length = Cardinality(Linked)
    /\ delete_nodes = Cardinality(Marked)

(* A deletion mark never outlives the iteration that made it: a recycled    *)
(* binding is not born deleted, and delete_nodes can be zeroed at the start *)
(* of the next iteration.                                                   *)
MarksOnlyWhileIterating ==
    /\ in_iterate <=> op \in {"visit", "callback", "sweep"}
    /\ ~in_iterate => Marked = {}

(* The loops end with their work done although both may stop early: the     *)
(* sweep leaves no marked binding and I2HashClean no binding at all, as its *)
(* closing assert(table->length == 0) has it.                               *)
LoopsEndWithWorkDone ==
    /\ op = "sweep" /\ ~SweepGoesOn => Marked = {}
    /\ op = "clean" /\ ~CleanGoesOn => length = 0 /\ Linked = {}

(* All the memory the table took is what I2HashClose and the error path of  *)
(* I2HashInit give back, and alist always has room for its blocks.          *)
NoMemoryLost ==
    /\ op = "closed" => heap = {} /\ num_alist = 0
    /\ op # "closed" =>
         /\ heap = {Table, Buckets, Alist} \cup {Block(b) : b \in 1..num_alist}
         /\ num_alist > 0
    /\ num_alist <= size_alist

(* No binding moves, and none is recycled, while a callback runs: the       *)
(* binding it was called for and the loop's next pointer stay valid         *)
(* whatever the callback deletes.                                           *)
ListsStillInCallback == [][op = "callback" => UNCHANGED lists]_vars

(* The table implements the map of KeyMap.  The bindings a running          *)
(* iteration has yet to look at are those of the later buckets and those    *)
(* after its position in bucket i.                                          *)
Ahead(b, j) ==
    \/ b > i
    \/ b = i /\ j > p
    \/ b = i /\ j = p /\ op = "visit"

map ==
    [k \in Key |->
        IF op \in {"clean", "cleanChain"} \/ ShownAt(k) = {} THEN NULL
        ELSE bvalue[buckets[BucketOf(k)][CHOOSE j \in ShownAt(k) : TRUE]]]

phase == CASE op = "visit" -> "visiting"
           [] op \in {"sweep", "clean", "cleanChain"} -> "leaving"
           [] OTHER -> op

unvisited ==
    IF op \in {"visit", "callback"}
    THEN {k \in Key : \E j \in ShownAt(k) : Ahead(BucketOf(k), j)}
    ELSE {}

Abstract == INSTANCE KeyMap

(* Every behaviour of the table is one of the map: what fetch, delete and   *)
(* the entry count return is what the map says, a failed store changes      *)
(* nothing, and an iteration hands out each key that is present when its    *)
(* turn comes exactly once.                                                 *)
ImplementsKeyMap == Abstract!Spec

(* I2HashIterate and I2HashClean come to an end, however much the callback  *)
(* deletes.                                                                 *)
LoopsEnd == op \in {"visit", "sweep", "clean", "cleanChain"} ~> op = "idle"
=============================================================================
