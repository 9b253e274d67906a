# A verification of I2util

I2util is the utility library of perfSONAR's OWAMP and BWCTL, with two
command-line programs, `pfstore` and `aespasswd`, that edit the files in which
those tools keep pass-phrases and keys.  This directory holds TLA+ modules
translated from its C sources, TLC configurations that check them on small
instances, and theorems about them whose proofs TLAPS checks for every value
of the constants.

Paths below are relative to `I2util/` of the repository (the library is in
`I2util/I2util/`); `table.c` without a directory is a file of the library.


## 1. Inventory

### Components, their state and their operations

| component | files | state | operations | modelled |
|---|---|---|---|---|
| hash table | `table.c`, `table.h` | bucket chains, free list, blocks of bindings, `length`, `delete_nodes`, `in_iterate` | init, close, store, fetch, delete, count, iterate (with a callback), clean | all of it: `HashTable`, `KeyMap` |
| pass-phrase store editing | `pfstore/pfstore.c` | two directory entries, the record lock, stdio buffers | one run of `main()` | `StoreEdit`, `AtomicStore` |
| key file editing | `aespasswd/aespasswd.c` | as above | as above | `StoreEdit` with `KeyFile = TRUE` |
| configuration and key file parsers | `conf.c` | a line buffer, the line number | `I2GetConfLine`, `I2ReadConfVar`, `I2ParseKeyFile`, `I2ParsePFFile`, the writers, `I2StrToNum`, `I2StrToByte` | all of it: `ConfFile`, character by character; which records a query selects: `StoreEdit` |
| error logging | `ErrLog.c`, `errlog.h` | the mutex, file/line/date of the event being logged, per handle: code, functions, client data | the logging macros, open, set reset function, reset, close, retrieve, get code, add error list | locking, location, handles: `ErrLog` |
| log handlers | `ErrLogSyslog.c`, `ErrLogImmediate.c` | attributes per handle, one syslog connection per process | log, reset | no |
| threads wrapper | `Pthread.c`, `Pthread.h` | - | pthreads, or nothing | lock and unlock, in `ErrLog` |
| addresses | `addr.c` | an address record: node, port, `sockaddr`, `addrinfo` list, descriptor, who owns them | by node, wildcard, address, descriptor; copy, free, setters, getters | `Addr` |
| socket address helpers | `saddr.c` | - | equality, loopback test | operators of `Addr` |
| reliable I/O | `io.c` | the caller's `*retn_on_intr` | `I2Readni`, `I2Writeni`, `I2CopyFile` | `ReliableIO` |
| pass-phrase input | `readpassphrase.c` | terminal modes, signal handlers, a static variable with the last signal caught | read into a buffer, read into an allocated buffer | `ReadPassPhrase` |
| random numbers | `random.c` | one source: descriptor or nothing | init, bytes, close | `ReliableIO` |
| SHA-1, HMAC, PBKDF2 | `sha1.c`, `hmac-sha1.c`, `pbkdf2.c` | chaining state, a partial block, a 64-bit count in two words | init, append, finish; key derivation | `Digest` |
| hex coding | `hex.c` | - | encode, decode | operators of `ConfFile` |
| MD5 | `md5.c` | - | - | no: RSA's reference implementation, third-party |
| `mach_dep.c` | | - | wrappers of the C library | no: no state |
| tests, `man2html`, packaging | | | | no: not part of the system |

### How they interact

* Every component reports errors through a handle of **error logging**; the
  handle's log function is code of the client and runs with the library's mutex
  held.
* The **hash table** calls the client's compare, hash and print functions, and
  the callback of an iteration, which may call the table again.
* `pfstore` and `aespasswd` use the **parsers** of `conf.c` (which both parse
  and copy to the lock file), **hex coding**, **pass-phrase input** and, as
  processes, share the **file system**: the store, the lock file and its record
  lock.
* **Addresses** use socket address helpers; a copy of an address shares the
  original's descriptor.
* PBKDF2 uses HMAC, HMAC uses SHA-1.

### What is hard

* *Reentrancy*: the hash table is changed by the callback of the loop that
  walks it; log functions log.
* *Concurrency*: two runs of a tool on one store; two threads that log.
* *Crashes and leftovers*: a run that dies leaves its lock file, which the next
  run opens without truncating it.
* *Failing allocations* that leave a structure half grown.
* *Counters that end loops*: `delete_nodes`, `length`.
* *Numeric edges*: line number 0 as an error code, multipliers that wrap, bit
  counts in two words.
* *Signals*: I/O loops and pass-phrase input that must go on, stop or start
  over.
* *Aliasing*: several representations of one address, some of them shared.

PROJECT.json lists each of these at its line under `hazards`, with the
properties that would catch it.

### What makes each component correct

* Hash table: behaves as a finite map; an iteration visits each key that is
  present when its turn comes exactly once; no binding is lost or linked twice;
  counters are exact; the loops end with their work done; no memory is lost.
* Store editing: a run is atomic, whatever happens to it; writers hold the
  lock; nobody edits a file onto itself; a store never disappears; every run
  ends.
* Error logging: an event has the place of its own call; client functions never
  overlap; calls return; the mutex is not held outside a call.
* Addresses: representations agree; a descriptor is closed once, by its owner; a
  list belongs to one address.
* I/O: a return of `n` means `n` bytes, in order; an interruption is reported
  only if asked for; calls return.
* Pass-phrase input: terminal and handlers are restored on every return and
  whenever the user is back at a shell; a caught signal is delivered, once; the
  answer is the line typed last.
* Digests: what is computed depends on the message and the key, not on how they
  are cut, and is what the standards say.
* Parsers: each call gives the next record and its row, a copy loses nothing,
  what is written is read back.
* Numeric conversions: the value or an error, never a wrapped value.

Where the code does not quite do this, the property states exactly what it does instead, and
section 6 says so.


## 2. Plan

| | modules | composes / refines | state |
|---|---|---|---|
| 1 | `HashTable`, `MCHashTable`, `HashTable_proofs` | implements `KeyMap` | done; the refinement is proved |
| 2 | `StoreEdit`, `MCStoreEdit`, `StoreEdit_proofs` | implements `AtomicStore` | done; the refinement is proved, for one process at a time and exact comparison |
| 3 | `ErrLog`, `MCErrLog`, `ErrLog_proofs` | - | mutex and location protocol done; next: arguments that log, the syslog handler's shared connection |
| 4 | `Addr`, `MCAddr`, `Addr_proofs` | saddr's comparisons as operators | done, all safety properties proved |
| 5 | `ReliableIO`, `ReliableIO_proofs` | - | done, with liveness |
| 6 | `ReadPassPhrase`, `ReadPassPhrase_proofs` | - | done, with liveness |
| 7 | `Digest`, `Digest_proofs` | against the standards' definitions | done, proved |
| 8 | `ConfFile` | against the rows of the text | done, proved (in `Library_proofs`) |
| 9 | `Library`, `MCLibrary`, `Library_proofs` | composes 5 to 8 | done; the composition is proved |

Every safety property the runs check is proved; section 5 says which are proved under
conditions on the constants.  Left are the parts of the plan that are not modelled
(`ErrLog`'s arguments that log, the syslog connection) and what is out of the
prover's reach, the liveness properties.


## 3. The modules

### HashTable, KeyMap

`HashTable` has one variable for each field of `struct I2Table` and
`struct I2Binding`.  Bindings are pairs (block, index), as `alloc_freelist`
carves them from the blocks it allocates, and a chain, like the free list, is a
sequence of bindings: `next` is the position after.  `heap` is the memory the
table has from the allocator.

The operations that run without giving up control (store, fetch, delete, count,
init, close) are one action each, split by the branch of the code they take:
`I2HashDeleteMarks` and `I2HashDeleteUnlinks` are the two ends of
`I2HashDelete`.  `I2HashIterate` and `I2HashClean` are stepped through: `op`
names the loop, `i` the bucket and `p` the position in its chain.  While
`op = "callback"` the client has the control and may fetch, count and delete;
`I2HashStore`, `I2HashClean`, `I2HashClose` and a second iteration are refused
by assertions in the code, hence guarded here.  Any allocation may fail, between
`realloc` of the list of blocks and `calloc` of the block in particular.

The compare and hash functions are client code: keys are opaque and the hash is
any function.  Printing is left out.  `unsigned` counters are natural numbers,
as `CountsExact` shows that none is ever decremented at 0.

`KeyMap` is the contract of `table.h`: a finite map, stores that may fail and
then change nothing, and an iteration that owes the client a call for each key.
The refinement mapping reads the map from the chains (marked bindings are not
in it) and the keys still to be visited from the position of the loop.

### StoreEdit, AtomicStore

The state is what two processes share, the directory (the names `store` and
`lock`), the files' lines and record locks, and for each process its place in
`main()`, its command line, its two descriptors and its stdio buffer (`out`).

There is one action per system call whose effect another process can see:
`OpenStore` (`fopen` "r+", or the check that there is none for `-n`),
`OpenLock` (`open` with `O_CREAT` and without `O_TRUNC`), `Lock`
(`fcntl(F_SETLK)`), `Edit` (both passes of the parser, which fill the buffer),
`Rename`, `Close`, `Exit`.  `Spill` lets stdio write a part of the buffer at any
time.  `Crash` kills a process anywhere: the buffer is lost, the lock released,
the lock file stays.  `RemoveLock` is the administrator's `rm`.

A line is an identity, a hex field and whether blanks stand before it; `Comment`,
`Blank` and `Broken` (a line without separator) stand in the place of an identity.

`Edited` is what the two passes write: the lines before the record that
matches, the new record, the lines after it; an invalid line or a second match
fails the run.  `Matches`, `Invalid` and `Stops` are the decisions of
`I2ParsePFFile` and `I2ParseKeyFile`, which differ: the key file is compared
exactly and validated in every line, the store over the shorter of two
identities and validated only where it matches.

`Spaced` is the count of leading blanks of `parsefileline`: an indented comment leaves its
blanks to the line after it, so a record is refused when it is indented or follows an
indented comment, and `Copied` comments are indented further.  The refusal is the error
`-rc`, and in the first row that is 0, the end of the file to `main()`.  Then (`Misread`)
the run writes its new record and calls the parser again (`pfstore.c:290`,
`aespasswd.c:300`), which goes on behind the character that was read: `Remainder` is the
line without it.  `Behead` gives an identity without its first character.  If the identity
had only one, the remainder starts with the separator, is refused in row 0 again, and the
second pass ends well with everything else lost.

All lines have one length, so overwriting an old lock file replaces whole lines;
in reality the seam is in the middle of a line.  The store is read at once
(stdio reads 4096 bytes).  Writes do not fail.  Memory does not run out: `parsefileline`
would return `-rc` for it, so in the first row it is another `Misread`.

`AtomicStore` is what the man pages promise of one run: committed at the rename, or
without effect. `At(s, id)` are the positions of an identity's records; `Commit`
replaces or takes out the one there is where it is, or appends a new one, and `Fail`
needs a reason (`Refused`, or a prompt that was not answered). It makes two
concessions, and states how far each goes.  A kill between `rename` and `fclose` may
truncate the store, as the code renames first (`Kill`: what is left is a beginning of the
new store).  And a run that adds to a store whose first line is an indented record may
commit a damaged one (`Misread`: the new record comes first, the indented one has the same
hex field and perhaps another identity, the rest is as it was; or the new record is all there is).
Other stores with an indented record, or one after an indented comment, are `Unreadable`:
runs on them fail and change nothing.  Lines are `Alike` when they differ in
blanks before comments and in blank lines only.

### ErrLog

A call of a logging macro is a frame on its thread's `stack` that goes through
`locate` (before `I2ErrLocation_`), `arguments` (the arguments of the second
call are evaluated, the mutex is held) and `log_func` (the client's function
runs).  `I2ErrGetMsg` and `I2ErrRep` go through `retrieve` and `retrieve_func`.
`location` stands for the three static variables, `event` in a frame for what
the log function is given.

`build` says how the library was compiled, `"threads"` or `"plain"`.  Without
`I2THREADS_ENABLE` (`configure.ac` sets it to false) the mutex is nothing at
all; the plain build is then used by one thread, and its log functions may log,
which `Calls` bounds by `MaxDepth`.  With threads, a log function that logs
would wait for itself; `NestsIn` says in which build clients do that, `NoneIn`
in which they log at level `I2LOG_NONE`.

Handles are opened, given a reset function, reset and closed; clients
see to it that a handle is idle when it is reset or closed, as the library has
no lock for that.  `reset_func` is `Garbage` after `I2ErrOpen`: it is never
initialised.  Messages, levels other than NONE and error tables are left out;
a handle without a retrieval function is one whose function does nothing.

### Addr

`addr` gives each of the client's variables its `I2AddrRec`, field by field;
`ai` is the list, and `saddr`, a pointer into it, is a pair of the list's owner
and the element, so that a copy that kept its original's pointer would show.
`port_value` 0, socket type 0, protocol 0 and descriptor -1 are `NULL`.  `by` in
a list element says who allocated it, the resolver or the library, as the two
are freed differently.  A socket address has a length beside it, `"exact"` for its
family or `"longer"`, both in the list (`addrlen`) and beside the pointer (`saddrlen`):
`I2AddrBySAddr` refuses only a length that is too short, so a client's
`sizeof(struct sockaddr_storage)` stays with the address.  After `I2AddrSetPort` the
length beside the pointer is that of the family and the list's is still the longer
one, which a copy then takes for both.

`origin`, which the code does not have, keeps where a list is from: whether it was looked
up for a passive socket, made from a socket address that was given, or copied, and which
settings got their first value after it (`late`).  `I2AddrCopy` copies the list and drops the type, the
protocol and the passive flag; `origin` goes with the list.  `open` are
the descriptors that are open and `client` those the client closes.

Every public function of `addr.c` that changes an address is an action.
`I2AddrNodeName`, `I2AddrServName` and `I2AddrNodeServName` change the same
fields under the same condition and are one action; so are `I2AddrBySockFD` and
`I2AddrByLocalSockFD`, which differ in the call that fetches the address.
Failing calls that leave the address as it was are not steps; a copy that runs
out of memory half way, which frees what it has, is one.  Calls of `I2AddrBySAddr` with a
length that is too short, which an address of the family IPv6 fails and the others
would read past, are not made.  `getaddrinfo` and
`getnameinfo` are external: any list of the families in `Resolved`, any failure.

Clients keep four rules, which `addr.h` states or implies: an address is freed
when the client has the only use of it (by the client's variable), the socket
address given to `I2AddrSetSAddr` is one of the address's own list
(`addr.c:683`), a descriptor is handed over (`close_on_free`) only by who owns
it, and one that an address gives up by `I2AddrSetFD` is the client's again.

Addresses are a family and an opaque host; a *mapped* address is the IPv4 host
inside an IPv6 one.  `I2SockAddrEqual`'s recursive calls with an unmapped address are
`AsV4`, which has the length of an IPv4 address (`AsV4Length`).

### ReliableIO

`io` is the call in progress: function, block, what is left, the bytes read or
to be written, the result.  One action per outcome of a system call: `ReadSome`
and `WriteSome` (any part of what is asked for), `ReadEOF`, `Interrupted` (EINTR;
the handler may set the flag), `Signalled` (a signal between two system calls),
`Fails`, `WriteNothing` (write() returns 0, which the code treats by the `errno` of
an earlier call).  `I2Readn`, `I2Writen` and `I2RandomBytes` are the same loops with
a flag that is never set.  The peer sends and closes (`PeerSends`).
`I2CopyFile` is one action: no other party sees its steps; it fails where a
system call does.

### ReadPassPhrase

`at` is the place in the function and, where signals are caught or released one by
one, which one is next.  `Signal` may happen at any step and is delivered by the
action that is installed then; in a `read` it may end the read, or come just before
and be noticed only after the line.  A process that is stopped continues
(`Continue`) where it was.  `Resend` is the `kill` after everything is put back, and the
restart.  `mem`, `pos` and `nr` are the buffer, `p` and `pf_len`, and what `read` returned.  The two
functions differ in `Stored`, `OutOfMemory` and `Terminate` only.

`SIGINT` stands for HUP, QUIT and TERM (end a process, no restart), `SIGTSTP` for TTIN
and TTOU (stop it, restart).  The conversions of characters are left out, and
`tcsetattr` succeeds.

Of the history variables, `typed` is the line of the last prompt; `gap` is how much of it
had been typed when a buffer grew with `p` and `pf_len` apart (-1 if none did); `sent` and
`got` count the signals sent to the process and delivered to the client; `merged` those that
were overtaken in `signo` by another one before they could be resent; `stale` how often an
INT that had been resent before was sent again; `oom` that an allocation failed.

### Digest

The compression function keeps the list of blocks it was given, so two states are
equal only if the same blocks went in; a digest's bytes are names of the state they
come from. With this `Appended`, `Finished`, `PaddedKey`, `I2pbkdf2` and `F` are the
code's buffer arithmetic: `Transformed` appends the blocks of a piece to that list,
and `ZerosAppended` is the loop of `I2Sha1Finish` that appends single zeros.
`message` and `key` record what the client passed, and `reckoned` the length that the
count of bits took the appends for (`Reckoned`): the high bits of an append of 2^29
bytes or more are added only when the low word overflows. `I2pbkdf2` is stepped through by
`F_First`, `F_Next` and `F_Returns`, which write to the same `buffer` and to the
derived key in place, as in the code.

Sizes are parameters: a word of `WordBits` bits, blocks and digests of a few bytes;
the eight length bytes are two and the four of INT(i) one.  The assumption says
what scaling must keep: a word counts whole blocks; a key is shorter than what a word counts
(2^29 bytes); one append is as long as a `uint32_t` says, less a block, where `j + len`
(`sha1.c:237`) would wrap; and a message behind a padded key has no more bits than two words
count (2^64).

### ConfFile

The file is read one character a step, `EndLine` to `EndFile` being the branches
of the loops of `I2GetConfLine` (for `conf`) and `parsefileline` (for key and pass-phrase
files).  Since the next character is chosen when it is read, a behaviour is a
file, and all files up to `MaxText` characters are read.  `VarOf`, `KeyOf` and `PFOf` are the three
parsers' reading of a line; one character stands for all white space.  `Copied` is what goes to `tofp`.  A client
calls with the row it got until it gets 0 or less.  After 0 it may call once more to copy
what is left, as `pfstore.c:290` and `aespasswd.c:300` do: if the 0 was the -0 of an error
in the first row, the file is then in the middle of that row.  At the end of the file the
second call would say 0 again and is not a step, nor is one after memory ran out (the
callers would pass the buffer that was freed).

`WriteLine` is a new file with one written record, which is then read.  Hex coding
is over as many digits as `HexDigits` has, two per byte.  `CharsAssumption` says that
the characters with a meaning are no others, that digits differ, and that an
identity is what the programs ask for: a word, which does not start with `#`.  The
writers do not refuse others; they could not be read back.  The n-th token of a line
is the one whose start is the n-th of the positions where one starts (`Nth`),
rather than the end of a loop, so that the proofs can speak of it.

`StrTo` is `I2StrToNum` and `I2StrToByte`: digits cut by `strtoull` (`Saturated`), product and
check by division, in words of `NumBits` bits.  Dividing by a multiplier that has wrapped to 0
kills the process or gives some quotient.  The assumption keeps what 1000, 1024 and 64 bits
have: six suffix steps fit in a word and the seventh does not, and is 0 for 1024.

### Library

The last four modules share no state: none reads or writes what another keeps,
and a client thread is inside one call at a time.  `Library` is their disjunction:
`inUse` says which part a behaviour is about, and a step of one part leaves the
others alone.  The states are the sum, not the product, of the parts', which is
why one run can check them.


## 4. Runs

| run | instance | shows |
|---|---|---|
| `hash_table` | 3 keys (two collide), 2 values, 2 buckets, 2 blocks of 2 bindings | all safety properties and the refinement of `KeyMap` |
| `hash_table_live` | 3 keys in one chain, blocks of one binding, 3 blocks | iterating and cleaning end |
| `store_sequential` | one process, 15 initial stores, any command, kills | one run at a time is atomic: refinement of `AtomicStore` |
| `store_concurrent` | two processes, 3 runs, kills, lock files left over | what holds when runs overlap, and that each ends |
| `store_leftover` | two runs in sequence, one failing | violation: a deleted record comes back |
| `store_prefix` | identity `a` a prefix of `b` | violation: another identity's record is replaced |
| `store_two_creators` | two runs with `-n` | violation: one replaces the other's store |
| `errlog` | 2 threads or 1 thread nesting 2 deep, 4 calls | location, serialisation, every call returns |
| `addr` | 2 addresses, 1 descriptor, 5 calls | ownership of descriptors and lists, agreement of the representations |
| `library` | the four parts, see the bounds | transfers, prompts, digests and files, with liveness |
| `errlog_none` | threads, level NONE | violation: the mutex is kept |
| `errlog_reset` | a handle without reset function | violation: an uninitialised pointer is called |

### Properties

`HashTable`

* `OnOneList`: every binding of the allocated blocks is on the free list or on one
  chain, in one place.
* `KeysOnce`: a linked binding is in its key's bucket, and no key is linked twice.
* `CountsExact`: `length` and `delete_nodes` are exact at every step of every
  loop (the sweep and the clean-up stop when they reach 0).
* `MarksOnlyWhileIterating`: no deletion mark outlives its iteration; a recycled
  binding is not born deleted.
* `LoopsEndWithWorkDone`: the sweep and the clean-up, which stop early, leave
  nothing behind.
* `NoMemoryLost`: what is allocated is what close and the error path free.
* `ListsStillInCallback`: no list moves while a callback runs.
* `ImplementsKeyMap`: refinement.  `LoopsEnd`: liveness.

`StoreEdit`

* `ImplementsAtomicStore`: refinement (one process, leftovers removed), with
  the two concessions of `AtomicStore` and no other.
* `NoSelfCopy`: the store a run reads never is the lock file it writes.
* `WritersHoldTheLock`: the content of a file changes only by what a process that has
  it open, and itself holds its lock, has to write to it.
* `StorePersists`: the name of the store never goes away.
* `EveryRunEnds`: liveness.  (A run that waited for the lock would end too; that it does
  not wait is the action `Lock`.)
* `DeletedIsGone`, `OthersKept`, `CreateFindsNoStore`: statements of the
  documentation that do not hold (section 6).

`ErrLog`

* `EventHasItsLocation`: an event carries the place of its own call.
* `ClientCodeSerialised`: log and retrieval functions of two threads never
  overlap.
* `CallsReturn`: liveness.
* `MutexHeldInCalls`, `ResetCallsAssigned`: do not hold (section 6).

`Addr`

* `OneCloser`: an open descriptor is closed by exactly one party, the client or one
  address, whatever is copied, handed over, dropped or fails half way.
* `ListIsItsOwn`: an address's pointer goes into its own list, and the list is freed
  the way it was made.
* `NamesAgree`: the node as text and the port's value are those of the chosen socket address.
* `ListFitsSettings`: the list is what the settings ask for, but for settings given a first
  value after the lookup and for copies of passive lists.
* `PeersCompare`: two socket addresses compare equal exactly if they are the same
  peer, mapped or not, and have the same length; only one that a client gave can have the longer
  one; the question for loopback is answered for what was given.
* `SocketFreezes`: with a descriptor, what it was connected with stays; a type or protocol
  that had no value may still get one (`addr.c:887`), though `addr.h:114` says the
  setters are only valid before.

`ReliableIO`

* `TransfersAreWhole`: a result of `n` means these `n` bytes, and a short read the
  end of the stream.
* `InterruptsAreAsked`: a call gives up on a signal only if the flag says so.
* `TransfersEnd`: liveness.

`ReadPassPhrase`

* `NothingLeftBehind`: at a shell and on return echo is on; on return handlers
  and terminal are as before.
* `AnswerIsTheLine`: the answer is the last line typed, not what a stopped prompt left; where
  the buffer grew with `p` and `pf_len` apart it begins with what was typed until then.
* `SignalsAreResent`: no signal is delivered more often than it was sent, but for the INT
  that stays in `signo`; and none is lost, unless another one overtook it there.
* `PromptEnds`: liveness.

`Digest`

* `DigestIsOfTheMessage`: SHA-1 (FIPS 180-1) and HMAC (RFC 2104) of all bytes of the
  message with the length that was reckoned, however it is cut, also when the low word
  has wrapped.  For appends of fewer than 2^29 bytes that is the message's length.
* `DerivedKeyIsStandard`: PBKDF2 (RFC 2898), byte by byte.

`ConfFile`

* `RecordsAreTheLines`: against a definition of rows, comments, continuations and records
  over the whole text: each call gives the next record, well-formed, and its row.  One that
  gives none has come to the end of the file, has met a malformed record, whose row
  it reports, or is stuck at a bad escape or behind counted blanks, which it reports
  as the row before: 0 in the first row.  A copy keeps every row.
* `WrittenIsRead`: a record that is written is read back.
* `NumbersAreExact`: every number that fits is accepted and exact; what else is accepted
  are digits cut by `strtoull` and products with the wrapped multiplier of suffix `z`.

### Bounds and why they are enough

* Hash table: two colliding keys and one that does not collide give chains of
  length 0 to 2, all positions of an unlinking (head, last, only); the third
  key needs the second block, so the free list runs empty inside a store.  In
  `hash_table_live` the chain has length 3: a middle.  `MaxAlist` lets failed
  allocations stretch the list of blocks ahead of its use, twice.  The proofs
  have no such bound.  Values are symmetric: the model only copies and compares
  them; symmetry is not used in the liveness run.
* Store: a run depends on the earlier ones only through the store and the lock
  file they left, so three runs in sequence (`store_sequential`, as pfstore) show
  every pair and one more.  The fifteen initial stores have every kind of line: none,
  no store, records, a duplicate, an empty pass-phrase, a line without separator; comments with
  blanks before them that are followed by a comment, a blank line or a record; and indented
  records, in the first row with an identity of one and of two characters, without hex
  field and without separator, and in the second row.
  With two processes (`store_concurrent`, as aespasswd), three runs let a third start while the first is still at
  work after the second's rename.  `MaxInode = MaxRuns + 1` is no restriction: a
  run creates at most one file.
* Error logging: four calls are two for each thread, or two nested pairs; two
  places tell events apart.

* Addresses: ownership moves between two parties, the client and an address, and a copy
  is a third; two addresses show a copy outliving its original and the reverse.  One
  descriptor is closed and opened again with the same number, which a stale owner would
  close.  Five calls reach, for instance, lookup, choice of an element, copy, a setter
  and free.  Both
  lengths, and settings that have no value yet, are among the inputs.  Addresses are symmetric.
* `library`, I/O: a stream of 4 bytes, blocks of 1 and 3, three calls, two
  faults: a block that spans two reads, one cut off by the end, and a signal before and one
  within a call.
* `library`, prompt: a line of up to two characters, a buffer that holds one of them or grows
  with each, two calls (what the first leaves to the second) and two signals (a stop, and
  another one during the restart).
* `library`, digests: blocks of 4 bytes (2 for the length), digests of 3, words of 6 bits, which
  wrap at 8 bytes; messages up to 13 bytes in pieces of 0, 1, 3, 6 and 12 give one to
  five blocks, every position in a block, and a wrapped count.  The 12 is more than a word
  counts: at the start of a message 8 of it are not counted, behind the padded key
  of an HMAC they are; keys shorter and
  longer than a block.  PRF of 2 bytes and keys of 0, 1, 4 and 5: no block, only an incomplete one,
  whole ones, both; one to three iterations.
* `library`, files: every text of up to 6 characters over newline, `#`, blank, a name
  character and a digit or a backslash, hence two records with a comment or blank line around
  them.  Numbers in 14 bits with 5 and 4 for 1000 and 1024, at the edges of overflow.

### Fairness and why the code justifies it

* `HashTable`: weak fairness of the loops' steps (they are a program running)
  and of the callback's return.
* `StoreEdit`: weak fairness of each process's steps: a process that is not
  killed runs on, and the prompt for a pass-phrase is answered or given up.
  Nothing is assumed about starting runs, killing, spilling or tidying up.
* `ErrLog`: weak fairness of each thread's steps.  It says that a thread runs
  on and that client functions return.  Weak fairness is enough for waiting on
  the mutex only since the calls are bounded; with unbounded calls a
  `pthread_mutex` promises no more than that *some* waiter gets it.

* `Library`: weak fairness of the loops' and the prompt's own steps (the process runs, and its
  user types: the prompt's `read` is part of them), of the peer (it sends or closes; without it a read may wait forever) and
  of `Continue` (a stopped process is continued).  Nothing is assumed about
  signals, faults and further calls; they are bounded, as a client that is
  signalled for ever need not make progress.

`CHECK_DEADLOCK FALSE` is set for `StoreEdit`, `ErrLog`, `Addr` and `Library`, where nothing is left
to do when the runs or calls are used up; that nobody is stuck before is what
`EveryRunEnds`, `CallsReturn`, `TransfersEnd` and `PromptEnds` say.  The hash table is checked for deadlock.


## 5. Proofs

All theorems hold for every value of the constants that satisfies the `ASSUME`s of
the modules: types of the constants, `NULL` and `None` different from the values, at
least one prime, positive bounds, and what the scaled sizes of `Digest` and
`ConfFile` keep of the code's (section 3). In `Addr` it is assumed that `NULL` is
neither a record nor a pointer, in `ReadPassPhrase` that no NUL byte is typed, and in
`ConfFile` what an identity and a digit are (`CharsAssumption`, section 3).

**`HashTable_proofs`**: the inductive invariant is

    TypeOK /\ Structure /\ MarksOnlyWhileIterating /\ NothingBehind /\ NoMemoryLost

where `Structure` is `OnOneList`, `KeysOnce` and `CountsExact`.  `NothingBehind` is
what the runs' properties do not say: the buckets and positions a sweep or a
clean-up has passed hold no marked binding, or no binding.  With exact counters
it gives `LoopsEndWithWorkDone`: stopping early at 0 leaves nothing behind.
The lemmas before it are about sequences without repetitions (removing one
position, taking the head) and the cardinalities that go with them.  Proved:
`TypeOK`, `OnOneList`, `KeysOnce`, `CountsExact`, `MarksOnlyWhileIterating`,
`NoMemoryLost`, `LoopsEndWithWorkDone`, `ListsStillInCallback`.

The refinement `ImplementsKeyMap` is proved with one more part, that every linked
binding has a value (`ValuesStored`).  The map shown is that of the `Visible`
bindings, linked and not marked.  `MapShown` states, for a step, what it does to
those: most steps of the loops leave them alone (`QuietMoves`, a stutter), a marked
binding that is unlinked was gone from the map before, and each other step is the
operation of `KeyMap` of the same name.

**`StoreEdit_proofs`**: the inductive invariant is

    TypeOK /\ LockFileIsFresh /\ NoSelfCopy /\ Opened /\ LockedToWrite

`LockFileIsFresh` (both names and every open store are files created so far, and
the two names differ) makes `NoSelfCopy` inductive: a lock file that is created
is new, hence nobody's store, and a lock file that is renamed is not any longer
what `OpenLock` opens.  `Opened` and `LockedToWrite` tie the place of a process
to its descriptors and locks: `WritersHoldTheLock` needs that only who holds the
lock has anything to write, and `StorePersists` only that `rename` moves a file.
Proved for any number of processes and runs:
`TypeOK`, `NoSelfCopy`, `WritersHoldTheLock`, `StorePersists`.

The refinement `ImplementsAtomicStore` is false in general: section 6 lists how.
It is proved under two conditions on the constants, those of the run
`store_sequential`: `Alone`, one process at a time and no lock file left behind by an
earlier run, and `Exact`, the key file's parser, or identities of which none is the
beginning of another.  The invariant is

    AloneInv == IInv /\ NamesAreKept /\ FilesAreKept /\ ResultIsKept

`NamesAreKept`: the lock file and the store are those the run opened.
`FilesAreKept`: what was written to the lock file is the beginning of what the run
has to write.  `ResultIsKept`: who gets to the rename has edited the store, and who
fails without a prompt had to.  The lemmas about `Edited` are about the two passes
(`First`, `Second`), by induction over the line the parser stops at: what they write is
`Promised`, or, on a store that begins with an indented record, `Damaged`; the rest is one
step of `AtomicStore`, or a stutter, for each action.

**`ErrLog_proofs`**: the inductive invariant is

    TypeOK /\ Nesting /\ Holding /\ Located

`Nesting`: only log functions have calls nested in them, and where there is a
mutex a nested call is still waiting for it.  `Holding`: with threads, who is
past `I2ErrLocation_` holds the mutex; without, there is one thread.  `Located`:
while arguments are evaluated the shared location is the caller's own.  The three
lemmas `PushStep`, `ReplaceStep` and `ReturnStep` say what a step may do to a
thread's calls, and each action is an instance of one of them.  Proved:
`TypeOK`, `EventHasItsLocation`, `ClientCodeSerialised`, for any number of
threads, handles and nested calls, also for clients that log at level NONE.

**`Addr_proofs`**: the inductive invariant is

    Records /\ Parties /\ calls \in 0..MaxCalls

`Records` says of each address that it is a whole record and *sound*: its pointer
goes into its own list (`PointerSound`), the elements of the list are made by
who frees it and have a host unless they are local (`ListSound`), and only an
address with a socket address has a node name that is no host (`NodeSound`:
without it `I2AddrAddrInfo` might look up "unixsock").  `Parties` is about
descriptors: what the client and the addresses close is open, no two of them
close the same, and what is open somebody closes.  Soundness speaks of one record,
so each call needs only the facts of its own record; `KeepsOwner` covers the calls
that leave the descriptor alone and `MakesIdle` those that make an address that
closes nothing.  What is left is where a descriptor changes hands: `ByAnySockFD`,
`I2AddrSetFD`, `I2AddrFree` and the client's own open and close.  Proved: `TypeOK`,
`ListIsItsOwn`, `OneCloser`, for any number of addresses, descriptors and hosts.

What an address says of itself is a second invariant, `Views`: each is `Faithful`,
that is, its names are those of the element it points to (`NamesSound`; a
local socket has no port, `BareUnix`), its list is of the settings it has
(`SettingsSound`), and a list that was made from a socket address holds no mapped one
and is the only kind that may hold a longer length (`GivenSound`).  For `SocketFreezes` every call is shown to make of each
address one that `Follows` it: faithful again, and with the settings unchanged if it
had a socket (`Evolves`).  Proved: `NamesAgree`, `ListFitsSettings`, `PeersCompare`,
`SocketFreezes`.

**`ReliableIO_proofs`**: the inductive invariant is

    TransferTypes /\ ReadSoFar /\ WrittenSoFar /\ CopiedFile

`ReadSoFar`: the buffer holds as many bytes as are no longer left, and they are the
last ones taken from the stream; when a call succeeded, what it lacks will never
come. `WrittenSoFar`: the sink is the part of the buffer before what is left. These
relate `nleft` to the data in the middle of a loop, which `TransfersAreWhole` only
does at its end. Proved: `TransfersAreWhole`, and, as each step's own consequence,
`InterruptsAreAsked`, and `IOTypeOK`, for any sizes and any number of short
transfers, signals and errors.

**`ReadPassPhrase_proofs`** has several invariants, each over the part of the state
it needs.  `ControlTypes /\ Restored`: which signals are caught at every place of the
function, in the loops that catch and release them one by one too, and where
echo may be off; it gives `NothingLeftBehind`.  `SignalTypes` with `NoneInvented` and
`NoneLost`, which balance the signals sent and delivered with what waits in `signo`: what the
client may yet get of it (`Waits`, `Extra`), and what this call has still to resend (`Noted`);
it gives `SignalsAreResent`.  `LineTypes` with `Room`, `InBuffer`, `Filled`, `Together`,
`Ended` and `Answered`: the buffer has room for the byte that is stored next, also after a
restart, when `p` is not past `pf_len` nor `pf_len` past the buffer; as many bytes are
stored as were read or as fit, they are those of the line (up to `gap`, where the
buffer grew with `p` apart: from then on `p` and `pf_len` stay together), and
the NUL comes behind them; it gives `AnswerIsTheLine`.  `ReturnTypes` adds what is returned, for `PromptTypeOK`.  Proved for any line, any sizes of the
buffers, and any number of calls, signals and stops.

**`Digest_proofs`**, for `I2pbkdf2`: the inductive invariant is

    KdfInv == KdfTypes /\ InRange /\ KeySoFar /\ BlockSoFar

and follows the two loops: the blocks of the key before `i` are those of RFC 2898
(`KeySoFar`), and of block `i` as many U's were xored together as `j` says, the last of
which is at the start of the buffer (`BlockSoFar`).  It gives `DerivedKeyIsStandard`.  The
standard's definition takes a chain of U's that starts with the seed; that there is
one of any length is shown by taking a shortest length without (well-founded
induction over numbers).  A byte is the set of what was xored into it, which
is faithful as long as no byte comes twice: the U's of a block are shown to
be different.

For SHA-1 and HMAC it is

    ContextInv == Lasting /\ Stands /\ DigestIsOfTheMessage

`Stands` says that the context `Represents` the message, behind the inner key where
there is one: the whole blocks were transformed, in order, the rest is at the start
of the buffer, and the two words of the count hold `reckoned` in bits, which has the same
rest as the length and may be less. Each operation on a context has its lemma: an append makes of a
context of `m` one of `m` and the piece, whatever the cut (`AppendFollows`), `CountedIs` is the
carry between the words, `ReckonedIs` what is left out, `ZerosFollow` and
`ZerosCounted` the padding, `FinishedIs` the digest of the standard for that count.
Proved: `DigestIsOfTheMessage`; from it, for appends of fewer than 2^29 bytes (`ShortAppends`), the
theorem `ShortAppendsAreStandard`: the reckoned length is then the message's (`AllCounted`)
and the digest the standard's, length and all; and, with bounds for the bytes (`KdfBounds`), `DigestTypeOK`.

**`Library_proofs`**: for `I2StrToNum` and `I2StrToByte`, that a product which was cut
to the word does not give the number back when it is divided (`DividesBack`), so that
the check finds every overflow for a multiplier that fits: `NumbersAreExact`.  `ConfTypes` is inductive for the
parsers: every step makes of the call another one (`Became`), with a line that has no
newline in it and does not start with a space.  `PartsAlone`: the library's
behaviours are, for each part, those of a client that uses only that part, so that
what was proved of `ReliableIO`, `ReadPassPhrase` and `Digest` holds of `Library`;
`LibTyped` is `LibTypeOK` from it.

What a parser reads, `RecordsAreTheLines`, is proved for texts of any length.  The
rows of a text are defined by what stands between its newlines, those of a step by the
character that is read: `GrownBy` relates the rows before and after it, an ended row
and an empty one for a newline, a longer last row otherwise.  The inductive invariant is

    RecordInv == LinesAre(conf, Rows(text), ended) /\ NothingAhead

(with `ConfTypes`), and `LinesAre` has six parts, for a call that reads or has read:

* `RowsCounted`: the row number is that of the last row that ended, and a file that ended
  has an end of its last row, too;
* `Current`: what the place in the code says of the last row: nothing but blanks so
  far, a comment, a line, an escape;
* `Gathered`: while there is no line yet, every row since the call was blank or a comment
  (`Skipped`); after that the line is what the first row that was neither makes,
  together with the rows that continue it (`Started`);
* `Blanked`: the blanks that were counted are those at the start of the last row, or
  are left over from a comment that was indented;
* `CopiedIs`: the copy is that of the rows which ended, then what was seen of the
  last one; if no comment is indented it is so to the character, else
  up to blanks (`Same`, `Tidy`);
* `AnswerIs`: what a call that returns no record has seen.

Why a call gave no record is a second invariant beside it, `ReasonInv`.  `Counts` relates the
count of leading blanks, while no line is there, to the rows (`Spaced`: its own blanks, or
those of a comment before it with only comments between).  `Reasons` says of a call that
returned: a record is well-formed; otherwise the file ended, or the call `GotStuck` in its last
row, or the record is `Misformed`, or, in a copy, a row of the file is `NotCopied`.

`RecordsAreTheLines` is `Gathered`, `CopiedIs` and `Reasons` at the end of a call, but says nothing in
the middle of one, nor of the rows that earlier calls read, so it is not inductive.  TLC
checked both invariants on the run `library` before they were proved.  Each action has a lemma
for each of them (`EndLineKeeps` to `CallParserKeeps`, `EndLineReasons` and so on).

What a row is made of is stated with cardinalities: the n-th character that is no
blank is the one with n such positions up to it (`Nth`).  That there is one
(`NthIs`), that a text joined to another one has the ink of both (`InkedConcat`) and
that flattening one sequence more appends it (`FlattenStep`, from the function that
`FlattenSeq` chooses) hold for any length; each is shown by taking a shortest length
without (`WFMin`), as the library's induction theorems have an operator for a
parameter and cannot be used.

What is written is read back, `WritingIsRead`: the invariant `WrittenInv` is that a first
call on a file that was written has gathered the beginning of its line, and has the rest ahead
of it (`AtPlace`); at the newline the line is whole.  Its tokens are the name and the
digits (`TokensOfWritten`), each digit has one value (`DigitsOf`) and two of them make
the byte (`DecodesBack`).

Model-checked only are the liveness properties `LoopsEnd`, `EveryRunEnds`, `CallsReturn`,
`TransfersEnd` and `PromptEnds`: liveness under fairness is out of the prover's reach.


## 6. Where the code disagrees with its documentation

With a run that shows it:

* `store_leftover`, `pfstore/pfstore.c:207`: the lock file is not truncated.  A
  failed run that had written more lines than the next one leaves their tail in
  the new store, and with it a record that was just deleted.
* `store_prefix`, `conf.c:656`: `I2ParsePFFile` compares identities over the
  shorter one's length, so storing `al` replaces the record of `alice`.
* `store_two_creators`, `pfstore/pfstore.c:158`: that there is no store is
  checked before the lock is taken and not after.
* `errlog_none`, `ErrLog.c:685`: level `I2LOG_NONE` returns with the mutex held.
* `errlog_reset`, `ErrLog.c:395`: `reset_func` is not initialised.

Seen while modelling, without a run of its own:

* The store is opened before the lock is taken, so of two overlapping runs that
  both succeed the later one may undo the earlier one's edit; the same window
  lets a run edit the live store in place after another's rename.
* `rename` comes before `fclose`: a kill, or a full disk, in between truncates
  the store (`AtomicStore`'s `Kill`); both results are ignored.
* An empty pass-phrase is stored as a record the next run rejects.
* An indented record in the first row is not refused but damaged, and the run exits with 0 (`AtomicStore`'s
  `Misread`, section 3).
* `pfstore.man:61` allows comment lines whose first character is white space; a record
  after one is refused (`conf.c:318`), and the store can then not be edited
  (`AtomicStore`'s `Unreadable`).
* Arguments of a logging macro that log themselves change the location of the
  outer event (plain build) or block (threads).
* `ErrLog.c:525` says of nested calls that only the outer one's code is
  available; the inner call's code is the one stored last.
* Resetting one syslog handle closes the connection of all of them.

In `addr.c` and `saddr.c`:

* `addr.h:90` says that `I2AddrBySockFD` "does not represent the actual connected
  socket"; it keeps the descriptor, and closes it when asked to.
* `I2SockAddrIsLoopback` calls itself for a mapped address with the mapped address
  again instead of the IPv4 one it made, and returns -1.  `PeersCompare` asks for the
  right answer only for addresses built from a socket address, none of which is mapped; one
  looked up may be.
* `I2SockAddrEqual` compares lengths before it compares addresses (`saddr.c:184`), so the same peer
  is not equal to itself when one of the two was given to `I2AddrBySAddr` with the size of
  a larger structure (`addr.c:511` refuses only a shorter one).  `PeersCompare` states it.
* `I2AddrCopy` does not copy the socket type, protocol and `passive`: the copy of a
  wildcard address has a passive list and is not passive (`ListFitsSettings` states it).
* A socket type or protocol set for the first time does not drop a list that was
  looked up without it, also with a socket (`addr.c:887`, `addr.c:967`): `ListFitsSettings` and `SocketFreezes`
  except it, and nothing else.
* After `I2AddrSetPort` the length beside the pointer and the one in the list may differ.
* A port set after a lookup, before a socket address is chosen, is not in the cached list;
  `I2AddrSetSAddr` then forgets it.

In `io.c` and `random.c`:

* When `I2Readni` gives up on a signal, the bytes it had read are lost.
* `write` returning 0 is taken for an error or for an interruption, by a stale `errno`.
* `I2CopyFile` cannot copy an empty file (`mmap` of length 0), and leaks the first mapping
  when the second fails; the target is already truncated then.
* `I2RandomSourceInit` leaks the source when the device cannot be opened.

In `readpassphrase.c`:

* A `realloc` that fails returns with echo off, the handlers installed and the terminal open, and
  leaves the grown size beside a NULL pointer (the properties of the prompt end there: `oom`).
* `signo` is not reset when the client survives the resent INT: the next call sends it
  again (`SignalsAreResent` counts them: `stale`).
* `I2ReadPassPhraseAlloc` does not reset `pf_len` when it starts over, so after a stop
  a buffer that grows continues behind the old characters, and what is between is
  whatever the buffer held (`AnswerIsTheLine`, with `gap`, says what is sure).
* `signo` holds one signal: another one that is caught before it is resent replaces it
  (`merged`).
* A signal just before `read` is noticed only after the line.

In `sha1.c`, `hmac-sha1.c`, `conf.c`:

* One append of 2^29 bytes or more loses the high bits of its length unless the low word
  wraps (`sha1.c:233`): the digest is then the one for the length `Reckoned` gives.
* `I2HMACSha1Alloc` leaks its record when the SHA-1 context cannot be allocated.
* An error in the first row is returned as -0, which means end of file; after an indented
  comment the next record is refused, and in a copy the next comment is indented further.
  `RecordsAreTheLines` says that no other well-formed record of a key or pass-phrase file is
  refused and that there is no other 0 before the end of a file.
* `I2StrToByte` divides by 0 with suffix `z`; `I2StrToNum` accepts some wrapped numbers with it;
  digits that overflow are cut to the largest number, and accepted without a suffix
  (`NumbersAreExact` says that nothing else is accepted that does not fit).


## 7. What is not modelled

* MD5 is third-party code; `mach_dep.c` has no state; tests, `man2html` and the
  packaging are not part of the system.
* The formatting of messages, printing of tables, option parsing and file
  permissions are pure I/O or layout.
* The compression function of SHA-1 stays opaque: a bit-level function of
  512 bits is beyond TLC, and the tests check it with published vectors.
* Of error logging: message formatting, the table of error codes of `I2ErrList`
  (appended to and searched, no other state), and the syslog and immediate
  handlers, which parse option strings and call the C library.
* Of the threads wrapper: everything but the mutex; it has no caller.
* Name resolution, the terminal driver and the file system below the calls the
  library makes.

## 8. Running

    tlc -workers 2 -config HashTable.cfg MCHashTable
    tlapm HashTable_proofs.tla

`PROJECT.json` lists the runs, the lines each definition is translated from, the
hazards, and for each property a mutated definition under which it fails.  The
mutants stand in the modules before the definitions they mutate, named after
them.
