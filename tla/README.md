# DNS_Relayer in TLA+

TLA+ models of the DNS relay server, the plain relayer and the lookup client in
this repository, model-checked with TLC,
and theorems about them proved with TLAPS. Paths below are relative to the
repository (`src/` in `PROJECT.json`).

## 1. The system

A UDP server. The main thread of `server.c` receives requests and submits them
to a thread pool; each worker runs `handler`, which answers from a cache, from a
local text file, or from an upstream DNS server.

| Part | State | Operations | Used by |
|---|---|---|---|
| safe queue, `pool/queue.c` | linked list, `q_lock`, `q_ready`, `destroyed`, `usedNum`, `numMut`, `noUsed` | `SafeEnque`, `SafeDeque`, `SafeDestroy` | pool |
| thread pool, `pool/thread_pool.c` | queue, threads | `CreateThreadPool`, `AddTask`, `worker`, `ClosePool` | server |
| hash table, `cache/hash.c` | slots, `len`, `num` | `insert`, `search`, `delete`, `rescale` | cache, file reader |
| linked list, `cache/linkList.c` | ring with a sentinel | put in head, remove, last | cache |
| cache, `cache/cache.c` | table, list, `len`, rwlock, save times | `CachePut`, `CacheGet`, `DestroyCache` | server (shared by all workers) |
| local file, `tool/file_reader.c` | one `FILE *`, index of line offsets | `file_reader_get_a_record` | server (shared by all workers) |
| server, `server.c` | requests in progress, sockets, heap | `main`, `handler` | |
| message codec, `message/message.c` | a table of names during `encode` | `encode`, `decode`, setters | server, relayer, client |
| plain relayer, `relayer.c` | requests in progress, sockets | loop of `main`, `handler` | |
| lookup client, `cli.c` | one question, one answer | ask, wait, show | relayer or any server |
| `tool/arg.c` | the command line | `getStr`, `getInt`, `matchArg` | server |
| `tool/wrap.c` | | socket calls that end the process on failure | server, relayer, client |
| `tool/clog.c`, tests | | | |

What is hard here: the pool's queue tests an unprotected flag and signals
outside its lock; closing a pool races everything else; `CacheGet` changes locks
half way; the table rescales in both directions; `fseek`/`fscanf` on a shared
file are two calls; an upstream answer races a timeout; the clock is read
several times per request; flags are kept in reversed order of bits, and names
are compressed into pointers by one function and read back by another with other
ideas of where a name ends; error paths leave sockets and memory behind. `PROJECT.json` lists these under `hazards`, at their
lines, with the properties that are about them.

What makes the parts correct: every task is run once and in order, or given up
knowingly; a name finds what was last stored under it; list, table and heap of
the cache agree, and the entry given up is the one least recently used; every
request gets one reply, whose records are the upstream server's or the file's,
under a header its client can read; a message that is decoded and encoded again
says what it said before.

## 2. Modules

| Module | Models | Role |
|---|---|---|
| `TaskQueue` | what the pool promises | abstract FIFO queue of tasks with workers |
| `ThreadPool` | `queue.c`, `thread_pool.c` | one action per stretch of code other threads see as one step; implements `TaskQueue` |
| `ThreadPoolProofs` | | theorems about `ThreadPool` |
| `HashOps` | `hash.c` | the table as pure operators on `[nodes, len, num]` |
| `HashTab` | a caller of `hash.c` | state machine over `HashOps`, with the heap |
| `HashOpsProofs` | | what the operators of `HashOps` do to a table with any kind of data |
| `HashTabProofs` | | theorems about `HashTab` |
| `LruCache` | what the cache promises | abstract least-recently-used cache with expiry |
| `Cache` | `cache.c`, `linkList.c` | composes `HashOps` with the list; implements `LruCache` |
| `CacheProofs` | | theorems about `Cache`, the refinement of `LruCache` among them |
| `Flags` | flag field, `message.c` | setters, bit reversal, the two bytes on the wire |
| `FlagsProofs` | | theorems about `Flags` |
| `Codec` | `message.c` | `encode` and `decode` as pure operators on messages and buffers |
| `Relayer` | `relayer.c`, `cli.c` | composes clients, relayer and upstream server over `Codec` |
| `RelayerProofs` | | theorems about `Relayer` |
| `Server` | `server.c`, `file_reader.c`, `arg.c` | composes start-up, main, workers, cache, file and upstream server over `Codec`, with the pool as the queue of `TaskQueue` |
| `ServerProofs` | | theorems about `Server` |
| `Lemmas` | | numbers, finite sets and queues, for all proofs |
| `MC*` | | instances for TLC |

Operators named after a slip (`DeqPopLinked`, `RescaleOldLen`, ...), each marked
"Slip:", are wrong variants of the definition that follows them. They are not
part of any specification; substituted for it they show that a property notices
such a mistake.

### ThreadPool

`pc` says where each thread is; `enq*` is inside `SafeEnque`, `deq*` inside
`SafeDeque`, `des*` inside `SafeDestroy`. A critical section is one action if it
reads `destroyed` at most once; `SafeDeque` reads it repeatedly under `q_lock`
while `SafeDestroy` writes it without a lock, so there the lock is a variable
(`qLock`) held over several actions. Condition variables are the program
counters `deqBlocked` and `desBlocked`; wakeups may be spurious. A destroyed
mutex no longer excludes anybody (glibc answers `EINVAL`, which `queue.c`
ignores). A client still inside `SafeEnque` when the queue is freed goes to
`undefined`. `dropped` collects tasks that will never run: refused, or in the
queue when it was freed. `AddTask` is not begun after the pool has been freed.

### HashOps, HashTab

A node is `[name, data, slot]`; the order in a chain never matters since a chain
has one node per name. Operators return sets of results, because a name of 50
characters or more is stored without a terminator and may be read back as
several names (`Stored`; `ShortNames` says that this does not happen). `len` and
`num` wrap at `UintMod` as `unsigned int` does. A table with `len = 0` crashes
its next caller.

### Cache, LruCache

`CachePut` is one critical section. `CacheGet` is two: `CacheGet` finds the unit
and moves it to the head under the write lock, `CacheGetCopy` copies from the
pointer under the read lock. Addresses are reused after they have been freed.
`CallCrashes` is every way in which a call does not return. Under the refinement
mapping the list read through `unit` is the sequence of entries of `LruCache`.

### Flags, Codec

A flag field is the set of its bits; `encodeFlag` and `decodeFlag` are the four
lines of `encodeHeader` and `decode` that reverse the bytes. `setOpcode` does not
reverse its argument as `setRCODE` does, so only `QUERY` (0) means on the wire
what it says; no caller uses another one.

A name is the sequence of its labels. A buffer maps offsets to items (a label
with its count, a pointer, a zero byte, a field), and offsets are computed as the
code does, from the lengths of labels and data. So compression, the `data_length`
of a name, and where the next record begins are what the code makes them, while
the bytes inside an item stay abstract. Reading at an offset where nothing of
the expected kind begins gives `Unreadable`. The hash table of `encode` is a
function from names to offsets; a name longer than `HASH_KEY_MAX_LEN` is not found
in it again, and one of just that length only if the byte behind its copy happens
to be 0 (`InTable`; the names for which it is are the constant `ZeroAfter`). Other programs
encode like `encode` except for the root, which has one byte in RFC 1035
(`foreignEncode`, external). Names are decoded from what was encoded by such a
program: loops of pointers and counts beyond `MAX_SIZE` are left out, and so are
records with empty data, which a real server sends in EDNS (`OPT` has some data
here; the copying is the same). `EmptyLabelMisplaced` says of a message that it does
not survive `decode(encode(...))`: a name ends with the empty label and is not the
root as data, whose `data_length` makes up for the second byte.

### Relayer

The clients are `cli.c` (`Cli`) or other programs. `Ask` builds and sends a message,
`Receive` is one round of the relayer's main loop, `SendQuery` is `handler` up to
`recvfrom`, `RecvAnswer` and `RecvTimeout` are its two ends. `stackHost` is what the
uninitialised `cliAddr.sin_addr` holds; `recvfrom` never overwrites it, since it is
given 4 bytes (`relayer.c:102`). The pool is a FIFO queue, as `TaskQueue` promises.
A request is lost on its way, an answer is lost on the way back (`RecvTimeout`), a
client gives up at any time. `cli.c:52` sends to port 53 while `relayer.c:26` binds
8080: that requests of `Cli` arrive at the relayer presupposes that somebody
forwards the port; the composition is the model's. `ShowMsg` is undefined for a type without a name, so
the client may crash (`message.c:378`).

### Server

`Start` and `StartFails` are `main` up to its loop: `NewArg` makes a map of the words,
the size of pool and cache follow from it, and a missing argument, a file that
cannot be opened, an address that cannot be read, `--help` or a port in use end
the process. Afterwards `handler` is a walk over `get`, `getCname`, `getAlias`, `file`, `scan`, `relay`,
`wait`, `put`, `store`, `reply`: one action for each call where another thread
or the clock matters. `addRR2Item` gives the item that the calls of the function
leave behind for a list of records, including that name and `ddl` are the last
record's. The local file is a sequence of words with one position for all
workers; reading a domain where an address is expected, or past the end, leaves
`Garbage`, and a domain that does not fit `ip[17]` overruns it (`Overrun`; the system is
`undefined` from there on). Sockets are counted; a `Socket` call beyond `FdLimit` exits the
process (`perr_exit`). `heap` has the blocks a request has allocated and not freed. TTLs in
replies are taken modulo `UintMod`. `sent` is what a client reads: the bytes of the
flags, and the message as decoded from what was encoded; two fields of it are
history, the time (`at`) and whether it is the upstream server's own buffer
(`passed`). The queue, the requests in progress and those done change by the actions
of `TaskQueue`, by definition: that the pool behaves so is what `ThreadPool` shows,
and nothing about `Server` claims it again. `ShowRequest` is the end
of the process when `showRequest` reads behind its array (a type of 50 or more;
it also may go well, then `Take` goes on). The arrival
of an upstream answer and the timeout are two actions enabled together; a late
answer goes to a socket nobody reads, so it needs no action.

Here the cache is the map of its interface: a get is one step, and eviction
takes any other entry. What `Cache` shows to be wrong inside it (runs
`cache_race`, `hash_shrink`) is therefore not repeated in `Server`, and the passing
server runs hold for a cache without these faults. Names are shorter than
`HASH_KEY_MAX_LEN` and end without an empty label, so requests survive `decode`
(`QueryIntact` in `Relayer` says which do), and the upstream server's response code
is `NO_ERR`; its answer is passed on without being looked at.

## 3. Runs

Passing runs:

| Run | Instance | Shows |
|---|---|---|
| `pool` | 2 workers, 2 clients of which one may close, 3 tasks, fair | types, `TasksAccounted`, `PopFindsTask`, `DestroyQuiesces`, `WorkConserving` (no wakeup is lost), refinement of `TaskQueue`, `EveryTaskRuns`, `ClosePoolEnds` |
| `hash_table` | 4 colliding names, `InitSize` 2, growing and shrinking | lookups, `num`, load and heap |
| `cache_shared` | 2 threads, 3 keys, 2 entries, 3 addresses | list, units and table agree, entries hold the latest data; refinement of `LruCache` |
| `server_relay` | 2 workers, 3 requests of 4 kinds, cache of 2 | types (the cache within its size, entries under their own keys), `AnswersBacked`, `AnswersAsked`, `TtlLeft`, `HeapAccounted` |
| `server_local` | 6 command lines, 1 worker, 3 requests, a file with a blocked and a repeated name, every fault, fair | `RepliedOnce`, `SocketsAccounted`, `LocalFileObeyed`, `ReplyHeader`, `HeapAccounted` on the error paths, `EveryRequestAnswered` |
| `relayer` | 3 clients on a host, 6 questions, 2 workers, 2 sockets, every fault, fair | `QueryIntact`, `ReadAsSaid`, `OwnAnswer`, `LeaksAccounted`, `EveryRequestHandled` |

Violation runs state what a comment or a document says and TLC refutes:

| Run | Statement | Where the code differs |
|---|---|---|
| `pool_hang` | `ClosePool` returns | `queue.c:103` sets the flag and broadcasts without the lock |
| `hash_shrink` | `search` returns | `hash.c:129` shrinks to 0 slots |
| `cache_race` | safe for concurrent use | `cache.c:152` uses a pointer across the unlock |
| `server_file_race` | the file gives the domain's address | `file_reader.c:46`, seek and read are two calls |
| `server_chain` | an item's name owns its records | `server.c:108` keeps the last name of a CNAME chain |
| `relayer_reply` | the user is sent the reply | `relayer.c:102` gives `recvfrom` the wrong length |

`LocalFileObeyed` and `AnswersBacked` appear on both sides: they hold with one
worker and without CNAME chains, and fail beyond that; the theorems `FileObeyed` and
`NothingInvented` have these conditions as hypotheses. `SocketsAccounted` holds,
and says that `server.c:284` and `:298` return without `close`: the second failed
relay of the `server_local` instance leaves no descriptor for a third.
`LeaksAccounted` says the same of `relayer.c:70`, with the message. `DestroyQuiesces`
is what `usedNum` achieves, which is less than what it is there for (`queue.c:19`): a
thread that has tested the flag and not yet counted itself goes on with a destroyed
queue, but neither sleeps in it nor touches the list.

Some passing properties state exactly how far the code is right. `QueryIntact`:
the upstream server is asked what the client asked if and only if no name ends with
the empty label, the root as the data of a record excepted, whose `data_length` makes
up for it; `message.c:190` writes a count and an end for it, two bytes,
where `decodeName` takes one. So the relayer spoils a question for the root, a
name typed with a final dot, and every request of `dig`, whose EDNS record is
named by the root. The server is not concerned: it forwards the buffer and drops
the additional section from its replies. `TtlLeft` says which TTL a client is told in a
record that is not the upstream server's own message: there is one answer of the
upstream server, already passed on, that had this type and value, and the TTL is
its time plus the TTL of the **last** record of that type in it, minus the time of
the reply, modulo 2^32; or the same with the TTL of the file. Two things follow that a
reader may not expect: a record may be told to live longer than the upstream
server gave it, since `server.c:109` gives all of a type the deadline of the last (the
instance has an answer with TTLs 0 and 1), and a deadline that passes between
`CacheGet` and `Item2Msg` wraps around to a huge TTL (`server.c:84`). That expired entries
are not found at all is what `LruSpec` says of `Cache`. `ClosePoolEnds`: `ClosePool` returns
unless a worker has missed the broadcast for good, or a `SafeEnque` that was refused
at `queue.c:48` has left `usedNum` one too high; there is no third way.
`HeapAccounted`: nothing leaks but the CNAME item of `server.c:237` and the data of
`server.c:256`. `EveryRequestAnswered`: unless poolsize is negative.

Met while modelling and visible in the modules, without a run of its own:
`SafeEnque` and `SafeDeque` may use a destroyed queue (`ThreadPool!EnqIn`, `DeqIn`, see
above); `delete` of an absent name changes `num` (`HashOps!Delete`, and `NumExact` fails for
`AbsentDeletes` that is not empty); a key too long for the
table is never found again, so the cache puts it twice (`HashOps!Stored`); an
answer with more than `MAX_NUM` records of a type overruns an item
(`Server!RecvAnswer`); a long domain of the file read for an address overruns `ip`
(`Server!Overrun`); `showMsg` and `showRequest` read array elements nobody has
set (`Relayer!ShowMsg`, `Server!ShowRequest`).

**Bounds.** Two workers and one or two clients are what the races of the queue
need (a waiter, a taker, a producer, a closer); more tasks than workers make
tasks queue up. Three keys for a cache of two entries make eviction and reuse of
an address happen, TTLs 0 and 1 with a clock of two values make expiry happen.
The table of the runs starts with 2 slots instead of 1024, so both directions of rescale are
reached. Three requests for two workers leave one queued; a cache of two entries
with up to five keys evicts. `UintMod` is small but larger than every honest
value, so that a wrapped number is told apart. The questions and answers of
`MCRelayer` have each shape of name in each place: a chain of aliases with glue
(suffixes shared between questions, names and data, a name first seen as data),
names longer than the table keeps (`HashKeyMaxLen` is 8 there) and of just that length,
with and without a 0 behind them, the root as
question, as name and as data, a final dot, an EDNS record, no answer. Two
sockets for three requests make them run out after two timeouts. The violation
runs are small instances in which the fault they are about is the only one. Every bound is a CONSTANT with
"bound" in its comment.

**Deadlock** is not checked where the system may stop: a closed pool, a destroyed
table or cache, a process that has exited, or a bounded supply of tasks, puts or
requests that has been used up.

**Fairness.** `ThreadPool!Fairness`: a thread inside the code keeps running (weak
fairness of its step) and does not lose the race for `q_lock` forever (strong
fairness of taking it, which a scheduler that is not adversarial gives). Nobody
has to call `AddTask` or `ClosePool`, and spurious wakeups are not promised.
`Server!FairSpec`: weak fairness of each worker's step; a waiting handler always
has the timeout of `SO_RCVTIMEO`, and that a queued request is taken up is what
`EveryTaskRuns` shows of the pool. `Relayer!Spec` is the same with the timeout of
one second; clients, the network and the main loop owe nothing.
`EveryRequestAnswered` ends where the process
does: with the leak that `SocketsAccounted` describes no number of descriptors
lasts forever.

## 4. Proofs

Every theorem is for all values of the constants. The assumptions are the named
`ASSUME`s of the modules, which TLC evaluates on the instances of the runs; what a
theorem needs beyond them is in its statement and named below.

**Pool.** `ThreadPoolProofs`, for any finite sets of workers and clients and any
number of tasks, from `ThreadAssumption` and `TaskAssumption` only:

- `TypeCorrect`, `PopSafe`, `NoTaskLost`: `Spec => []TypeOK`, `[]PopFindsTask`,
  `[]TasksAccounted`. The inductive invariant is `Inv == Control /\
  TasksAccounted`. `TypeOK` needs to know that whoever leaves the queue was
  counted (`Counted`: `usedNum` is at least the number of threads between `++`
  and `--`); `PopFindsTask` needs that the popper has held `q_lock` since its
  test (`LockHeld`) and that a destroyed mutex implies `destroyed`
  (`DestroyedFirst`); `TasksAccounted` needs to know which program counters
  have a task in hand (`InHand`) and which threads are where (`Kinds`).
- `DestroySafe`: `[]DestroyQuiesces`, from `Inv` and `Counted`: when `usedNum = 0`
  was seen nobody was inside, and whoever comes later has missed the flag.
- `NoLostWakeup`: `[]WorkConserving`. By itself it is not inductive: a signal may
  wake a sleeper while a second task is put. The step is proved from `Inv` and from
  `WaitsForNone`: a sleeper with a task in the queue means that somebody else is
  awake or about to signal.
- `PoolRefinesTaskQueue`: `Spec => TaskQueueSpec`, step by step from `Inv`.

**Table.** `HashOpsProofs` has the operators: `Stores(tab, con, ...)` says that a
table holds exactly the map `con`, every node off the slot of its name, one node per
name and datum; `insert`, `delete`, `rescale` keep it (`InsertHolds`, `DeleteHolds`,
`RescaleKeeps`), and `search` reads `con` (`SearchIsContent`). `HashTabProofs`, for
every hash function, initial size and set of names:

- `SearchCorrect`, `HeapCorrect`: for short names (`ShortNames`) search finds the
  last insert and the heap is what the nodes point to.
- `NumCorrect`, `LoadCorrect`: `num` is exact and the load bounded, if moreover
  only present names are deleted; both are needed together, since wrap-around of
  `num` is excluded by the bound on the number of names.
- `TypeCorrect`: for names of any length, where `Stores` fails; what remains is
  that every node hangs off a slot the table has (`SlotsFit`).

**Cache.** `CacheProofs`, in two layers.

- For keys of any length, also those that `strncpy` cuts: `TypeCorrect` and
  `ListOwns` (`[]TypeOK`, `[]ListOwnsUnits`). The inductive invariant is `Shape`:
  the table may lead anywhere, but whatever it finds that is allocated is in the
  list, and the list owns the units.
- For keys that fit a node (`KeysFit`): `IndexAgrees`, `DataLatest`
  (`[]IndexMatchesList`, `[]EntriesLatest`), from `CacheInv`, which has the content of
  the table (`Indexes`) besides: the keys of listed units differ, and each finds
  its own. `c->len` and `num` agree because there are at most as many listed units as
  names, so the unsigned counter does not wrap (`FewListed`).
- `IsLru`: `Spec => LruSpec`. The entries of `LruCache` are the units read in the order
  of the list (`Entries`); taking a node out of the list and putting one at the head
  is the same on both sides (`EntriesRemove`, `EntriesPut`), and the entry `LruCache`
  means by a key is the one `search` finds (`LruWithout`).

**Flags.** `FlagsProofs`, for every value of the 16-bit field, bit by bit (`Bytes`: bit
`i` of the field is bit `7 - i` of its byte):

- `FlagRoundTrip`: `decodeFlag(encodeFlag(f)) = f`;
- `ResponseHeader`, `ReplyFlags`: what a peer reads in a reply made with `setResp`,
  `setFlag(RA)` and a response code;
- `RcodeRead`: `setRCODE` puts the code where a peer looks for it and touches
  nothing else; a code on top of another is ORed, so it must be set once.

**Server.** `ServerProofs`, for any workers, requests, answers and file, from
`ServerAssumption` (that a query carries the response code 0, and what kind of data
answers and file consist of) and `ArgAssumption`. The inductive invariant is `Inv /\ SocketsAccounted`, where
`Inv` says what the variables of a handler hold at each point (`InHandler`), that a
request is in one place (`OnePlace`), and that it has its one reply exactly when its
handler is past the point of sending (`OneReply`).

- `TypeCorrect`, `OnceReplied`, `SocketCount`, `HeaderCorrect`: `[]TypeOK`,
  `[]RepliedOnce`, `[]SocketsAccounted`, `[]ReplyHeader`. That `sockets` never drops
  below zero needs `SocketsAccounted`; `ReplyHeader` needs the theorems about flags
  and that nobody else writes the `replyMsg` of a handler.
- `HeapCount`: `[]HeapAccounted`, if `decode` reads single answers of the upstream
  server as they were meant (`AnswersRead`).
  The invariant `HeapInv` adds to `Inv` what each request has on the heap at each
  point of handler (`HeapOK`), which questions get to the CNAME records and to the
  file (`Path`), and that the items in the cache or on their way there are made of
  known records (`Sources`): a CNAME item can only leak where such a record exists.
- What the replies say, for every number of workers, order of steps, expiry and
  eviction, if single messages survive the codec (`CodecReads`, below):
  - `TtlBound`: `[]TtlLeft`, the TTL of a record exactly, with its value and its name.
  - `AnswersFit`: `[]AnswersAsked`, if the upstream server answers what it is asked
    (`UpstreamAsked`).
  - `NothingInvented`: `[]AnswersBacked`, if no upstream answer has records of a type
    for two names (`OneNameEach`), and the file is empty or the pool has one thread
    (`OneThread`).
  - `FileObeyed`: `[]LocalFileObeyed`, with one thread and a file whose names the
    upstream server does not mention (`FileApart`; the cache is asked before the
    file, as `readme.md:159` says).

  `OneNameEach` and `OneThread` cannot be dropped: `server_chain` and
  `server_file_race` are the counterexamples.

These four rest on one inductive invariant, `Content`, proved beside `Inv` and
`HeapInv`. None of the properties is inductive, since they speak of replies and the
record of a reply has been through an item, the cache, another handler and the
clock. `Content` follows it:

- `Stock`: every item of a handler, on its way to the cache or in it, is `Sound`:
  not empty, of data that fits its type, and made by the file or by one answer that
  has been passed on (`FromFile`, `FromAnswer`): all its values are in that answer, and
  name and deadline are those of the last record of the type. What has been passed
  on (`Passings`) only grows, since nothing is ever taken out of `sent`, and the clock
  only goes on, so an item once `Sound` stays so while it sits in the cache
  (`SoundLater`). It also carries what `NotMixed` and `FileRules` add where they hold:
  each value is that of a known record, or of the file.
- `Knows`: what handler has established on the way to each point, such as that the
  items about to be sent answer the question (`About`), that a question sent
  upstream is not in the file, and that with one thread the position in the file at
  `fscanf` is where `fseek` put it.
- `Crew`: only threads of the pool run, hence at most one with `OneThread`; this is
  what lets `Knows` speak of the shared position.
- `Replies`: what has been sent is as it should be (`ReplyOK`), at the time it was sent.

The properties that need more hypotheses are implications inside `Content`, so that
one proof of each action serves all four.

The hypotheses are about single messages, or about set-up, never about an
interleaving. TLC evaluates them on the instances of the four server runs
(`MCServer!MessagesAreRead`, `MCServer!SetUp`): `AsksRead`, `AnswersRead`,
`UpstreamAsked` and `FileApart` in full, `OneNameEach` and `OneThread` on the instances
that are not there to show their absence. The remaining part of `CodecReads`, that
a client reads the reply that was encoded, is for all sections of up to `MaxSize`
cacheable records, too many to enumerate: TLC evaluates it for up to three of the
records of the instance and for up to two of any names, types and data with the
TTL of the file, which `encode` and `decode` copy without looking at it.

**Relayer.** `RelayerProofs`, for any clients, workers, questions and upstream
server, from `RelayerAssumption`. The invariant has `OnePlace`, the costs of a
request (`SocketCost`, `MessageCost`) and what is carried where (`Carried`).

- `TypeCorrect`, `LeakCount`: `[]TypeOK`, `[]LeaksAccounted`.
- `QuestionsKept`: `[]QueryIntact`, if the codec does to a single message what
  `QueryRead` says.
- `AnswersKept`: `[]ReadAsSaid`. Its hypotheses are that `decode` reads a single answer
  as it was meant (`AnswerRead`) and that the ports of the clients differ; what it adds
  is whose answer it is: what a client reads answers its own message, as encoded
  by the handler that had it, not that of another handler, socket or client. So it
  needs the invariant from end to end (which query a socket is for, which client a
  handler replies to). With one socket for all handlers (`ReplyShared`) it fails.

  TLC evaluates `QueryRead` and `AnswerRead` to true on the instance of the run.
- `AnswersOwned`: `[]OwnAnswer`, if the upstream server repeats the question
  (`QuestionEchoed`) and the ports of the clients differ (`PortsDiffer`); main does
  not know their hosts, so equal ports would not do.

**Left to TLC**: the liveness properties (`EveryTaskRuns`, `ClosePoolEnds`, `EveryRequestAnswered`,
`EveryRequestHandled`), which are out of the prover's reach under fairness; that
`decode` takes back what `encode` wrote, whose definitions fold over messages of any
length (induction itself can be done, see `Lemmas!InductionOnNat`, but the folds and
the recursion of `decodeName` have no theory here). The theorems take the latter as
`CodecReads`, `QueryRead` and `AnswerRead`. Every invariant, every refinement and every
action property that a passing run checks is stated by a theorem.

## 5. Not modelled

Logging and the test programs (reasons in `PROJECT.json`); the debug functions
`tmpSend`, `checkItem`, `showMem` and `showFlag`; the choice of the debug level;
the TCP wrappers of `wrap.c`, which have no caller. Allocation failure,
`pthread_create` failure, malformed messages and the wording of anything are
outside every module. `matchArg` also takes a value that merely begins with the
one asked for, and words of 50 characters or more are cut: neither is modelled.
`PutInTail` and `GetFirstLinkNode` have no caller.

## 6. Plan

Done, in this order: pool and its abstraction; hash table; cache and its
abstraction; server; proofs of pool and table; flags and codec; relayer and
client; server over the codec, with start-up and heap; proofs about the flags, the
server, the relayer, and the cache with its refinement; proofs about the content of
the server's replies. What could come next: `Server` over `LruCache` instead of a
map, and over a cache whose get is two steps; a theory of the codec's folds, from
which `CodecReads` would follow.
