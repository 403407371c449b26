-------------------------------- MODULE Server --------------------------------
(***************************************************************************)
(* The relay server (server.c) with its local file (tool/file_reader.c).   *)
(*                                                                         *)
(* The main thread receives requests and submits them to the pool, which   *)
(* is used through what it promises (TaskQueue).  Each worker runs         *)
(* handler: it looks the question up in the cache, then in the local file, *)
(* then asks the upstream DNS server, and caches what that one answers.    *)
(*                                                                         *)
(* An action is the code between two points where another thread or the    *)
(* clock matters: a call of the cache, fseek, fscanf, a socket call, a     *)
(* read of time(NULL).  Messages are encoded and decoded as module Codec   *)
(* has it; the cache is the map its interface describes (module Cache has  *)
(* its inside).  Names are shorter than HASH_KEY_MAX_LEN, and a request    *)
(* that arrives can be decoded.                                            *)
(***************************************************************************)
EXTENDS Codec, FiniteSets

CONSTANTS Workers,      \* the threads a pool may have
          Names,        \* domain names
          Addresses,    \* ipv4 addresses
          Zero,         \* the address 0.0.0.0
          Garbage,      \* what stands in memory that nobody has written
          Requests,     \* bound: the numbers of the requests that arrive, 1..n
          Asks,         \* the messages clients send
          Upstream,     \* for each question, the answer sections it may get
          File,         \* the lines of the local file, [ip, domain]
          LocalTTL,     \* the TTL of a record of the file (600000)
          CommandLines, \* the command lines, sequences of <<key>> or <<key, value>>
          Atoi,         \* atoi of each value of a number option
          Readable,     \* the file names fopen opens
          DnsAddresses, \* the strings inet_pton reads
          DefaultPool,  \* poolsize without the option (10)
          DefaultCache, \* cachesize without the option (1024)
          MaxNum,       \* MAX_NUM
          FdLimit,      \* how many sockets the process may have for relaying
          Faults,       \* what may fail: "bind", "recv", "send", "lost"
          UintMod,      \* 2^32
          MaxTime,      \* bound: the last value of the clock
          NoRequest,    \* what an idle worker handles
          NoMsg,        \* a message pointer of an idle worker
          NoEntry       \* the content of a cache key that is not there

CachedTypes == {"A", "NS", "CNAME"}
Types       == CachedTypes \cup {"other", "high"}   \* high: 50 or more
Data        == Names \cup Addresses
TTLs        == 0..(UintMod - 1)

(* Resource records: those of a type the cache takes, and all. *)
CachedRR == [name : Names, type : {"A"}, val : Addresses, ttl : TTLs]
            \cup [name : Names, type : StringTypes, val : Names, ttl : TTLs]
RR       == CachedRR \cup [name : Names, type : Types \ CachedTypes, val : Data, ttl : TTLs]

ASSUME ServerAssumption ==
    /\ \A name \in Names : Root \notin ToSet(name)
    /\ Zero \in Addresses /\ Garbage \in Addresses
    /\ \A m \in Asks : /\ DOMAIN m = DOMAIN newMsg
                       /\ m.flag \subseteq 0..11   \* the response code of a query is 0
                       /\ m.ques[1] \in [name : Names, type : Types]
                       /\ m.ques[1] \in DOMAIN Upstream
    /\ \A q \in DOMAIN Upstream : Upstream[q] \subseteq Seq(RR)
    /\ File \in Seq([ip : Addresses, domain : Names])
    /\ UintMod \in Nat /\ LocalTTL \in TTLs
    /\ IsFiniteSet(Workers) /\ DefaultPool \in 1..Cardinality(Workers)
    /\ DefaultCache \in Nat \ {0} /\ MaxNum \in Nat \ {0} /\ 2 * MaxNum <= MaxSize
    /\ FdLimit \in Nat /\ MaxTime \in Nat
    /\ IsFiniteSet(Requests) /\ Requests = 1..Cardinality(Requests)
    /\ NoRequest \notin Requests

VARIABLES argv,     \* the command line
          crew,     \* the threads of the pool
          capacity, \* how many entries the cache holds
          queue,    \* the requests the pool has not started
          req,      \* the request each worker handles
          done,     \* the requests whose handler has returned
          ask,      \* the messages that have arrived
          sent,     \* what the client of each request reads, and when
          heap,     \* what is allocated for each request
          pc,       \* where each worker is in handler
          replyMsg, \* replyMsg of each worker
          items,    \* it, tit or tmp: the items of the reply of each worker
          todo,     \* the items each worker has yet to put into the cache
          ttl,      \* the TTL of the CachePut each worker is in
          cache,    \* globalCache
          pos,      \* the position in the local file, in words
          sockets,  \* how many sockets opened by handler are open
          now,      \* time(NULL)
          sys       \* "starting", "up", "exited" or "undefined"

setupVars == <<argv, crew, capacity>>
poolVars  == <<queue, req, done>>
memVars   == <<cache, pos, sockets>>
ownVars   == <<items, todo, ttl>>
vars == <<setupVars, poolVars, ask, sent, heap, pc, replyMsg, ownVars, memVars, now, sys>>

Init ==
    /\ argv \in CommandLines
    /\ crew = {}
    /\ capacity = 0
    /\ queue = <<>>
    /\ req = [w \in Workers |-> NoRequest]
    /\ done = {}
    /\ ask = <<>>
    /\ sent = [r \in Requests |-> <<>>]
    /\ heap = [r \in Requests |-> {}]
    /\ pc = [w \in Workers |-> "idle"]
    /\ replyMsg = [w \in Workers |-> NoMsg]
    /\ items = [w \in Workers |-> <<>>]
    /\ todo = [w \in Workers |-> <<>>]
    /\ ttl = [w \in Workers |-> 0]
    /\ cache = [k \in Names \X CachedTypes |-> NoEntry]
    /\ pos = 1
    /\ sockets = 0
    /\ now = 0
    /\ sys = "starting"

-----------------------------------------------------------------------------
(* The command line and main up to "Accepting connections". *)

(* NewArg: the last word with a key counts; a key alone has the value "true". *)
NewArg(words) ==
    [key \in {words[i][1] : i \in DOMAIN words} |->
        LET word == words[Max({i \in DOMAIN words : words[i][1] = key})]
        IN  IF Len(word) = 1 THEN "true" ELSE word[2]]

(* getStr, as main uses it; matchArg, without values that only begin with  *)
(* the one asked for.                                                      *)
Given(arg, key)           == key \in DOMAIN arg
getStr(arg, key, allowed) == Given(arg, key) /\ arg[key] \in allowed
getInt(arg, key)          == IF Given(arg, key) THEN Atoi[arg[key]] ELSE 0
matchArg(arg, key, value) == Given(arg, key) /\ arg[key] = value

ASSUME ArgAssumption ==
    \A line \in CommandLines :
        \A key \in {"poolsize", "cachesize"} : getInt(NewArg(line), key) \in Int

(* Slip: the default is forgotten. *)
PoolSizeAsGiven(arg) == Min({getInt(arg, "poolsize"), Cardinality(Workers)})

(* The number of Workers is the most main allows (150). *)
PoolSize(arg) ==
    IF getInt(arg, "poolsize") = 0 THEN DefaultPool
    ELSE Min({getInt(arg, "poolsize"), Cardinality(Workers)})

CacheSizeOf(arg) ==
    IF getInt(arg, "cachesize") <= 0 THEN DefaultCache ELSE getInt(arg, "cachesize")

(* A pool of a negative size has no thread.  file_reader_index reads the   *)
(* file to its end.                                                        *)
Start ==
    LET arg == NewArg(argv)
    IN  /\ sys = "starting"
        /\ ~matchArg(arg, "--help", "true")
        /\ getStr(arg, "localfile", Readable) /\ getStr(arg, "dns", DnsAddresses)
        /\ \E threads \in SUBSET Workers :
              /\ Cardinality(threads) = Max({0, PoolSize(arg)})
              /\ crew' = threads
        /\ capacity' = CacheSizeOf(arg)
        /\ pos' = 2 * Len(File) + 1
        /\ sys' = "up"
        /\ UNCHANGED <<argv, poolVars, ask, sent, heap, pc, replyMsg, ownVars, cache, sockets, now>>

(* The manual is shown, bind or fopen fails, or an argument is missing. *)
StartFails ==
    LET arg == NewArg(argv)
    IN  /\ sys = "starting"
        /\ \/ matchArg(arg, "--help", "true")
           \/ "bind" \in Faults
           \/ ~getStr(arg, "localfile", Readable)
           \/ ~getStr(arg, "dns", DnsAddresses)
        /\ sys' = "exited"
        /\ UNCHANGED <<setupVars, poolVars, ask, sent, heap, pc, replyMsg, ownVars, memVars, now>>

-----------------------------------------------------------------------------
Question(w) == ask[req[w]].ques[1]

Goto(w, where) == pc' = [pc EXCEPT ![w] = where]

At(w, where) == sys = "up" /\ pc[w] = where

(* The client is sent a buffer: the flags as they stand in it, and what    *)
(* decode makes of it.  The time of it, and whether the buffer came from   *)
(* the upstream server, are history.                                       *)
Read(wire)   == [flag |-> wire.flag, msg |-> decode(wire), at |-> now, passed |-> FALSE]
Passed(wire) == [flag |-> wire.flag, msg |-> decode(wire), at |-> now, passed |-> TRUE]

Deliver(w, m) == sent' = [sent EXCEPT ![req[w]] = Append(@, m)]
Send(w, msg)  == Deliver(w, Apply(Read, encode(msg)))

Malloc(r, blocks) == heap' = [heap EXCEPT ![r] = @ \cup blocks]

(* Slip: of two items the second is forgotten. *)
FreeButTit(r, blocks) == heap' = [heap EXCEPT ![r] = @ \ (blocks \ {"tit"})]

Free(r, blocks) == heap' = [heap EXCEPT ![r] = @ \ blocks]

(* handler returns to the pool. *)
Return(w) ==
    /\ done' = done \cup {req[w]}
    /\ req' = [req EXCEPT ![w] = NoRequest]
    /\ replyMsg' = [replyMsg EXCEPT ![w] = NoMsg]
    /\ Goto(w, "idle")
    /\ UNCHANGED queue

-----------------------------------------------------------------------------
(* The loop of main: recvfrom and AddTask. *)
Receive(m) ==
    /\ sys = "up" /\ Len(ask) + 1 \in Requests
    /\ ask' = Append(ask, m)
    /\ Malloc(Len(ask'), {"arg"})
    /\ queue' = Append(queue, Len(ask'))
    /\ UNCHANGED <<setupVars, req, done, sent, pc, replyMsg, ownVars, memVars, now, sys>>

ReceiveFails ==
    /\ sys = "up" /\ "recv" \in Faults
    /\ sys' = "exited"
    /\ UNCHANGED <<setupVars, poolVars, ask, sent, heap, pc, replyMsg, ownVars, memVars, now>>

(* What handler makes of the request before it looks for an answer. *)
Prepared(wire) ==
    [releaseAdditionalRR(decode(wire)) EXCEPT !.flag = setFlag(setResp(@), RA)]

(* A worker of the pool calls handler; only some types are in the cache. *)
Take(w) ==
    /\ At(w, "idle") /\ w \in crew /\ queue # <<>>
    /\ req' = [req EXCEPT ![w] = Head(queue)]
    /\ queue' = Tail(queue)
    /\ Malloc(Head(queue), {"msg"})
    /\ Goto(w, IF ask[Head(queue)].ques[1].type \in CachedTypes THEN "get" ELSE "relay")
    /\ UNCHANGED <<setupVars, done, ask, sent, ownVars, memVars, now, sys>>
    /\ replyMsg' = [replyMsg EXCEPT ![w] = Prepared(foreignEncode(ask[Head(queue)]))]

(* showRequest looks the type up in an array of 50 names: what it reads    *)
(* behind the array may be no string at all.                               *)
ShowRequest(w) ==
    /\ At(w, "idle") /\ w \in crew /\ queue # <<>>
    /\ ask[Head(queue)].ques[1].type = "high"
    /\ sys' = "undefined"
    /\ UNCHANGED <<setupVars, poolVars, ask, sent, heap, pc, replyMsg, ownVars, memVars, now>>

-----------------------------------------------------------------------------
(* item and message. *)

(* The item that addRR2Item makes of the records rrs, one after another. *)
addRR2Item(rrs) ==
    [name |-> Last(rrs).name, type |-> Last(rrs).type,
     vals |-> [i \in DOMAIN rrs |-> rrs[i].val], ddl |-> Last(rrs).ttl + now]

Blocked(it) == it.type = "A" /\ it.vals[1] = Zero

(* Slip: the deadline is sent instead of what is left. *)
TimeLeftDeadline(it) == it.ddl

TimeLeft(it) == (it.ddl - now) % UintMod

(* The records of an item under a name, as many of them as addRR takes. *)
RecordsOf(it, name, room) ==
    [i \in 1..Min({Len(it.vals), room}) |->
        [name |-> name, type |-> it.type, ttl |-> TimeLeft(it), val |-> it.vals[i]]]

(* Slip: every record is given the name of the question. *)
Item2MsgOneName(msg, it) ==
    IF Blocked(it) THEN [msg EXCEPT !.flag = setRCODE(@, NAME_ERR)]
    ELSE [msg EXCEPT !.rr[ANSWER] = @ \o RecordsOf(it, msg.ques[1].name, MaxSize - Len(@))]

Item2Msg(msg, it) ==
    IF Blocked(it) THEN [msg EXCEPT !.flag = setRCODE(@, NAME_ERR)]
    ELSE [msg EXCEPT !.rr[ANSWER] = @ \o RecordsOf(it, it.name, MaxSize - Len(@))]

(* The reply made of one item or two, and the one of an error. *)
Filled(w) ==
    LET first == Item2Msg(replyMsg[w], items[w][1])
    IN  IF Len(items[w]) = 1 THEN first ELSE Item2Msg(first, items[w][2])
Failed(w) == [replyMsg[w] EXCEPT !.flag = setRCODE(setResp(@), SERVER_FAILURE)]

-----------------------------------------------------------------------------
(* The cache. *)

Fresh(e) == e # NoEntry /\ now - e.saveTime <= e.TTL

(* getItem(name, type): at most one item. *)
getItem(name, type) ==
    {e.item : e \in {x \in {cache[<<name, type>>]} : Fresh(x)}}

(* The cache after CacheGet: an entry it finds expired is gone. *)
AfterGet(name, type) ==
    [cache EXCEPT ![<<name, type>>] = IF Fresh(@) THEN @ ELSE NoEntry]

(* The question itself is looked up. *)
GetItem(w) ==
    LET q == Question(w)
    IN  /\ At(w, "get")
        /\ cache' = AfterGet(q.name, q.type)
        /\ \/ \E it \in getItem(q.name, q.type) :
                 /\ items' = [items EXCEPT ![w] = <<it>>]
                 /\ Malloc(req[w], {"it"})
                 /\ Goto(w, "reply")
           \/ /\ getItem(q.name, q.type) = {}
              /\ Goto(w, IF q.type = "A" THEN "getCname" ELSE "relay")
              /\ UNCHANGED <<items, heap>>
        /\ UNCHANGED <<setupVars, poolVars, ask, sent, replyMsg, todo, ttl, pos, sockets, now, sys>>

(* No A record: perhaps the cache knows a CNAME ... *)
GetCname(w) ==
    LET name == Question(w).name
    IN  /\ At(w, "getCname")
        /\ cache' = AfterGet(name, "CNAME")
        /\ \/ \E it \in getItem(name, "CNAME") :
                 /\ items' = [items EXCEPT ![w] = <<it>>]
                 /\ Malloc(req[w], {"it"})
                 /\ Goto(w, "getAlias")
           \/ getItem(name, "CNAME") = {} /\ Goto(w, "file") /\ UNCHANGED <<items, heap>>
        /\ UNCHANGED <<setupVars, poolVars, ask, sent, replyMsg, todo, ttl, pos, sockets, now, sys>>

(* ... and an A record of its target; if not, tit, which is NULL, is freed *)
(* and it is not.                                                          *)
GetAlias(w) ==
    LET target == items[w][1].vals[1]
    IN  /\ At(w, "getAlias")
        /\ cache' = AfterGet(target, "A")
        /\ \/ \E tit \in getItem(target, "A") :
                 /\ items' = [items EXCEPT ![w] = Append(@, tit)]
                 /\ Malloc(req[w], {"tit"})
                 /\ Goto(w, "reply")
           \/ /\ getItem(target, "A") = {}
              /\ items' = [items EXCEPT ![w] = <<>>]
              /\ Goto(w, "file")
              /\ UNCHANGED heap
        /\ UNCHANGED <<setupVars, poolVars, ask, sent, replyMsg, todo, ttl, pos, sockets, now, sys>>

(* Slip: the CNAME record is left out of the reply. *)
ReplyLastOnly(w) ==
    /\ At(w, "reply")
    /\ items' = [items EXCEPT ![w] = <<>>]
    /\ Free(req[w], {"it", "tit", "msg", "arg"})
    /\ Return(w)
    /\ UNCHANGED <<setupVars, ask, todo, ttl, memVars, now, sys>>
    /\ Send(w, Item2Msg(replyMsg[w], Last(items[w])))

(* Item2Msg, encode and sendto, of what the cache had. *)
Reply(w) ==
    /\ At(w, "reply")
    /\ items' = [items EXCEPT ![w] = <<>>]
    /\ Free(req[w], {"it", "tit", "msg", "arg"})
    /\ Return(w)
    /\ UNCHANGED <<setupVars, ask, todo, ttl, memVars, now, sys>>
    /\ Send(w, Filled(w))

-----------------------------------------------------------------------------
(* The local file: words at odd positions are addresses, at even ones      *)
(* domains.                                                                *)

Lines(name) == {i \in DOMAIN File : File[i].domain = name}

(* file_reader_index: where the line of a domain begins; a later line      *)
(* replaces an earlier one.                                                *)
Index(name) == 2 * Max(Lines(name)) - 1

(* fscanf("%s", ip) and inet_pton(ip); both leave the buffer of the result *)
(* as it is when they fail.                                                *)
WordAt(p) == IF p % 2 = 1 /\ p < 2 * Len(File) THEN File[(p + 1) \div 2].ip ELSE Garbage

(* Slip: the file is read where the last reader left it. *)
SeekNowhere(w) ==
    /\ At(w, "file")
    /\ Goto(w, IF Lines(Question(w).name) = {} THEN "relay" ELSE "scan")
    /\ UNCHANGED <<setupVars, poolVars, ask, sent, heap, replyMsg, ownVars, memVars, now, sys>>

(* search and fseek *)
Seek(w) ==
    LET name == Question(w).name
    IN  /\ At(w, "file")
        /\ \/ Lines(name) = {} /\ Goto(w, "relay") /\ UNCHANGED pos
           \/ Lines(name) # {} /\ Goto(w, "scan") /\ pos' = Index(name)
        /\ UNCHANGED <<setupVars, poolVars, ask, sent, heap, replyMsg, ownVars, cache, sockets,
                       now, sys>>

(* fscanf writes a domain that it reads for an address into ip[17], and    *)
(* past its end if it is long.                                             *)
IpSize     == 17
Overrun(p) == /\ p % 2 = 0 /\ p <= 2 * Len(File)
              /\ LET domain == File[p \div 2].domain
                 IN  LabelsLen(domain, Len(domain)) > IpSize   \* a dot or the 0 after each label

(* fscanf; the record becomes an item for the cache and for the reply.     *)
(* Nobody frees the data of the record.                                    *)
Scan(w) ==
    LET tmp == addRR2Item(<<[name |-> Question(w).name, type |-> "A",
                             val |-> WordAt(pos), ttl |-> LocalTTL]>>)
    IN  /\ At(w, "scan")
        /\ pos' = IF pos <= 2 * Len(File) THEN pos + 1 ELSE pos
        /\ items' = [items EXCEPT ![w] = <<tmp>>]
        /\ todo' = [todo EXCEPT ![w] = <<tmp>>]
        /\ Malloc(req[w], {"data"})
        /\ Goto(w, "put")
        /\ sys' = IF Overrun(pos) THEN "undefined" ELSE "up"
        /\ UNCHANGED <<setupVars, poolVars, ask, sent, replyMsg, ttl, cache, sockets, now>>

(* The record of the file is in the cache and is sent. *)
ReplyLocal(w) ==
    /\ At(w, "put") /\ todo[w] = <<>> /\ items[w] # <<>>
    /\ items' = [items EXCEPT ![w] = <<>>]
    /\ Free(req[w], {"msg", "arg"})
    /\ Return(w)
    /\ UNCHANGED <<setupVars, ask, todo, ttl, memVars, now, sys>>
    /\ Send(w, Filled(w))

-----------------------------------------------------------------------------
(* The relay. *)

(* Socket fails: perr_exit. *)
SocketFails(w) ==
    /\ At(w, "relay") /\ sockets >= FdLimit
    /\ sys' = "exited"
    /\ UNCHANGED <<setupVars, poolVars, ask, sent, heap, pc, replyMsg, ownVars, memVars, now>>

(* Socket and sendto to the upstream server. *)
SendQuery(w) ==
    /\ At(w, "relay") /\ sockets < FdLimit
    /\ sockets' = sockets + 1
    /\ Goto(w, "wait")
    /\ UNCHANGED <<setupVars, poolVars, ask, sent, heap, replyMsg, ownVars, cache, pos, now, sys>>

(* sendto fails: an error is sent and the socket stays open. *)
SendFails(w) ==
    /\ At(w, "relay") /\ sockets < FdLimit /\ "send" \in Faults
    /\ sockets' = sockets + 1
    /\ Free(req[w], {"msg", "arg"})
    /\ Return(w)
    /\ UNCHANGED <<setupVars, ask, ownVars, cache, pos, now, sys>>
    /\ Send(w, Failed(w))

(* Slip: no return after the error has been sent. *)
RecvTimeoutGoesOn(w) ==
    /\ At(w, "wait") /\ "lost" \in Faults
    /\ UNCHANGED <<setupVars, poolVars, pc, heap, replyMsg, ask, ownVars, memVars, now, sys>>
    /\ Send(w, Failed(w))

(* Slip: an early return without the two calls of free. *)
RecvTimeoutKeeps(w) ==
    /\ At(w, "wait") /\ "lost" \in Faults
    /\ Return(w)
    /\ UNCHANGED <<setupVars, heap, ask, ownVars, memVars, now, sys>>
    /\ Send(w, Failed(w))

(* recvfrom gives up after 4 s; the socket stays open, so that an answer   *)
(* that comes later is never read.                                         *)
RecvTimeout(w) ==
    /\ At(w, "wait") /\ "lost" \in Faults
    /\ Free(req[w], {"msg", "arg"})
    /\ Return(w)
    /\ UNCHANGED <<setupVars, ask, ownVars, memVars, now, sys>>
    /\ Send(w, Failed(w))

(* What the upstream server says to the request as it came. *)
Said(m) ==
    {[m EXCEPT !.flag = setFlag(setResp(@), RA), !.rr[ANSWER] = rrs] : rrs \in Upstream[m.ques[1]]}

(* The elements of a sequence at some of its positions, in their order. *)
Those(s, places) ==
    LET Rank(i) == Cardinality({j \in places : j <= i})
    IN  [n \in 1..Cardinality(places) |-> s[CHOOSE i \in places : Rank(i) = n]]

(* Ait, Nit and Cit, in the order they are put, those of type 0 left out. *)
ItemsOf(rrs) ==
    LET order    == <<"A", "NS", "CNAME">>
        Of(type) == Those(rrs, {i \in DOMAIN rrs : rrs[i].type = type})
        some     == Those(order, {i \in DOMAIN order : Of(order[i]) # <<>>})
    IN  [i \in DOMAIN some |-> addRR2Item(Of(some[i]))]

(* Slip: the socket is not closed. *)
CloseNot == UNCHANGED sockets

Close == sockets' = sockets - 1

(* The answer is forwarded as it came, then decoded, and its records are   *)
(* sorted into items; more than MaxNum of a type are written past the end  *)
(* of an item.                                                             *)
RecvAnswer(w) ==
    /\ At(w, "wait")
    /\ Close
    /\ Free(req[w], {"msg", "arg"})
    /\ replyMsg' = [replyMsg EXCEPT ![w] = NoMsg]
    /\ Goto(w, "put")
    /\ UNCHANGED <<setupVars, poolVars, ask, items, ttl, cache, pos, now>>
    /\ \E wire \in {foreignEncode(said) : said \in Said(ask[req[w]])} :
          /\ Deliver(w, Apply(Passed, wire))
          /\ todo' = [todo EXCEPT ![w] = ItemsOf(decode(wire).rr[ANSWER])]
    /\ sys' = IF \E i \in DOMAIN todo'[w] : Len(todo'[w][i].vals) > MaxNum
              THEN "undefined" ELSE "up"

-----------------------------------------------------------------------------
(* putItem, up to CachePut: the time left is computed. *)
PutItem(w) ==
    /\ At(w, "put") /\ todo[w] # <<>>
    /\ ttl' = [ttl EXCEPT ![w] = Head(todo[w]).ddl - now]
    /\ Goto(w, "store")
    /\ UNCHANGED <<setupVars, poolVars, ask, sent, heap, replyMsg, items, todo, memVars, now, sys>>

Stored == {k \in DOMAIN cache : cache[k] # NoEntry}

(* Slip: a full cache takes one more. *)
LosersLate(k) == IF k \notin Stored /\ Cardinality(Stored) > capacity THEN Stored ELSE {k}

(* Which entry CachePut may throw out: a new key costs a full cache one of *)
(* the others.                                                             *)
Losers(k) == IF k \notin Stored /\ Cardinality(Stored) >= capacity THEN Stored ELSE {k}

CachePut(w) ==
    LET it    == Head(todo[w])
        k     == <<it.name, it.type>>
        entry == [item |-> it, saveTime |-> now, TTL |-> ttl[w]]
    IN  /\ At(w, "store")
        /\ \E out \in Losers(k) :
              cache' = [cache EXCEPT ![out] = NoEntry, ![k] = entry]
        /\ todo' = [todo EXCEPT ![w] = Tail(@)]
        /\ ttl' = [ttl EXCEPT ![w] = 0]
        /\ Goto(w, "put")
        /\ UNCHANGED <<setupVars, poolVars, ask, sent, heap, replyMsg, items, pos, sockets, now, sys>>

(* The end of handler, after a relayed answer has been put. *)
PutDone(w) ==
    /\ At(w, "put") /\ todo[w] = <<>> /\ items[w] = <<>>
    /\ Return(w)
    /\ UNCHANGED <<setupVars, ask, sent, heap, ownVars, memVars, now, sys>>

-----------------------------------------------------------------------------
Tick ==
    /\ sys = "up" /\ now < MaxTime
    /\ now' = now + 1
    /\ UNCHANGED <<setupVars, poolVars, ask, sent, heap, pc, replyMsg, ownVars, memVars, sys>>

(* A step of the pool's worker w. *)
Work(w) ==
    \/ Take(w) \/ ShowRequest(w)
    \/ GetItem(w) \/ GetCname(w) \/ GetAlias(w) \/ Reply(w)
    \/ Seek(w) \/ Scan(w) \/ ReplyLocal(w)
    \/ SocketFails(w) \/ SendQuery(w) \/ SendFails(w)
    \/ RecvTimeout(w) \/ RecvAnswer(w)
    \/ PutItem(w) \/ CachePut(w) \/ PutDone(w)

Next ==
    \/ Start \/ StartFails
    \/ \E m \in Asks : Receive(m)
    \/ ReceiveFails
    \/ \E w \in Workers : Work(w)
    \/ Tick

Spec == Init /\ [][Next]_vars

(* The scheduler runs every worker, the pool hands over every task         *)
(* (ThreadPool), and recvfrom returns after 4 s at the latest.             *)
FairSpec == Spec /\ \A w \in Workers : WF_vars(Work(w))

-----------------------------------------------------------------------------
Blocks == {"arg", "msg", "it", "tit", "data"}

(* Among the rest: the cache holds no more than it may, each entry under   *)
(* its own name and type, and a reply is made of two items at most.        *)
TypeOK ==
    /\ crew \subseteq Workers /\ capacity \in Nat
    /\ queue \in Seq(Requests)
    /\ req \in [Workers -> Requests \cup {NoRequest}]
    /\ done \subseteq Requests
    /\ ask \in Seq(Asks)
    /\ DOMAIN sent = Requests
    /\ heap \in [Requests -> SUBSET Blocks]
    /\ pc \in [Workers -> {"idle", "get", "getCname", "getAlias", "reply", "file",
                           "scan", "relay", "wait", "put", "store"}]
    /\ DOMAIN items = Workers /\ \A w \in Workers : Len(items[w]) \in 0..2
    /\ DOMAIN replyMsg = Workers /\ DOMAIN todo = Workers /\ DOMAIN ttl = Workers
    /\ DOMAIN cache = Names \X CachedTypes
    /\ \A k \in Stored : /\ k = <<cache[k].item.name, cache[k].item.type>>
                         /\ cache[k].saveTime \in 0..now
    /\ Cardinality(Stored) <= capacity
    /\ pos \in 1..(2 * Len(File) + 1)
    /\ sockets \in 0..FdLimit
    /\ now \in 0..MaxTime
    /\ sys \in {"starting", "up", "exited", "undefined"}

(* The requests answered so far, what has been sent, the answer section of *)
(* a message, and the records known to the world: those the upstream       *)
(* server may answer with, and those of the local file.                    *)
Answered   == {r \in Requests : sent[r] # <<>>}
Sent(r)    == ToSet(sent[r])
Answers(m) == m.msg.rr[ANSWER]

SaidRR  == UNION {ToSet(s) : s \in UNION {Upstream[q] : q \in DOMAIN Upstream}}
FileRR  == {[name |-> File[i].domain, type |-> "A", val |-> File[i].ip, ttl |-> LocalTTL]
               : i \in DOMAIN File}
KnownRR == SaidRR \cup FileRR

(* The server invents nothing: each record a client reads, from whatever   *)
(* place the server took it, is one the upstream server or the local file  *)
(* has (the cache gives a record back with the name, type and value it     *)
(* came with, and encode and decode keep them).                            *)
AnswersBacked ==
    \A r \in Answered : \A m \in Sent(r) : \A rr \in ToSet(Answers(m)) :
        \E k \in KnownRR : rr = [k EXCEPT !.ttl = rr.ttl]

(* Every record is about the name asked for, or about the target of a      *)
(* CNAME record before it.                                                 *)
OnTopic(name, rrs) ==
    \A i \in DOMAIN rrs :
        \/ rrs[i].name = name
        \/ \E j \in 1..(i - 1) : rrs[j].type = "CNAME" /\ rrs[j].val = rrs[i].name

(* An answer answers its question, which it repeats. *)
AnswersAsked ==
    \A r \in Answered : \A m \in Sent(r) :
        m.msg.ques = ask[r].ques /\ OnTopic(ask[r].ques[1].name, Answers(m))

(* The last record of a type in an answer section: addRR2Item gives all of *)
(* that type its name and its deadline (server.c:108 and :109).            *)
LastOf(rrs, type) == rrs[Max({i \in DOMAIN rrs : rrs[i].type = type})]

(* The record rr that a client reads at the time t: the upstream server's  *)
(* answer a had its type and value, and what is left of its life is what   *)
(* is left of the last one of the type; after that a uint32_t has wrapped  *)
(* around (server.c:84).  And the same of a record of the local file.      *)
OutOf(a, rr, t) ==
    /\ a.passed /\ a.at <= t
    /\ \E k \in ToSet(Answers(a)) : k.type = rr.type /\ k.val = rr.val
    /\ LastOf(Answers(a), rr.type).name = rr.name
    /\ rr.ttl = ((a.at + LastOf(Answers(a), rr.type).ttl) - t) % UintMod

OutOfFile(rr, t) ==
    /\ rr.type = "A" /\ Lines(rr.name) # {}
    /\ \E at \in 0..t : rr.ttl = ((at + LocalTTL) - t) % UintMod

(* However long a record was in the cache, whoever put it there and        *)
(* whatever replaced it since, the TTL a client is told goes back to one   *)
(* answer of the upstream server, with that record in it, or to the file.  *)
TtlLeft ==
    \A r \in Answered : \A m \in Sent(r) : \A rr \in ToSet(Answers(m)) :
        \/ m.passed
        \/ \E q \in Answered : \E a \in Sent(q) : OutOf(a, rr, m.at)
        \/ OutOfFile(rr, m.at)

(* The flags as they stand in the reply, read as RFC 1035 has it, though   *)
(* the code keeps them bit by bit the other way round (message.c:51): it   *)
(* is a response to this request, opcode and RD are those of the request,  *)
(* RA is set, and the response code is one the server knows.               *)
ReplyHeader ==
    \A r \in Answered : \A m \in Sent(r) :
        LET asked == encodeFlag(ask[r].flag)
        IN  /\ m.msg.ID = ask[r].ID
            /\ IsResponse(m.flag) /\ RecursionAvailable(m.flag)
            /\ RecursionDesired(m.flag) = RecursionDesired(asked)
            /\ OpcodeBits(m.flag) = OpcodeBits(asked)
            /\ RcodeBits(m.flag) \in {Bits(NO_ERR), Bits(SERVER_FAILURE), Bits(NAME_ERR)}

(* A handler on its way out has answered once, and no other has. *)
RepliedOnce ==
    /\ \A r \in Requests : Len(sent[r]) <= 1
    /\ \A r \in done : sent[r] # <<>>

Rcode(r) == {RcodeBits(m.flag) : m \in Sent(r)}

(* Every socket is accounted for: a handler that waits for the upstream    *)
(* server has one, and each relay that ended in an error has left one open *)
(* for good; an answer closes its socket (server.c:308).                   *)
SocketsAccounted ==
    sockets = Cardinality({w \in Workers : pc[w] = "wait"})
              + Cardinality({r \in Requests : Rcode(r) = {Bits(SERVER_FAILURE)}})

(* A handler that has returned leaves nothing behind, but for two leaks:   *)
(* the CNAME item of a name whose target the cache does not know           *)
(* (server.c:237 frees tit, which is NULL), and the data of the record     *)
(* made for a name of the local file (server.c:256).  Neither is there for *)
(* a question that cannot have gone that way.                              *)
HeapAccounted ==
    \A r \in done :
        LET q == ask[r].ques[1]
        IN  /\ heap[r] \subseteq {"it", "data"}
            /\ "it" \in heap[r] =>
                  /\ q.type = "A"
                  /\ \E k \in KnownRR : k.name = q.name /\ k.type = "CNAME"
            /\ "data" \in heap[r] => q.type = "A" /\ Lines(q.name) # {}

(* readme.md:84: the file gives the address of the domain asked for;       *)
(* 0.0.0.0 blocks the domain (server.c:86).                                *)
LocalFileObeyed ==
    \A r \in Answered : ask[r].ques[1].type = "A" /\ Lines(ask[r].ques[1].name) # {} =>
        LET ip == File[Max(Lines(ask[r].ques[1].name))].ip
        IN  \A m \in Sent(r) :
              IF ip = Zero THEN RcodeBits(m.flag) = Bits(NAME_ERR) /\ Answers(m) = <<>>
              ELSE /\ RcodeBits(m.flag) = Bits(NO_ERR)
                   /\ [i \in DOMAIN Answers(m) |-> Answers(m)[i].val] = <<ip>>

(* Whoever asks is answered, if only with an error, as long as the process *)
(* lives; but a pool made with a negative poolsize has nobody to do it     *)
(* (server.c:376 to 380).                                                  *)
EveryRequestAnswered ==
    \A r \in Requests :
        Len(ask) >= r ~> \/ sent[r] # <<>>
                         \/ sys # "up"
                         \/ getInt(NewArg(argv), "poolsize") < 0

-----------------------------------------------------------------------------
(* Hypotheses of the theorems, none of them about more than one message.   *)

(* handler reads the question of a client and takes no records with it. *)
AsksRead ==
    \A m \in Asks : /\ Prepared(foreignEncode(m)).ques = m.ques
                    /\ Prepared(foreignEncode(m)).rr = newMsg.rr

(* Whoever decodes an answer of the upstream server reads the question and *)
(* the records that were put into it.                                      *)
AnswersRead ==
    \A m \in Asks : \A said \in Said(m) :
        /\ decode(foreignEncode(said)).ques = m.ques
        /\ decode(foreignEncode(said)).rr[ANSWER] \in Upstream[m.ques[1]]

(* The client reads the question and the records that handler has put into *)
(* a reply to m.                                                           *)
ReplyTo(m, rcode, rrs) ==
    [Prepared(foreignEncode(m)) EXCEPT !.flag = setRCODE(@, rcode), !.rr[ANSWER] = rrs]

RepliesRead(sections) ==
    \A m \in Asks : \A rcode \in {NO_ERR, SERVER_FAILURE, NAME_ERR} : \A rrs \in sections :
        /\ decode(encode(ReplyTo(m, rcode, rrs))).ques = m.ques
        /\ decode(encode(ReplyTo(m, rcode, rrs))).rr[ANSWER] = rrs

CodecReads == AsksRead /\ AnswersRead /\ RepliesRead(BoundedSeq(CachedRR, MaxSize))

(* The upstream server answers what it is asked. *)
UpstreamAsked ==
    \A q \in DOMAIN Upstream : \A s \in Upstream[q] : OnTopic(q.name, s)

(* No answer of the upstream server has records of a type for two names,   *)
(* which addRR2Item would mix up (server.c:104).                           *)
OneNameEach ==
    \A q \in DOMAIN Upstream : \A s \in Upstream[q] : \A i, j \in DOMAIN s :
        s[i].type = s[j].type => s[i].name = s[j].name

(* The pool has one thread at most, so that nobody else moves the position *)
(* in the file between fseek and fscanf.                                   *)
OneThread == \A line \in CommandLines : PoolSize(NewArg(line)) <= 1

(* The upstream server has nothing to say about the names of the file: the *)
(* cache is asked first (server.c:192).                                    *)
FileApart == \A k \in SaidRR : Lines(k.name) = {}
=============================================================================
