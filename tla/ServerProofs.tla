---------------------------- MODULE ServerProofs ----------------------------
(***************************************************************************)
(* Theorems about Server for any number of workers and requests, any       *)
(* questions, answers and local file.                                      *)
(***************************************************************************)
EXTENDS Server, FlagsProofs, Lemmas

(* Where a worker has forwarded an answer and only fills the cache. *)
Relayed(w) == pc[w] \in {"put", "store"} /\ items[w] = <<>>

(* The two parts of TypeOK: the cache, which nobody uses before main has   *)
(* made it, and the rest.                                                  *)
CacheOK ==
    /\ DOMAIN cache = Names \X CachedTypes
    /\ \A k \in Stored : /\ k = <<cache[k].item.name, cache[k].item.type>>
                         /\ cache[k].saveTime \in 0..now
    /\ IsFiniteSet(Stored) /\ Cardinality(Stored) <= capacity /\ capacity \in Nat
    /\ sys = "starting" => capacity = 0
RestOK ==
    /\ crew \subseteq Workers
    /\ queue \in Seq(Requests)
    /\ req \in [Workers -> Requests \cup {NoRequest}]
    /\ done \subseteq Requests
    /\ ask \in Seq(Asks)
    /\ DOMAIN sent = Requests
    /\ heap \in [Requests -> SUBSET Blocks]
    /\ pc \in [Workers -> {"idle", "get", "getCname", "getAlias", "reply", "file",
                           "scan", "relay", "wait", "put", "store"}]
    /\ DOMAIN items = Workers /\ \A w \in Workers : Len(items[w]) \in 0..2
    /\ DOMAIN replyMsg = Workers /\ DOMAIN todo = Workers /\ DOMAIN ttl = Workers
    /\ pos \in 1..(2 * Len(File) + 1)
    /\ sockets \in 0..FdLimit
    /\ now \in 0..MaxTime
    /\ argv \in CommandLines
    /\ sys \in {"starting", "up", "exited", "undefined"}

(* Requests are numbered as they come. *)
Arrived ==
    /\ Len(ask) = 0 \/ Len(ask) \in Requests
    /\ \A r \in Elements(queue) \cup done : r <= Len(ask)
    /\ \A w \in Workers : req[w] # NoRequest => req[w] <= Len(ask)

(* A request is in one place: in the queue, with one worker, or done. *)
OnePlace ==
    /\ NoRepeat(queue) /\ Elements(queue) \cap done = {}
    /\ \A w \in Workers : req[w] # NoRequest => req[w] \notin Elements(queue) \cup done
    /\ \A v, w \in Workers : req[v] # NoRequest /\ req[v] = req[w] => v = w

(* What the variables of handler hold from point to point. *)
InHandler(w) ==
    /\ req[w] = NoRequest <=> pc[w] = "idle"
    /\ pc[w] \in {"idle", "get", "getCname", "file", "scan", "relay", "wait"} =>
          items[w] = <<>>
    /\ pc[w] = "getAlias" => \E it : items[w] = <<it>>
    /\ pc[w] = "reply" => \E it : items[w] = <<it>> \/ \E tit : items[w] = <<it, tit>>
    /\ pc[w] # "idle" /\ ~Relayed(w) =>
          replyMsg[w] = Prepared(foreignEncode(ask[req[w]]))
AtWork == \A w \in Workers : InHandler(w)

(* The header of a reply to the message q. *)
Header(q, m) ==
    LET asked == encodeFlag(q.flag)
    IN  /\ m.msg.ID = q.ID
        /\ IsResponse(m.flag) /\ RecursionAvailable(m.flag)
        /\ RecursionDesired(m.flag) = RecursionDesired(asked)
        /\ OpcodeBits(m.flag) = OpcodeBits(asked)
        /\ RcodeBits(m.flag) \in {Bits(NO_ERR), Bits(SERVER_FAILURE), Bits(NAME_ERR)}

(* handler replies once, and before it returns. *)
OneReply ==
    \A r \in Requests :
        \/ /\ sent[r] = <<>>
           /\ r \notin done
           /\ \A w \in Workers : req[w] = r => ~Relayed(w)
        \/ /\ \E m : sent[r] = <<m>> /\ Header(ask[r], m)
           /\ r <= Len(ask) /\ r \notin Elements(queue)
           /\ \A w \in Workers : req[w] = r => Relayed(w)

(* The requests, where they are and what has been sent for them. *)
Ledger == Arrived /\ OnePlace /\ OneReply

Inv == CacheOK /\ RestOK /\ AtWork /\ Ledger

-----------------------------------------------------------------------------
(* The header of a message on its way. *)

(* encodeHeader writes ID and flags as they stand in the message. *)
LEMMA EncodedHeader ==
    ASSUME NEW msg
    PROVE  /\ encode(msg).ID = msg.ID /\ encode(msg).flag = encodeFlag(msg.flag)
           /\ foreignEncode(msg).ID = msg.ID
           /\ foreignEncode(msg).flag = encodeFlag(msg.flag)
<1>1. encode(msg) = EncodeBy("own", msg) /\ foreignEncode(msg) = EncodeBy("foreign", msg)
    BY DEF encode, foreignEncode, Apply
<1>2. \A who : \E n, counts, body :
        EncodeBy(who, msg) = [ID |-> msg.ID, flag |-> encodeFlag(msg.flag),
                              q_count |-> n, RR_count |-> counts, body |-> body]
    BY DEF EncodeBy, Apply
<1>. QED
    BY <1>1, <1>2

(* decode takes them back, whatever the body. *)
LEMMA DecodedHeader ==
    ASSUME NEW wire
    PROVE  \E ques, rr : decode(wire) = [ID |-> wire.ID, flag |-> decodeFlag(wire.flag),
                                        ques |-> ques, rr |-> rr]
<1>1. decode(wire) = DecodeWire(wire)
    BY DEF decode, Apply
<1>. QED
    BY <1>1 DEF DecodeWire, Apply

(* What the client reads of the header. *)
LEMMA ReadHeader ==
    ASSUME NEW wire
    PROVE  /\ Apply(Read, wire).flag = wire.flag /\ Apply(Read, wire).msg.ID = wire.ID
           /\ Apply(Passed, wire).flag = wire.flag /\ Apply(Passed, wire).msg.ID = wire.ID
<1>1. Apply(Read, wire) =
         [flag |-> wire.flag, msg |-> decode(wire), at |-> now, passed |-> FALSE]
    BY DEF Apply, Read
<1>2. Apply(Passed, wire) =
         [flag |-> wire.flag, msg |-> decode(wire), at |-> now, passed |-> TRUE]
    BY DEF Apply, Passed
<1>3. decode(wire).ID = wire.ID
    BY DecodedHeader
<1>. QED
    BY <1>1, <1>2, <1>3

(* The message handler works on has the ID and the flags of the question,  *)
(* with QR and RA set.                                                     *)
LEMMA PreparedHeader ==
    ASSUME NEW q \in Asks
    PROVE  LET p == Prepared(foreignEncode(q))
           IN  /\ DOMAIN p = {"ID", "flag", "ques", "rr"}
               /\ p.ID = q.ID
               /\ p.flag = setFlag(setResp(q.flag), RA)
<1>. DEFINE wire == foreignEncode(q)
<1>1. wire.ID = q.ID /\ wire.flag = encodeFlag(q.flag)
    BY EncodedHeader
<1>2. PICK ques, rr : decode(wire) = [ID |-> wire.ID, flag |-> decodeFlag(wire.flag),
                                      ques |-> ques, rr |-> rr]
    BY DecodedHeader
<1>3. q.flag \in SUBSET FlagBits
    BY ServerAssumption DEF FlagBits
<1>4. decodeFlag(wire.flag) = q.flag
    BY <1>1, <1>3, FlagRoundTrip
<1>. HIDE DEF wire
<1>5. decode(wire) = [ID |-> q.ID, flag |-> q.flag, ques |-> ques, rr |-> rr]
    BY <1>1, <1>2, <1>4
<1>. QED
    BY <1>5 DEF Prepared, releaseAdditionalRR, wire

(* A reply with the ID of the question and its flags but for QR, RA and    *)
(* the response code has the header of a reply.                            *)
LEMMA ReplyHas ==
    ASSUME NEW q \in Asks, NEW wire, NEW rcode \in {NO_ERR, SERVER_FAILURE, NAME_ERR},
           wire.ID = q.ID,
           wire.flag = encodeFlag(setRCODE(setFlag(setResp(q.flag), RA), rcode))
    PROVE  /\ Header(q, Apply(Read, wire)) /\ Header(q, Apply(Passed, wire))
           /\ RcodeBits(Apply(Read, wire).flag) = Bits(rcode)
           /\ RcodeBits(Apply(Passed, wire).flag) = Bits(rcode)
<1>1. q.flag \in SUBSET (0..11)
    BY ServerAssumption
<1>2. rcode \in 0..3
    BY DEF NO_ERR, SERVER_FAILURE, NAME_ERR
<1>3. /\ IsResponse(wire.flag) /\ RecursionAvailable(wire.flag)
      /\ RecursionDesired(wire.flag) <=> RecursionDesired(encodeFlag(q.flag))
      /\ OpcodeBits(wire.flag) = OpcodeBits(encodeFlag(q.flag))
      /\ RcodeBits(wire.flag) = Bits(rcode)
    BY <1>1, <1>2, ReplyFlags
<1>4. RecursionDesired(wire.flag) = RecursionDesired(encodeFlag(q.flag))
    BY <1>3 DEF RecursionDesired
<1>5. /\ Apply(Read, wire).flag = wire.flag /\ Apply(Read, wire).msg.ID = wire.ID
      /\ Apply(Passed, wire).flag = wire.flag /\ Apply(Passed, wire).msg.ID = wire.ID
    BY ReadHeader
<1>. QED
    BY <1>3, <1>4, <1>5 DEF Header

(* The answer of the upstream server is passed on with its own header. *)
LEMMA SaidHeader ==
    ASSUME NEW q \in Asks, NEW said \in Said(q)
    PROVE  /\ Header(q, Apply(Passed, foreignEncode(said)))
           /\ RcodeBits(Apply(Passed, foreignEncode(said)).flag) = Bits(NO_ERR)
<1>1. DOMAIN q = {"ID", "flag", "ques", "rr"} /\ q.flag \in SUBSET (0..11)
    BY ServerAssumption DEF newMsg
<1>2. said.ID = q.ID /\ said.flag = setFlag(setResp(q.flag), RA)
    BY <1>1 DEF Said
<1>3. setRCODE(said.flag, NO_ERR) = said.flag
    BY <1>1, <1>2, ReplyFlags
<1>4. foreignEncode(said).ID = q.ID /\ foreignEncode(said).flag = encodeFlag(said.flag)
    BY <1>2, EncodedHeader
<1>. QED
    BY <1>2, <1>3, <1>4, ReplyHas

(* What handler sends when the relay fails. *)
LEMMA FailedHeader ==
    ASSUME NEW q \in Asks, NEW w \in Workers, replyMsg[w] = Prepared(foreignEncode(q))
    PROVE  /\ Header(q, Apply(Read, encode(Failed(w))))
           /\ RcodeBits(Apply(Read, encode(Failed(w))).flag) = Bits(SERVER_FAILURE)
<1>1. /\ DOMAIN replyMsg[w] = {"ID", "flag", "ques", "rr"}
      /\ replyMsg[w].ID = q.ID
      /\ replyMsg[w].flag = setFlag(setResp(q.flag), RA)
    BY PreparedHeader
<1>2. setResp(replyMsg[w].flag) = replyMsg[w].flag
  <2>1. q.flag \in SUBSET (0..11)
      BY ServerAssumption
  <2>. QED
      BY <1>1, <2>1, ReplyFlags
<1>3. Failed(w).ID = q.ID /\ Failed(w).flag = setRCODE(replyMsg[w].flag, SERVER_FAILURE)
    BY <1>1, <1>2 DEF Failed
<1>4. /\ encode(Failed(w)).ID = q.ID
      /\ encode(Failed(w)).flag = encodeFlag(setRCODE(replyMsg[w].flag, SERVER_FAILURE))
    BY <1>3, EncodedHeader
<1>. QED
    BY <1>1, <1>4, ReplyHas

(* Item2Msg leaves the header alone, or sets NAME_ERR in it. *)
LEMMA Item2MsgHeader ==
    ASSUME NEW msg, DOMAIN msg = {"ID", "flag", "ques", "rr"}, NEW it
    PROVE  /\ DOMAIN Item2Msg(msg, it) = {"ID", "flag", "ques", "rr"}
           /\ Item2Msg(msg, it).ID = msg.ID
           /\ Item2Msg(msg, it).flag \in {msg.flag, setRCODE(msg.flag, NAME_ERR)}
    BY DEF Item2Msg

(* What handler sends when it has found one item or two. *)
LEMMA FilledHeader ==
    ASSUME NEW q \in Asks, NEW w \in Workers, replyMsg[w] = Prepared(foreignEncode(q))
    PROVE  /\ Header(q, Apply(Read, encode(Filled(w))))
           /\ RcodeBits(Apply(Read, encode(Filled(w))).flag) # Bits(SERVER_FAILURE)
<1>. DEFINE g     == setFlag(setResp(q.flag), RA)
            first == Item2Msg(replyMsg[w], items[w][1])
            both  == Item2Msg(first, items[w][2])
<1>1. /\ DOMAIN replyMsg[w] = {"ID", "flag", "ques", "rr"}
      /\ replyMsg[w].ID = q.ID
      /\ replyMsg[w].flag = g
    BY PreparedHeader
<1>2. /\ setRCODE(g, NO_ERR) = g
      /\ setRCODE(setRCODE(g, NAME_ERR), NAME_ERR) = setRCODE(g, NAME_ERR)
  <2>1. q.flag \in SUBSET (0..11) /\ NAME_ERR \in 0..3
      BY ServerAssumption DEF NAME_ERR
  <2>. QED
      BY <2>1, ReplyFlags
<1>. HIDE DEF g
<1>3. /\ DOMAIN first = {"ID", "flag", "ques", "rr"} /\ first.ID = q.ID
      /\ first.flag \in {g, setRCODE(g, NAME_ERR)}
    BY <1>1, Item2MsgHeader
<1>. HIDE DEF first
<1>4. both.ID = q.ID /\ both.flag \in {g, setRCODE(g, NAME_ERR)}
    BY <1>2, <1>3, Item2MsgHeader
<1>. HIDE DEF both
<1>5. Filled(w) \in {first, both}
    BY DEF Filled, first, both
<1>6. PICK rcode \in {NO_ERR, NAME_ERR} :
         Filled(w).ID = q.ID /\ Filled(w).flag = setRCODE(g, rcode)
    BY <1>2, <1>3, <1>4, <1>5
<1>7. encode(Filled(w)).ID = q.ID /\ encode(Filled(w)).flag = encodeFlag(setRCODE(g, rcode))
    BY <1>6, EncodedHeader
<1>8. Bits(rcode) # Bits(SERVER_FAILURE)
    BY TwoBits DEF NO_ERR, NAME_ERR, SERVER_FAILURE
<1>. QED
    BY <1>7, <1>8, ReplyHas DEF g

-----------------------------------------------------------------------------
(* The ledger of the requests, for each kind of step.  A step may leave    *)
(* requests and replies alone ...                                          *)
LEMMA LedgerKept ==
    ASSUME RestOK, Ledger, UNCHANGED <<poolVars, ask, sent>>,
           \A w \in Workers : req[w] # NoRequest => (Relayed(w) <=> Relayed(w)')
    PROVE  Ledger'
<1>1. Arrived' /\ OnePlace'
    BY DEF Ledger, Arrived, OnePlace, poolVars
<1>2. OneReply'
  <2>1. SUFFICES ASSUME NEW r \in Requests
                 PROVE  \/ /\ sent[r] = <<>> /\ r \notin done
                           /\ \A w \in Workers : req[w] = r => ~Relayed(w)'
                        \/ /\ \E m : sent[r] = <<m>> /\ Header(ask[r], m)
                           /\ r <= Len(ask) /\ r \notin Elements(queue)
                           /\ \A w \in Workers : req[w] = r => Relayed(w)'
      BY DEF OneReply, poolVars
  <2>2. \A w \in Workers : req[w] = r => (Relayed(w) <=> Relayed(w)')
      BY ServerAssumption
  <2>3. \/ /\ sent[r] = <<>> /\ r \notin done
           /\ \A w \in Workers : req[w] = r => ~Relayed(w)
        \/ /\ \E m : sent[r] = <<m>> /\ Header(ask[r], m)
           /\ r <= Len(ask) /\ r \notin Elements(queue)
           /\ \A w \in Workers : req[w] = r => Relayed(w)
      BY DEF Ledger, OneReply
  <2>. QED
      BY <2>2, <2>3
<1>. QED
    BY <1>1, <1>2 DEF Ledger

(* ... or let a request in ... *)
LEMMA ReceiveLedger ==
    ASSUME RestOK, Ledger, NEW m \in Asks, Receive(m)
    PROVE  Ledger'
<1>. DEFINE n == Len(ask) + 1
<1>1. /\ n \in Requests /\ ask' = Append(ask, m) /\ queue' = Append(queue, n)
      /\ UNCHANGED <<req, done, sent, pc, items>>
    BY AppendProperties DEF Receive, RestOK, ownVars
<1>2. /\ Len(ask) \in Nat /\ Len(ask') = n
      /\ \A r \in 1..Len(ask) : ask'[r] = ask[r]
    BY <1>1, AppendProperties, LenProperties DEF RestOK
<1>3. \A r \in Requests : r \in Nat \ {0}
    BY ServerAssumption, FS_CardinalityType
<1>4. n \notin Elements(queue)
    BY <1>2 DEF Ledger, Arrived
<1>5. Elements(queue') = Elements(queue) \cup {n} /\ NoRepeat(queue')
    BY <1>1, <1>4, ElementsOfAppend DEF RestOK, Ledger, OnePlace
<1>6. n \notin done /\ \A w \in Workers : req[w] # n
    BY <1>1, <1>2, ServerAssumption DEF Ledger, Arrived
<1>7. Elements(queue) \subseteq Requests
    BY ElementOfSeq DEF RestOK, Elements
<1>. HIDE DEF n
<1>8. Arrived'
  <2>1. \A r \in Requests : r <= Len(ask) => r <= n
      BY <1>2, <1>3 DEF n
  <2>2. n <= n /\ n \in Nat
      BY <1>2 DEF n
  <2>. QED
      BY <1>1, <1>2, <1>5, <1>7, <2>1, <2>2 DEF Ledger, Arrived, RestOK
<1>9. OnePlace'
    BY <1>1, <1>5, <1>6 DEF Ledger, OnePlace
<1>10. OneReply'
  <2>1. SUFFICES ASSUME NEW r \in Requests
                 PROVE  \/ /\ sent[r] = <<>> /\ r \notin done
                           /\ \A w \in Workers : req[w] = r => ~Relayed(w)
                        \/ /\ \E k : sent[r] = <<k>> /\ Header(ask'[r], k)
                           /\ r <= Len(ask') /\ r \notin Elements(queue')
                           /\ \A w \in Workers : req[w] = r => Relayed(w)
      BY <1>1 DEF OneReply, Relayed
  <2>2. r <= Len(ask) => r # n /\ r <= Len(ask') /\ ask'[r] = ask[r]
      BY <1>2, <1>3 DEF n
  <2>. QED
      BY <1>5, <2>2 DEF Ledger, OneReply
<1>. QED
    BY <1>8, <1>9, <1>10 DEF Ledger

(* ... or give one to a worker ... *)
LEMMA TakeLedger ==
    ASSUME RestOK, Ledger, AtWork, NEW w \in Workers, Take(w)
    PROVE  Ledger'
<1>. DEFINE n == Head(queue)
<1>1. /\ queue # <<>> /\ queue' = Tail(queue)
      /\ req' = [req EXCEPT ![w] = n]
      /\ UNCHANGED <<done, ask, sent, items>>
      /\ pc[w] = "idle" /\ pc' \in [Workers -> {pc'[v] : v \in Workers}]
      /\ pc'[w] \in {"get", "relay"} /\ \A v \in Workers \ {w} : pc'[v] = pc[v]
    BY DEF Take, At, Goto, ownVars, RestOK
<1>2. /\ n \in Requests
      /\ Elements(queue) = Elements(queue') \cup {n}
      /\ NoRepeat(queue') /\ n \notin Elements(queue')
    BY <1>1, ElementsOfTail DEF RestOK, Ledger, OnePlace
<1>3. /\ req[w] = NoRequest /\ req'[w] = n
      /\ \A v \in Workers : v # w => req'[v] = req[v]
    BY <1>1 DEF AtWork, InHandler, RestOK
<1>. HIDE DEF n
<1>4. Arrived'
    BY <1>1, <1>2, <1>3 DEF Ledger, Arrived
<1>5. OnePlace'
    BY <1>1, <1>2, <1>3 DEF Ledger, OnePlace
<1>6. OneReply'
  <2>1. SUFFICES ASSUME NEW r \in Requests
                 PROVE  \/ /\ sent[r] = <<>> /\ r \notin done
                           /\ \A v \in Workers : req'[v] = r => ~Relayed(v)'
                        \/ /\ \E k : sent[r] = <<k>> /\ Header(ask[r], k)
                           /\ r <= Len(ask) /\ r \notin Elements(queue')
                           /\ \A v \in Workers : req'[v] = r => Relayed(v)'
      BY <1>1 DEF OneReply
  <2>2. ~Relayed(w)' /\ \A v \in Workers \ {w} : Relayed(v)' <=> Relayed(v)
      BY <1>1 DEF Relayed
  <2>3. CASE r = n
      BY <1>2, <1>3, <2>2, <2>3 DEF Ledger, OneReply, OnePlace
  <2>4. CASE r # n
      BY <1>2, <1>3, <2>2, <2>4 DEF Ledger, OneReply
  <2>. QED
      BY <2>3, <2>4
<1>. QED
    BY <1>4, <1>5, <1>6 DEF Ledger

(* ... or send the one reply, and then either stay to fill the cache or    *)
(* return at once ...                                                      *)
LEMMA SendLedger ==
    ASSUME RestOK, Ledger, AtWork, NEW w \in Workers, pc[w] # "idle", ~Relayed(w),
           NEW k, Deliver(w, k), Header(ask[req[w]], k),
           UNCHANGED <<queue, ask>>,
           \A v \in Workers \ {w} : Relayed(v)' <=> Relayed(v),
           \/ UNCHANGED <<req, done>> /\ Relayed(w)'
           \/ /\ req' = [req EXCEPT ![w] = NoRequest]
              /\ done' = done \cup {req[w]}
    PROVE  Ledger'
<1>. DEFINE n == req[w]
<1>1. n \in Requests /\ n # NoRequest
    BY ServerAssumption DEF AtWork, InHandler, RestOK
<1>2. /\ sent[n] = <<>> /\ n \notin done /\ n \notin Elements(queue) /\ n <= Len(ask)
      /\ \A v \in Workers : req[v] = n => v = w
    BY <1>1 DEF Ledger, OneReply, OnePlace, Arrived
<1>3. /\ sent'[n] = <<k>>
      /\ \A r \in Requests : r # n => sent'[r] = sent[r]
    BY <1>1, <1>2 DEF Deliver, RestOK
<1>4. \A v \in Workers \ {w} : req'[v] = req[v]
    BY DEF RestOK
<1>5. req'[w] = n \/ req'[w] = NoRequest
    BY DEF RestOK
<1>6. done' = done \/ done' = done \cup {n}
    OBVIOUS
<1>7. n \in done' => req'[w] = NoRequest
    BY <1>2 DEF RestOK
<1>. HIDE DEF n
<1>8. Arrived'
    BY <1>2, <1>4, <1>5, <1>6 DEF Ledger, Arrived, n
<1>9. OnePlace'
    BY <1>2, <1>4, <1>5, <1>6, <1>7 DEF Ledger, OnePlace
<1>10. OneReply'
  <2>1. SUFFICES ASSUME NEW r \in Requests
                 PROVE  \/ /\ sent'[r] = <<>> /\ r \notin done'
                           /\ \A v \in Workers : req'[v] = r => ~Relayed(v)'
                        \/ /\ \E m : sent'[r] = <<m>> /\ Header(ask[r], m)
                           /\ r <= Len(ask) /\ r \notin Elements(queue)
                           /\ \A v \in Workers : req'[v] = r => Relayed(v)'
      BY DEF OneReply
  <2>2. CASE r = n
    <3>1. \A v \in Workers : req'[v] = n => v = w /\ Relayed(w)'
        BY <1>1, <1>2, <1>4, <1>5 DEF RestOK
    <3>2. Header(ask[n], k)
        BY DEF n
    <3>. QED
        BY <1>2, <1>3, <2>2, <3>1, <3>2
  <2>3. CASE r # n
    <3>1. \A v \in Workers : req'[v] = r => req[v] = r /\ v # w
        BY <1>4, <1>5, <2>3, ServerAssumption
    <3>. QED
        BY <1>3, <1>6, <2>3, <3>1 DEF Ledger, OneReply
  <2>. QED
      BY <2>2, <2>3
<1>. QED
    BY <1>8, <1>9, <1>10 DEF Ledger

(* ... or return when the cache has been filled. *)
LEMMA PutDoneLedger ==
    ASSUME RestOK, Ledger, AtWork, NEW w \in Workers, PutDone(w)
    PROVE  Ledger'
<1>. DEFINE n == req[w]
<1>1. /\ pc[w] = "put" /\ items[w] = <<>>
      /\ UNCHANGED <<queue, ask, sent, items>>
      /\ req' = [req EXCEPT ![w] = NoRequest] /\ done' = done \cup {n}
      /\ \A v \in Workers \ {w} : pc'[v] = pc[v]
    BY DEF PutDone, At, Return, Goto, ownVars, RestOK
<1>2. n \in Requests /\ n # NoRequest /\ Relayed(w)
    BY <1>1, ServerAssumption DEF AtWork, InHandler, RestOK, Relayed
<1>3. /\ \E m : sent[n] = <<m>> /\ Header(ask[n], m)
      /\ n <= Len(ask) /\ n \notin Elements(queue)
      /\ \A v \in Workers : req[v] = n => v = w
    BY <1>2 DEF Ledger, OneReply, OnePlace
<1>4. req'[w] = NoRequest /\ \A v \in Workers \ {w} : req'[v] = req[v]
    BY <1>1 DEF RestOK
<1>5. \A v \in Workers \ {w} : Relayed(v)' <=> Relayed(v)
    BY <1>1 DEF Relayed
<1>. HIDE DEF n
<1>6. Arrived' /\ OnePlace'
    BY <1>1, <1>3, <1>4 DEF Ledger, Arrived, OnePlace
<1>7. OneReply'
  <2>1. SUFFICES ASSUME NEW r \in Requests
                 PROVE  \/ /\ sent[r] = <<>> /\ r \notin done'
                           /\ \A v \in Workers : req'[v] = r => ~Relayed(v)'
                        \/ /\ \E m : sent[r] = <<m>> /\ Header(ask[r], m)
                           /\ r <= Len(ask) /\ r \notin Elements(queue)
                           /\ \A v \in Workers : req'[v] = r => Relayed(v)'
      BY <1>1 DEF OneReply
  <2>2. \A v \in Workers : req'[v] = r => req[v] = r /\ v # w
      BY <1>4, ServerAssumption
  <2>3. CASE r = n
      BY <1>3, <2>2, <2>3
  <2>4. CASE r # n
      BY <1>1, <1>5, <2>2, <2>4 DEF Ledger, OneReply
  <2>. QED
      BY <2>3, <2>4
<1>. QED
    BY <1>6, <1>7 DEF Ledger

-----------------------------------------------------------------------------
(* The cache. *)

(* A step that leaves the cache alone. *)
LEMMA CacheKept ==
    ASSUME CacheOK, RestOK, UNCHANGED <<cache, capacity>>, now' \in {now, now + 1},
           sys' = "starting" => sys = "starting"
    PROVE  CacheOK'
<1>1. Stored' = Stored
    BY DEF Stored
<1>2. now \in Nat
    BY ServerAssumption DEF RestOK
<1>3. \A t \in 0..now : t \in 0..now'
    BY <1>2
<1>. QED
    BY <1>1, <1>3 DEF CacheOK

(* CacheGet throws an entry out or does nothing. *)
LEMMA CacheAfterGet ==
    ASSUME CacheOK, NEW name, NEW type, cache' = AfterGet(name, type),
           UNCHANGED <<capacity, now, sys>>
    PROVE  CacheOK'
<1>1. DOMAIN cache' = DOMAIN cache
    BY DEF AfterGet
<1>2. \A k \in DOMAIN cache : cache'[k] \in {cache[k], NoEntry}
    BY DEF AfterGet
<1>3. Stored' \in SUBSET Stored /\ \A k \in Stored' : cache'[k] = cache[k]
    BY <1>1, <1>2 DEF Stored
<1>4. /\ IsFiniteSet(Stored') /\ Cardinality(Stored') <= Cardinality(Stored)
      /\ Cardinality(Stored) \in Nat /\ Cardinality(Stored') \in Nat
    BY <1>3, FS_Subset, FS_CardinalityType DEF CacheOK
<1>. QED
    BY <1>1, <1>3, <1>4 DEF CacheOK

(* CachePut makes room before it puts a new key into a full cache. *)
LEMMA CacheAfterPut ==
    ASSUME CacheOK, RestOK, NEW it, NEW entry, entry.item = it, entry.saveTime = now,
           NEW out \in Losers(<<it.name, it.type>>),
           cache' = [cache EXCEPT ![out] = NoEntry, ![<<it.name, it.type>>] = entry],
           UNCHANGED <<capacity, now, sys>>
    PROVE  CacheOK'
<1>. DEFINE k == <<it.name, it.type>>
            left == Stored \ {out}
<1>1. now \in 0..now
    BY ServerAssumption DEF RestOK
<1>2. /\ DOMAIN cache' = DOMAIN cache
      /\ \A j \in DOMAIN cache : j # k => cache'[j] = IF j = out THEN NoEntry ELSE cache[j]
      /\ k \in DOMAIN cache => cache'[k] = entry
    OBVIOUS
<1>. HIDE DEF k
<1>3. Stored' \subseteq left \cup {k}
    BY <1>2 DEF Stored
<1>4. \A j \in Stored' : j # k => cache'[j] = cache[j] /\ j \in Stored
    BY <1>2 DEF Stored
<1>5. \A j \in Stored' : /\ j = <<cache'[j].item.name, cache'[j].item.type>>
                         /\ cache'[j].saveTime \in 0..now
  <2>1. SUFFICES ASSUME NEW j \in Stored'
                 PROVE  /\ j = <<cache'[j].item.name, cache'[j].item.type>>
                        /\ cache'[j].saveTime \in 0..now
      OBVIOUS
  <2>2. CASE j = k
    <3>1. cache'[k] = entry
        BY <1>2, <2>2 DEF Stored
    <3>. QED
        BY <1>1, <2>2, <3>1 DEF k
  <2>3. CASE j # k
      BY <1>4, <2>3 DEF CacheOK
  <2>. QED
      BY <2>2, <2>3
<1>6. /\ IsFiniteSet(left) /\ Cardinality(Stored) \in Nat
      /\ Cardinality(left) = IF out \in Stored THEN Cardinality(Stored) - 1
                             ELSE Cardinality(Stored)
    BY FS_RemoveElement, FS_CardinalityType DEF CacheOK
<1>7. /\ IsFiniteSet(left \cup {k})
      /\ Cardinality(left \cup {k}) = IF k \in left THEN Cardinality(left)
                                      ELSE Cardinality(left) + 1
    BY <1>6, FS_AddElement
<1>8. Cardinality(left \cup {k}) <= capacity
  <2>1. CASE out = k /\ k \in Stored
      BY <1>6, <1>7, <2>1 DEF CacheOK
  <2>2. CASE out = k /\ k \notin Stored
    <3>1. ~(Cardinality(Stored) >= capacity)
        BY <2>2 DEF Losers, k
    <3>. QED
        BY <1>6, <1>7, <2>2, <3>1 DEF CacheOK
  <2>3. CASE out # k
    <3>1. out \in Stored /\ k \notin Stored
        BY <2>3 DEF Losers, k
    <3>. QED
        BY <1>6, <1>7, <3>1 DEF CacheOK
  <2>. QED
      BY <2>1, <2>2, <2>3
<1>9. /\ IsFiniteSet(Stored') /\ Cardinality(Stored') <= Cardinality(left \cup {k})
      /\ Cardinality(Stored') \in Nat /\ Cardinality(left \cup {k}) \in Nat
    BY <1>3, <1>7, FS_Subset, FS_CardinalityType
<1>10. Cardinality(Stored') <= capacity
    BY <1>8, <1>9 DEF CacheOK
<1>. QED
    BY <1>2, <1>5, <1>9, <1>10 DEF CacheOK

-----------------------------------------------------------------------------
(* Every action keeps the invariant.  First what all steps of a worker     *)
(* have in common: they touch what is the worker's own.                    *)
LEMMA OthersAtWork ==
    ASSUME RestOK, AtWork, NEW w \in Workers, UNCHANGED ask, InHandler(w)',
           \A v \in Workers \ {w} : /\ pc'[v] = pc[v] /\ req'[v] = req[v]
                                    /\ items'[v] = items[v] /\ replyMsg'[v] = replyMsg[v]
    PROVE  AtWork'
<1>1. ASSUME NEW v \in Workers \ {w}
      PROVE  InHandler(v)'
    BY <1>1 DEF AtWork, InHandler, Relayed
<1>. QED
    BY <1>1 DEF AtWork

(* main: nothing of handler changes. *)
LEMMA StartInv ==
    ASSUME Inv, Start
    PROVE  Inv'
<1>1. sys = "starting" /\ sys' = "up" /\ UNCHANGED <<poolVars, ask, sent, heap, pc,
                                   replyMsg, ownVars, cache, sockets, now, argv>>
    BY DEF Start
<1>2. RestOK'
  <2>1. crew' \subseteq Workers /\ pos' = 2 * Len(File) + 1
      BY DEF Start
  <2>2. Len(File) \in Nat
      BY ServerAssumption, LenProperties
  <2>. QED
      BY <1>1, <2>1, <2>2 DEF Inv, RestOK, poolVars, ownVars
<1>3. CacheOK'
  <2>1. capacity' = CacheSizeOf(NewArg(argv)) /\ capacity = 0
      BY <1>1 DEF Start, Inv, CacheOK
  <2>2. getInt(NewArg(argv), "cachesize") \in Int
      BY ArgAssumption DEF Inv, RestOK
  <2>3. capacity' \in Nat
      BY <2>1, <2>2, ServerAssumption DEF CacheSizeOf
  <2>4. Stored' = Stored /\ Cardinality(Stored) \in Nat
      BY <1>1, FS_CardinalityType DEF Stored, Inv, CacheOK
  <2>. QED
      BY <1>1, <2>1, <2>3, <2>4 DEF Inv, CacheOK
<1>4. Ledger'
  <2>1. \A w \in Workers : Relayed(w) <=> Relayed(w)'
      BY <1>1 DEF Relayed, ownVars
  <2>. QED
      BY <1>1, <2>1, LedgerKept DEF Inv
<1>5. AtWork'
    BY <1>1 DEF Inv, AtWork, InHandler, Relayed, ownVars, poolVars
<1>. QED
    BY <1>2, <1>3, <1>4, <1>5 DEF Inv

(* The process ends, or time goes on. *)
LEMMA OutsideInv ==
    ASSUME Inv, \/ UNCHANGED vars
                \/ StartFails \/ ReceiveFails \/ Tick
                \/ \E w \in Workers : ShowRequest(w) \/ SocketFails(w)
    PROVE  Inv'
<1>1. /\ UNCHANGED <<setupVars, poolVars, ask, sent, heap, pc, replyMsg, ownVars, memVars>>
      /\ sys' \in {sys, "exited", "undefined"}
      /\ now' = now \/ (now' = now + 1 /\ now < MaxTime)
    BY DEF StartFails, ReceiveFails, Tick, ShowRequest, SocketFails, vars
<1>2. RestOK'
  <2>1. now' \in 0..MaxTime
      BY <1>1, ServerAssumption DEF Inv, RestOK
  <2>. QED
      BY <1>1, <2>1 DEF Inv, RestOK, setupVars, poolVars, ownVars, memVars
<1>3. CacheOK'
    BY <1>1, CacheKept DEF Inv, setupVars, memVars
<1>4. Ledger'
  <2>1. \A w \in Workers : Relayed(w) <=> Relayed(w)'
      BY <1>1 DEF Relayed, ownVars
  <2>. QED
      BY <1>1, <2>1, LedgerKept DEF Inv
<1>5. AtWork'
    BY <1>1 DEF Inv, AtWork, InHandler, Relayed, ownVars, poolVars
<1>. QED
    BY <1>2, <1>3, <1>4, <1>5 DEF Inv

LEMMA ReceiveInv ==
    ASSUME Inv, NEW m \in Asks, Receive(m)
    PROVE  Inv'
<1>. DEFINE n == Len(ask) + 1
<1>1. /\ n \in Requests /\ ask' = Append(ask, m) /\ queue' = Append(queue, n)
      /\ heap' = [heap EXCEPT ![n] = @ \cup {"arg"}]
      /\ UNCHANGED <<setupVars, req, done, sent, pc, replyMsg, ownVars, memVars, now, sys>>
    BY AppendProperties DEF Receive, Malloc, Inv, RestOK
<1>2. /\ ask' \in Seq(Asks) /\ queue' \in Seq(Requests)
      /\ \A r \in 1..Len(ask) : ask'[r] = ask[r]
    BY <1>1, AppendProperties DEF Inv, RestOK
<1>. HIDE DEF n
<1>3. heap' \in [Requests -> SUBSET Blocks]
    BY <1>1 DEF Inv, RestOK, Blocks
<1>4. RestOK'
    BY <1>1, <1>2, <1>3 DEF Inv, RestOK, setupVars, ownVars, memVars
<1>5. CacheOK'
    BY <1>1, CacheKept DEF Inv, setupVars, memVars
<1>6. Ledger'
    BY ReceiveLedger DEF Inv
<1>7. AtWork'
  <2>1. SUFFICES ASSUME NEW w \in Workers
                 PROVE  InHandler(w)'
      BY DEF AtWork
  <2>2. InHandler(w)
      BY DEF Inv, AtWork
  <2>3. req[w] # NoRequest => req[w] \in 1..Len(ask)
    <3>1. \A r \in Requests : r \in Nat \ {0}
        BY ServerAssumption, FS_CardinalityType
    <3>2. Len(ask) \in Nat
        BY LenProperties DEF Inv, RestOK
    <3>. QED
        BY <3>1, <3>2 DEF Inv, RestOK, Ledger, Arrived
  <2>4. req[w] # NoRequest => ask'[req[w]] = ask[req[w]]
      BY <1>2, <2>3
  <2>. QED
      BY <1>1, <2>2, <2>4 DEF InHandler, Relayed, ownVars
<1>. QED
    BY <1>4, <1>5, <1>6, <1>7 DEF Inv

LEMMA TakeInv ==
    ASSUME Inv, NEW w \in Workers, Take(w)
    PROVE  Inv'
<1>. DEFINE n == Head(queue)
<1>1. /\ queue # <<>> /\ queue' = Tail(queue) /\ pc[w] = "idle"
      /\ req' = [req EXCEPT ![w] = n]
      /\ heap' = [heap EXCEPT ![n] = @ \cup {"msg"}]
      /\ replyMsg' = [replyMsg EXCEPT ![w] = Prepared(foreignEncode(ask[n]))]
      /\ pc' = [pc EXCEPT ![w] = pc'[w]] /\ pc'[w] \in {"get", "relay"}
      /\ UNCHANGED <<setupVars, done, ask, sent, ownVars, memVars, now, sys>>
    BY DEF Take, At, Malloc, Goto, Inv, RestOK
<1>2. n \in Requests /\ Tail(queue) \in Seq(Requests)
    BY <1>1, ElementsOfTail DEF Inv, RestOK
<1>. HIDE DEF n
<1>3. RestOK'
  <2>1. heap' \in [Requests -> SUBSET Blocks]
      BY <1>1, <1>2 DEF Inv, RestOK, Blocks
  <2>. QED
      BY <1>1, <1>2, <2>1 DEF Inv, RestOK, setupVars, ownVars, memVars
<1>4. CacheOK'
    BY <1>1, CacheKept DEF Inv, setupVars, memVars
<1>5. Ledger'
    BY TakeLedger DEF Inv
<1>6. InHandler(w)'
  <2>1. items[w] = <<>>
      BY <1>1 DEF Inv, AtWork, InHandler
  <2>2. /\ req'[w] = n /\ n # NoRequest
        /\ replyMsg'[w] = Prepared(foreignEncode(ask[n]))
      BY <1>1, <1>2, ServerAssumption DEF Inv, RestOK
  <2>. QED
      BY <1>1, <2>1, <2>2 DEF InHandler, ownVars
<1>7. AtWork'
    BY <1>1, <1>6, OthersAtWork DEF Inv, RestOK, ownVars
<1>. QED
    BY <1>3, <1>4, <1>5, <1>7 DEF Inv

(* A step within handler: the worker goes on to a point `to' with the      *)
(* items `its', and perhaps allocates memory.                              *)
Moves(w, to, its, blocks) ==
    /\ pc' = [pc EXCEPT ![w] = to]
    /\ DOMAIN items' = Workers /\ items'[w] = its
    /\ \A v \in Workers \ {w} : items'[v] = items[v]
    /\ heap' = [heap EXCEPT ![req[w]] = @ \cup blocks]

LEMMA MoveInv ==
    ASSUME Inv, NEW w \in Workers, pc[w] # "idle", CacheOK',
           NEW to \in {"get", "getCname", "getAlias", "reply", "file",
                      "scan", "relay", "wait", "put", "store"},
           NEW its, NEW blocks \in SUBSET Blocks, Moves(w, to, its, blocks),
           \/ its = <<>> /\ to \notin {"getAlias", "reply"}
           \/ (\E it : its = <<it>>) /\ to \in {"getAlias", "reply", "put", "store"}
           \/ (\E it, tit : its = <<it, tit>>) /\ to = "reply"
           \/ its = items[w] /\ to \in {"put", "store"},
           Relayed(w)' <=> Relayed(w),
           UNCHANGED <<setupVars, poolVars, ask, sent, replyMsg, now>>,
           sys' \in {sys, "undefined"},
           DOMAIN todo' = Workers, DOMAIN ttl' = Workers,
           pos' \in 1..(2 * Len(File) + 1), sockets' \in 0..FdLimit
    PROVE  Inv'
<1>1. req[w] \in Requests
    BY DEF Inv, AtWork, InHandler, RestOK
<1>2. heap' \in [Requests -> SUBSET Blocks]
    BY <1>1 DEF Inv, RestOK, Moves
<1>3. Len(its) \in 0..2
    BY DEF Inv, RestOK
<1>4. RestOK'
  <2>1. pc' \in [Workers -> {"idle", "get", "getCname", "getAlias", "reply", "file",
                            "scan", "relay", "wait", "put", "store"}]
      BY DEF Inv, RestOK, Moves
  <2>2. DOMAIN items' = Workers /\ \A v \in Workers : Len(items'[v]) \in 0..2
      BY <1>3 DEF Inv, RestOK, Moves
  <2>. QED
      BY <1>2, <2>1, <2>2 DEF Inv, RestOK, setupVars, poolVars
<1>5. \A v \in Workers \ {w} : pc'[v] = pc[v] /\ items'[v] = items[v]
    BY DEF Inv, RestOK, Moves
<1>6. Ledger'
  <2>1. \A v \in Workers : Relayed(v) <=> Relayed(v)'
      BY <1>5 DEF Relayed
  <2>. QED
      BY <2>1, LedgerKept DEF Inv
<1>7. InHandler(w)'
  <2>1. pc'[w] = to /\ items'[w] = its
      BY DEF Inv, RestOK, Moves
  <2>2. ~Relayed(w)' => replyMsg[w] = Prepared(foreignEncode(ask[req[w]]))
      BY DEF Inv, AtWork, InHandler
  <2>3. req[w] # NoRequest
      BY <1>1, ServerAssumption
  <2>4. to \in {"get", "getCname", "file", "scan", "relay", "wait"} => its = <<>>
      OBVIOUS
  <2>5. to = "getAlias" => \E it : its = <<it>>
      OBVIOUS
  <2>6. to = "reply" => \E it : its = <<it>> \/ \E tit : its = <<it, tit>>
      OBVIOUS
  <2>. QED
      BY <2>1, <2>2, <2>3, <2>4, <2>5, <2>6 DEF InHandler, poolVars
<1>8. AtWork'
    BY <1>5, <1>7, OthersAtWork DEF Inv, poolVars
<1>. QED
    BY <1>4, <1>6, <1>8 DEF Inv

(* The three looks into the cache end in a step of this kind. *)
LEMMA LookInv ==
    ASSUME Inv, NEW w \in Workers, pc[w] \in {"get", "getCname", "getAlias"},
           NEW name, NEW type, cache' = AfterGet(name, type),
           NEW to, NEW its, NEW blocks \in SUBSET Blocks, Moves(w, to, its, blocks),
           \/ its = <<>> /\ to \in {"getCname", "file", "relay"}
           \/ (\E it : its = <<it>>) /\ to \in {"getAlias", "reply"}
           \/ (\E it, tit : its = <<it, tit>>) /\ to = "reply",
           UNCHANGED <<setupVars, poolVars, ask, sent, replyMsg, todo, ttl, pos,
                       sockets, now, sys>>
    PROVE  Inv'
<1>1. CacheOK'
    BY CacheAfterGet DEF Inv, setupVars
<1>2. Relayed(w)' <=> Relayed(w)
    BY DEF Relayed, Moves, Inv, RestOK
<1>3. /\ DOMAIN todo' = Workers /\ DOMAIN ttl' = Workers
      /\ pos' \in 1..(2 * Len(File) + 1) /\ sockets' \in 0..FdLimit
    BY DEF Inv, RestOK
<1>4. /\ pc[w] # "idle"
      /\ to \in {"get", "getCname", "getAlias", "reply", "file", "scan", "relay", "wait",
                 "put", "store"}
      /\ \/ its = <<>> /\ to \notin {"getAlias", "reply"}
         \/ (\E it : its = <<it>>) /\ to \in {"getAlias", "reply", "put", "store"}
         \/ (\E it, tit : its = <<it, tit>>) /\ to = "reply"
         \/ its = items[w] /\ to \in {"put", "store"}
    OBVIOUS
<1>. QED
    BY <1>1, <1>2, <1>3, <1>4, MoveInv

(* How the actions say it. *)
LEMMA MoveFacts ==
    ASSUME Inv, NEW w \in Workers, pc[w] # "idle", NEW to, Goto(w, to)
    PROVE  /\ \A its, blocks :
                 items' = [items EXCEPT ![w] = its] /\ Malloc(req[w], blocks) =>
                     Moves(w, to, its, blocks)
           /\ \A its : items' = [items EXCEPT ![w] = its] /\ UNCHANGED heap =>
                     Moves(w, to, its, {})
           /\ UNCHANGED <<items, heap>> => Moves(w, to, items[w], {})
<1>1. req[w] \in Requests
    BY DEF Inv, AtWork, InHandler, RestOK
<1>2. heap = [heap EXCEPT ![req[w]] = @ \cup {}]
    BY <1>1 DEF Inv, RestOK
<1>. QED
    BY <1>2 DEF Moves, Goto, Malloc, Inv, RestOK

LEMMA GetItemInv ==
    ASSUME Inv, NEW w \in Workers, GetItem(w)
    PROVE  Inv'
<1>. DEFINE q == Question(w)
<1>1. /\ pc[w] = "get" /\ items[w] = <<>> /\ cache' = AfterGet(q.name, q.type)
      /\ UNCHANGED <<setupVars, poolVars, ask, sent, replyMsg, todo, ttl, pos, sockets, now, sys>>
    BY DEF GetItem, At, Inv, AtWork, InHandler
<1>2. \/ \E it : /\ items' = [items EXCEPT ![w] = <<it>>] /\ Malloc(req[w], {"it"})
                 /\ Goto(w, "reply")
      \/ /\ Goto(w, IF q.type = "A" THEN "getCname" ELSE "relay")
         /\ UNCHANGED <<items, heap>>
    BY DEF GetItem
<1>3. {"it"} \in SUBSET Blocks /\ {} \in SUBSET Blocks
    BY DEF Blocks
<1>4. CASE \E it : /\ items' = [items EXCEPT ![w] = <<it>>] /\ Malloc(req[w], {"it"})
                   /\ Goto(w, "reply")
  <2>1. PICK it : /\ items' = [items EXCEPT ![w] = <<it>>] /\ Malloc(req[w], {"it"})
                  /\ Goto(w, "reply")
      BY <1>4
  <2>2. Moves(w, "reply", <<it>>, {"it"})
      BY <1>1, <2>1, MoveFacts
  <2>. QED
      BY <1>1, <1>3, <2>2, LookInv
<1>5. CASE /\ Goto(w, IF q.type = "A" THEN "getCname" ELSE "relay")
           /\ UNCHANGED <<items, heap>>
  <2>1. PICK to \in {"getCname", "relay"} : Goto(w, to)
      BY <1>5
  <2>2. Moves(w, to, <<>>, {})
      BY <1>1, <1>5, <2>1, MoveFacts
  <2>. QED
      BY <1>1, <1>3, <2>2, LookInv
<1>. QED
    BY <1>2, <1>4, <1>5

LEMMA GetCnameInv ==
    ASSUME Inv, NEW w \in Workers, GetCname(w)
    PROVE  Inv'
<1>1. /\ pc[w] = "getCname" /\ items[w] = <<>>
      /\ cache' = AfterGet(Question(w).name, "CNAME")
      /\ UNCHANGED <<setupVars, poolVars, ask, sent, replyMsg, todo, ttl, pos, sockets, now, sys>>
    BY DEF GetCname, At, Inv, AtWork, InHandler
<1>2. \/ \E it : /\ items' = [items EXCEPT ![w] = <<it>>] /\ Malloc(req[w], {"it"})
                 /\ Goto(w, "getAlias")
      \/ Goto(w, "file") /\ UNCHANGED <<items, heap>>
    BY DEF GetCname
<1>3. {"it"} \in SUBSET Blocks /\ {} \in SUBSET Blocks
    BY DEF Blocks
<1>4. CASE \E it : /\ items' = [items EXCEPT ![w] = <<it>>] /\ Malloc(req[w], {"it"})
                   /\ Goto(w, "getAlias")
  <2>1. PICK it : /\ items' = [items EXCEPT ![w] = <<it>>] /\ Malloc(req[w], {"it"})
                  /\ Goto(w, "getAlias")
      BY <1>4
  <2>2. Moves(w, "getAlias", <<it>>, {"it"})
      BY <1>1, <2>1, MoveFacts
  <2>. QED
      BY <1>1, <1>3, <2>2, LookInv
<1>5. CASE Goto(w, "file") /\ UNCHANGED <<items, heap>>
  <2>1. Moves(w, "file", <<>>, {})
      BY <1>1, <1>5, MoveFacts
  <2>. QED
      BY <1>1, <1>3, <2>1, LookInv
<1>. QED
    BY <1>2, <1>4, <1>5

LEMMA GetAliasInv ==
    ASSUME Inv, NEW w \in Workers, GetAlias(w)
    PROVE  Inv'
<1>. DEFINE target == items[w][1].vals[1]
<1>1. /\ pc[w] = "getAlias" /\ cache' = AfterGet(target, "A")
      /\ UNCHANGED <<setupVars, poolVars, ask, sent, replyMsg, todo, ttl, pos, sockets, now, sys>>
    BY DEF GetAlias, At
<1>2. PICK it : items[w] = <<it>>
    BY <1>1 DEF Inv, AtWork, InHandler
<1>3. \/ \E tit : /\ items' = [items EXCEPT ![w] = Append(items[w], tit)]
                  /\ Malloc(req[w], {"tit"}) /\ Goto(w, "reply")
      \/ items' = [items EXCEPT ![w] = <<>>] /\ Goto(w, "file") /\ UNCHANGED heap
    BY DEF GetAlias
<1>4. {"tit"} \in SUBSET Blocks /\ {} \in SUBSET Blocks
    BY DEF Blocks
<1>5. CASE \E tit : /\ items' = [items EXCEPT ![w] = Append(items[w], tit)]
                    /\ Malloc(req[w], {"tit"}) /\ Goto(w, "reply")
  <2>1. PICK tit : /\ items' = [items EXCEPT ![w] = Append(items[w], tit)]
                   /\ Malloc(req[w], {"tit"}) /\ Goto(w, "reply")
      BY <1>5
  <2>2. Append(items[w], tit) = <<it, tit>>
      BY <1>2, AppendToOne
  <2>3. Moves(w, "reply", <<it, tit>>, {"tit"})
      BY <1>1, <2>1, <2>2, MoveFacts
  <2>. QED
      BY <1>1, <1>4, <2>3, LookInv
<1>6. CASE items' = [items EXCEPT ![w] = <<>>] /\ Goto(w, "file") /\ UNCHANGED heap
  <2>1. Moves(w, "file", <<>>, {})
      BY <1>1, <1>6, MoveFacts
  <2>. QED
      BY <1>1, <1>4, <2>1, LookInv
<1>. QED
    BY <1>3, <1>5, <1>6

(* The last line of a domain is a line of the file. *)
LEMMA IndexRange ==
    ASSUME NEW name, Lines(name) # {}
    PROVE  Index(name) \in 1..(2 * Len(File) + 1)
<1>1. Len(File) \in Nat /\ Lines(name) \in SUBSET (1..Len(File))
    BY ServerAssumption, LenProperties DEF Lines
<1>2. \E x \in Lines(name) : \A y \in Lines(name) : x >= y
    BY <1>1, LargestElement
<1>3. Max(Lines(name)) \in Lines(name)
    BY <1>2 DEF Max
<1>. QED
    BY <1>1, <1>3 DEF Index

LEMMA SeekInv ==
    ASSUME Inv, NEW w \in Workers, Seek(w)
    PROVE  Inv'
<1>1. /\ pc[w] = "file" /\ items[w] = <<>>
      /\ UNCHANGED <<setupVars, poolVars, ask, sent, heap, replyMsg, ownVars, cache, sockets,
                     now, sys>>
    BY DEF Seek, At, Inv, AtWork, InHandler
<1>2. PICK to \in {"relay", "scan"} : Goto(w, to)
    BY DEF Seek
<1>3. pos' \in 1..(2 * Len(File) + 1)
    BY IndexRange DEF Seek, Inv, RestOK
<1>4. Moves(w, to, <<>>, {})
    BY <1>1, <1>2, MoveFacts DEF ownVars
<1>5. CacheOK'
    BY <1>1, CacheKept DEF Inv, setupVars
<1>6. Relayed(w)' <=> Relayed(w)
    BY <1>1, <1>2 DEF Relayed, Goto, Inv, RestOK
<1>7. DOMAIN todo' = Workers /\ DOMAIN ttl' = Workers /\ sockets' \in 0..FdLimit
    BY <1>1 DEF Inv, RestOK, ownVars
<1>8. {} \in SUBSET Blocks
    OBVIOUS
<1>. QED
    BY <1>1, <1>3, <1>4, <1>5, <1>6, <1>7, <1>8, MoveInv

LEMMA ScanInv ==
    ASSUME Inv, NEW w \in Workers, Scan(w)
    PROVE  Inv'
<1>1. /\ pc[w] = "scan" /\ Goto(w, "put") /\ Malloc(req[w], {"data"})
      /\ pos' = IF pos <= 2 * Len(File) THEN pos + 1 ELSE pos
      /\ UNCHANGED <<setupVars, poolVars, ask, sent, replyMsg, ttl, cache, sockets, now>>
      /\ sys = "up" /\ sys' \in {sys, "undefined"}
    BY DEF Scan, At
<1>2. PICK tmp : /\ items' = [items EXCEPT ![w] = <<tmp>>]
                 /\ todo' = [todo EXCEPT ![w] = <<tmp>>]
    BY DEF Scan
<1>3. Moves(w, "put", <<tmp>>, {"data"})
    BY <1>1, <1>2, MoveFacts
<1>4. pos' \in 1..(2 * Len(File) + 1)
  <2>1. Len(File) \in Nat
      BY ServerAssumption, LenProperties
  <2>. QED
      BY <1>1, <2>1 DEF Inv, RestOK
<1>5. CacheOK'
    BY <1>1, CacheKept DEF Inv, setupVars
<1>6. Relayed(w)' <=> Relayed(w)
    BY <1>1, <1>2 DEF Relayed, Goto, Inv, RestOK
<1>7. DOMAIN todo' = Workers /\ DOMAIN ttl' = Workers /\ sockets' \in 0..FdLimit
    BY <1>1, <1>2 DEF Inv, RestOK
<1>8. {"data"} \in SUBSET Blocks
    BY DEF Blocks
<1>. QED
    BY <1>1, <1>3, <1>4, <1>5, <1>6, <1>7, <1>8, MoveInv

LEMMA SendQueryInv ==
    ASSUME Inv, NEW w \in Workers, SendQuery(w)
    PROVE  Inv'
<1>1. /\ pc[w] = "relay" /\ items[w] = <<>> /\ Goto(w, "wait")
      /\ sockets < FdLimit /\ sockets' = sockets + 1
      /\ UNCHANGED <<setupVars, poolVars, ask, sent, heap, replyMsg, ownVars, cache, pos, now, sys>>
    BY DEF SendQuery, At, Inv, AtWork, InHandler
<1>2. Moves(w, "wait", <<>>, {})
    BY <1>1, MoveFacts DEF ownVars
<1>3. sockets' \in 0..FdLimit
    BY <1>1, ServerAssumption DEF Inv, RestOK
<1>4. CacheOK'
    BY <1>1, CacheKept DEF Inv, setupVars
<1>5. Relayed(w)' <=> Relayed(w)
    BY <1>1 DEF Relayed, Goto, Inv, RestOK
<1>6. DOMAIN todo' = Workers /\ DOMAIN ttl' = Workers /\ pos' \in 1..(2 * Len(File) + 1)
    BY <1>1 DEF Inv, RestOK, ownVars
<1>7. {} \in SUBSET Blocks
    OBVIOUS
<1>. QED
    BY <1>1, <1>2, <1>3, <1>4, <1>5, <1>6, <1>7, MoveInv

LEMMA PutItemInv ==
    ASSUME Inv, NEW w \in Workers, PutItem(w)
    PROVE  Inv'
<1>1. /\ pc[w] = "put" /\ Goto(w, "store")
      /\ UNCHANGED <<setupVars, poolVars, ask, sent, heap, replyMsg, items, todo, memVars, now, sys>>
    BY DEF PutItem, At
<1>2. Moves(w, "store", items[w], {})
    BY <1>1, MoveFacts
<1>3. CacheOK'
    BY <1>1, CacheKept DEF Inv, setupVars, memVars
<1>4. Relayed(w)' <=> Relayed(w)
    BY <1>1 DEF Relayed, Goto, Inv, RestOK
<1>5. /\ DOMAIN todo' = Workers /\ DOMAIN ttl' = Workers
      /\ pos' \in 1..(2 * Len(File) + 1) /\ sockets' \in 0..FdLimit
    BY <1>1 DEF PutItem, Inv, RestOK, memVars
<1>6. {} \in SUBSET Blocks
    OBVIOUS
<1>. QED
    BY <1>1, <1>2, <1>3, <1>4, <1>5, <1>6, MoveInv

LEMMA CachePutInv ==
    ASSUME Inv, NEW w \in Workers, CachePut(w)
    PROVE  Inv'
<1>. DEFINE it    == Head(todo[w])
            entry == [item |-> it, saveTime |-> now, TTL |-> ttl[w]]
<1>1. /\ pc[w] = "store" /\ Goto(w, "put")
      /\ UNCHANGED <<setupVars, poolVars, ask, sent, heap, replyMsg, items, pos, sockets, now, sys>>
    BY DEF CachePut, At
<1>2. Moves(w, "put", items[w], {})
    BY <1>1, MoveFacts
<1>3. CacheOK'
  <2>1. PICK out \in Losers(<<it.name, it.type>>) :
           cache' = [cache EXCEPT ![out] = NoEntry, ![<<it.name, it.type>>] = entry]
      BY DEF CachePut
  <2>2. entry.item = it /\ entry.saveTime = now
      OBVIOUS
  <2>. HIDE DEF it, entry
  <2>. QED
      BY <1>1, <2>1, <2>2, CacheAfterPut DEF Inv, setupVars
<1>4. Relayed(w)' <=> Relayed(w)
    BY <1>1 DEF Relayed, Goto, Inv, RestOK
<1>5. /\ DOMAIN todo' = Workers /\ DOMAIN ttl' = Workers
      /\ pos' \in 1..(2 * Len(File) + 1) /\ sockets' \in 0..FdLimit
    BY <1>1 DEF CachePut, Inv, RestOK
<1>6. {} \in SUBSET Blocks
    OBVIOUS
<1>. QED
    BY <1>1, <1>2, <1>3, <1>4, <1>5, <1>6, MoveInv

(* A step that ends handler with a reply. *)
LEMMA ReplyInv ==
    ASSUME Inv, NEW w \in Workers, pc[w] # "idle", ~Relayed(w), Return(w),
           NEW msg, Send(w, msg), Header(ask[req[w]], Apply(Read, encode(msg))),
           NEW blocks, Free(req[w], blocks),
           items' = [items EXCEPT ![w] = <<>>] \/ (UNCHANGED items /\ items[w] = <<>>),
           sockets' \in 0..FdLimit,
           UNCHANGED <<setupVars, ask, todo, ttl, cache, pos, now, sys>>
    PROVE  Inv'
<1>1. /\ done' = done \cup {req[w]} /\ req' = [req EXCEPT ![w] = NoRequest]
      /\ replyMsg' = [replyMsg EXCEPT ![w] = NoMsg] /\ pc' = [pc EXCEPT ![w] = "idle"]
      /\ UNCHANGED queue
    BY DEF Return, Goto
<1>2. req[w] \in Requests
    BY DEF Inv, AtWork, InHandler, RestOK
<1>3. /\ DOMAIN items' = Workers /\ items'[w] = <<>>
      /\ \A v \in Workers \ {w} : items'[v] = items[v]
    BY DEF Inv, RestOK
<1>4. RestOK'
  <2>1. heap' \in [Requests -> SUBSET Blocks]
      BY <1>2 DEF Free, Inv, RestOK
  <2>2. DOMAIN sent' = Requests
      BY DEF Send, Deliver, Inv, RestOK
  <2>3. \A v \in Workers : Len(items'[v]) \in 0..2
      BY <1>3 DEF Inv, RestOK
  <2>4. /\ pc' \in [Workers -> {"idle", "get", "getCname", "getAlias", "reply", "file",
                               "scan", "relay", "wait", "put", "store"}]
        /\ req' \in [Workers -> Requests \cup {NoRequest}]
        /\ done' \subseteq Requests /\ DOMAIN replyMsg' = Workers
      BY <1>1, <1>2 DEF Inv, RestOK
  <2>. QED
      BY <1>1, <1>3, <2>1, <2>2, <2>3, <2>4 DEF Inv, RestOK, setupVars
<1>5. CacheOK'
    BY CacheKept DEF Inv, setupVars
<1>6. Ledger'
  <2>1. \A v \in Workers \ {w} : Relayed(v)' <=> Relayed(v)
      BY <1>1, <1>3 DEF Relayed, Inv, RestOK
  <2>. QED
      BY <1>1, <2>1, SendLedger DEF Inv, Send
<1>7. InHandler(w)'
    BY <1>1, <1>3 DEF InHandler, Inv, RestOK
<1>8. AtWork'
    BY <1>1, <1>3, <1>7, OthersAtWork DEF Inv, RestOK
<1>. QED
    BY <1>4, <1>5, <1>6, <1>8 DEF Inv

(* The question a worker handles and the message it prepares. *)
LEMMA AtHand ==
    ASSUME Inv, NEW w \in Workers, pc[w] # "idle", ~Relayed(w)
    PROVE  /\ ask[req[w]] \in Asks
           /\ replyMsg[w] = Prepared(foreignEncode(ask[req[w]]))
<1>1. req[w] \in Requests /\ req[w] <= Len(ask)
    BY ServerAssumption DEF Inv, AtWork, InHandler, RestOK, Ledger, Arrived
<1>2. req[w] \in 1..Len(ask)
    BY <1>1, ServerAssumption, FS_CardinalityType, LenProperties DEF Inv, RestOK
<1>. QED
    BY <1>2, ElementOfSeq DEF Inv, RestOK, AtWork, InHandler

LEMMA ReplyFoundInv ==
    ASSUME Inv, NEW w \in Workers, Reply(w) \/ ReplyLocal(w)
    PROVE  Inv'
<1>1. /\ pc[w] # "idle" /\ ~Relayed(w) /\ Return(w) /\ Send(w, Filled(w))
      /\ items' = [items EXCEPT ![w] = <<>>]
      /\ UNCHANGED <<setupVars, ask, todo, ttl, memVars, now, sys>>
    BY DEF Reply, ReplyLocal, At, Relayed
<1>2. \E blocks : Free(req[w], blocks)
    BY DEF Reply, ReplyLocal
<1>3. Header(ask[req[w]], Apply(Read, encode(Filled(w))))
    BY <1>1, AtHand, FilledHeader
<1>4. /\ sockets' \in 0..FdLimit
      /\ UNCHANGED <<setupVars, ask, todo, ttl, cache, pos, now, sys>>
    BY <1>1 DEF Inv, RestOK, memVars
<1>. QED
    BY <1>1, <1>2, <1>3, <1>4, ReplyInv

LEMMA ReplyFailedInv ==
    ASSUME Inv, NEW w \in Workers, SendFails(w) \/ RecvTimeout(w)
    PROVE  Inv'
<1>1. /\ pc[w] \in {"relay", "wait"} /\ Return(w) /\ Send(w, Failed(w))
      /\ Free(req[w], {"msg", "arg"})
      /\ UNCHANGED <<setupVars, ask, ownVars, cache, pos, now, sys>>
      /\ sockets' = sockets \/ (sockets < FdLimit /\ sockets' = sockets + 1)
    BY DEF SendFails, RecvTimeout, At, memVars
<1>2. pc[w] # "idle" /\ ~Relayed(w) /\ items[w] = <<>>
    BY <1>1 DEF Relayed, Inv, AtWork, InHandler
<1>3. Header(ask[req[w]], Apply(Read, encode(Failed(w))))
    BY <1>2, AtHand, FailedHeader
<1>4. sockets' \in 0..FdLimit
    BY <1>1, ServerAssumption DEF Inv, RestOK
<1>5. UNCHANGED <<setupVars, ask, todo, ttl, cache, pos, now, sys>> /\ UNCHANGED items
    BY <1>1 DEF ownVars
<1>. QED
    BY <1>1, <1>2, <1>3, <1>4, <1>5, ReplyInv

LEMMA RecvAnswerInv ==
    ASSUME Inv, NEW w \in Workers, RecvAnswer(w), sockets > 0
    PROVE  Inv'
<1>1. /\ sys = "up" /\ pc[w] = "wait" /\ sockets' = sockets - 1
      /\ pc' = [pc EXCEPT ![w] = "put"]
      /\ replyMsg' = [replyMsg EXCEPT ![w] = NoMsg]
      /\ heap' = [heap EXCEPT ![req[w]] = @ \ {"msg", "arg"}]
      /\ UNCHANGED <<setupVars, poolVars, ask, items, ttl, cache, pos, now>>
    BY DEF RecvAnswer, At, Close, Free, Goto
<1>2. PICK said \in Said(ask[req[w]]) : Deliver(w, Apply(Passed, foreignEncode(said)))
    BY DEF RecvAnswer
<1>3. DOMAIN todo' = Workers
    BY DEF RecvAnswer, Inv, RestOK
<1>4. sys' \in {"up", "undefined"}
    BY DEF RecvAnswer
<1>5. /\ items[w] = <<>> /\ ~Relayed(w) /\ Relayed(w)'
      /\ \A v \in Workers \ {w} : Relayed(v)' <=> Relayed(v)
    BY <1>1 DEF Relayed, Inv, AtWork, InHandler, RestOK
<1>6. ask[req[w]] \in Asks
    BY <1>1, <1>5, AtHand
<1>7. Header(ask[req[w]], Apply(Passed, foreignEncode(said)))
    BY <1>6, SaidHeader
<1>8. req[w] \in Requests
    BY <1>1 DEF Inv, AtWork, InHandler, RestOK
<1>9. RestOK'
  <2>1. heap' \in [Requests -> SUBSET Blocks]
      BY <1>1, <1>8 DEF Inv, RestOK
  <2>2. DOMAIN sent' = Requests
      BY <1>2 DEF Deliver, Inv, RestOK
  <2>3. sockets' \in 0..FdLimit
      BY <1>1, ServerAssumption DEF Inv, RestOK
  <2>. QED
      BY <1>1, <1>3, <1>4, <2>1, <2>2, <2>3 DEF Inv, RestOK, setupVars, poolVars
<1>10. CacheOK'
    BY <1>1, <1>4, CacheKept DEF Inv, setupVars
<1>11. Ledger'
    BY <1>1, <1>2, <1>5, <1>7, SendLedger DEF Inv, poolVars
<1>12. InHandler(w)'
    BY <1>1, <1>5, <1>8, ServerAssumption DEF InHandler, Inv, RestOK, poolVars
<1>13. AtWork'
    BY <1>1, <1>12, OthersAtWork DEF Inv, RestOK, poolVars
<1>. QED
    BY <1>9, <1>10, <1>11, <1>13 DEF Inv

LEMMA PutDoneInv ==
    ASSUME Inv, NEW w \in Workers, PutDone(w)
    PROVE  Inv'
<1>1. /\ pc[w] = "put" /\ items[w] = <<>>
      /\ done' = done \cup {req[w]} /\ req' = [req EXCEPT ![w] = NoRequest]
      /\ replyMsg' = [replyMsg EXCEPT ![w] = NoMsg] /\ pc' = [pc EXCEPT ![w] = "idle"]
      /\ UNCHANGED <<queue, setupVars, ask, sent, heap, ownVars, memVars, now, sys>>
    BY DEF PutDone, At, Return, Goto
<1>2. req[w] \in Requests
    BY <1>1 DEF Inv, AtWork, InHandler, RestOK
<1>3. RestOK'
    BY <1>1, <1>2 DEF Inv, RestOK, setupVars, ownVars, memVars
<1>4. CacheOK'
    BY <1>1, CacheKept DEF Inv, setupVars, memVars
<1>5. Ledger'
    BY PutDoneLedger DEF Inv
<1>6. InHandler(w)'
    BY <1>1 DEF InHandler, Inv, RestOK, ownVars
<1>7. AtWork'
    BY <1>1, <1>6, OthersAtWork DEF Inv, RestOK, ownVars
<1>. QED
    BY <1>3, <1>4, <1>5, <1>7 DEF Inv

-----------------------------------------------------------------------------
(* The sockets.  A step changes the number of sockets by what it changes   *)
(* of the waiting workers and the failed requests.                         *)
Waiting   == {w \in Workers : pc[w] = "wait"}
FailedOnes == {r \in Requests : Rcode(r) = {Bits(SERVER_FAILURE)}}

LEMMA SocketsCounted ==
    /\ SocketsAccounted <=> sockets = Cardinality(Waiting) + Cardinality(FailedOnes)
    /\ SocketsAccounted' <=> sockets' = Cardinality(Waiting') + Cardinality(FailedOnes')
    BY DEF SocketsAccounted, Waiting, FailedOnes

LEMMA SocketSets ==
    /\ IsFiniteSet(Waiting) /\ Cardinality(Waiting) \in Nat
    /\ IsFiniteSet(FailedOnes) /\ Cardinality(FailedOnes) \in Nat
<1>1. Waiting \in SUBSET Workers /\ FailedOnes \in SUBSET Requests
    BY DEF Waiting, FailedOnes
<1>. QED
    BY <1>1, ServerAssumption, FS_Subset, FS_CardinalityType

(* A worker that waits has its socket. *)
LEMMA WaiterHasSocket ==
    ASSUME SocketsAccounted, NEW w \in Workers, pc[w] = "wait"
    PROVE  sockets > 0
<1>1. Waiting # {}
    BY DEF Waiting
<1>2. Cardinality(Waiting) # 0
    BY <1>1, SocketSets, FS_EmptySet
<1>. QED
    BY <1>2, SocketSets, SocketsCounted

(* The response code of a request, before and after its only reply. *)
LEMMA RcodeOf ==
    ASSUME NEW r, NEW m
    PROVE  /\ sent[r] = <<>> => Rcode(r) = {}
           /\ sent[r] = <<m>> => Rcode(r) = {RcodeBits(m.flag)}
<1>1. sent[r] = <<>> => Sent(r) = {}
    BY DEF Sent, ToSet
<1>2. sent[r] = <<m>> => Sent(r) = {m}
    BY DEF Sent, ToSet
<1>. QED
    BY <1>1, <1>2 DEF Rcode

(* One reply makes one request fail, or none. *)
LEMMA SendFailedOnes ==
    ASSUME RestOK, NEW n \in Requests, sent[n] = <<>>, NEW m,
           sent' = [sent EXCEPT ![n] = Append(@, m)]
    PROVE  /\ n \notin FailedOnes
           /\ FailedOnes' = IF RcodeBits(m.flag) = Bits(SERVER_FAILURE)
                            THEN FailedOnes \cup {n} ELSE FailedOnes
<1>1. sent'[n] = <<m>> /\ \A r \in Requests : r # n => sent'[r] = sent[r]
    BY DEF RestOK
<1>2. Rcode(n) = {} /\ Rcode(n)' = {RcodeBits(m.flag)}
  <2>1. Rcode(n) = {}
      BY RcodeOf
  <2>2. Sent(n)' = {m}
      BY <1>1 DEF Sent, ToSet
  <2>. QED
      BY <2>1, <2>2 DEF Rcode
<1>3. \A r \in Requests : r # n => Rcode(r)' = Rcode(r)
    BY <1>1 DEF Rcode, Sent, ToSet
<1>4. n \notin FailedOnes
    BY <1>2 DEF FailedOnes
<1>5. \A r \in Requests : r \in FailedOnes' <=>
         IF r = n THEN RcodeBits(m.flag) = Bits(SERVER_FAILURE) ELSE r \in FailedOnes
    BY <1>2, <1>3 DEF FailedOnes
<1>. QED
    BY <1>4, <1>5 DEF FailedOnes

(* A step of one worker that sends nothing, opens and closes nothing. *)
LEMMA SocketsKept ==
    ASSUME SocketsAccounted, RestOK, UNCHANGED <<sent, sockets>>,
           \A w \in Workers : pc'[w] = "wait" <=> pc[w] = "wait"
    PROVE  SocketsAccounted'
<1>1. Waiting' = Waiting
    BY DEF Waiting
<1>2. FailedOnes' = FailedOnes
    BY DEF FailedOnes, Rcode, Sent
<1>. QED
    BY <1>1, <1>2, SocketsCounted

LEMMA SendQuerySockets ==
    ASSUME Inv, SocketsAccounted, NEW w \in Workers, SendQuery(w)
    PROVE  SocketsAccounted'
<1>1. /\ pc[w] = "relay" /\ pc' = [pc EXCEPT ![w] = "wait"]
      /\ sockets' = sockets + 1 /\ UNCHANGED sent
    BY DEF SendQuery, At, Goto
<1>2. Waiting' = Waiting \cup {w} /\ w \notin Waiting
    BY <1>1 DEF Waiting, Inv, RestOK
<1>3. Cardinality(Waiting') = Cardinality(Waiting) + 1
    BY <1>2, SocketSets, FS_AddElement
<1>4. FailedOnes' = FailedOnes
    BY <1>1 DEF FailedOnes, Rcode, Sent
<1>. QED
    BY <1>1, <1>3, <1>4, SocketSets, SocketsCounted

(* The reply a worker sends is the first. *)
LEMMA NothingSent ==
    ASSUME Inv, NEW w \in Workers, pc[w] # "idle", ~Relayed(w)
    PROVE  req[w] \in Requests /\ sent[req[w]] = <<>>
<1>1. req[w] \in Requests
    BY DEF Inv, AtWork, InHandler, RestOK
<1>. QED
    BY <1>1 DEF Inv, Ledger, OneReply

LEMMA ReplyFoundSockets ==
    ASSUME Inv, SocketsAccounted, NEW w \in Workers, Reply(w) \/ ReplyLocal(w)
    PROVE  SocketsAccounted'
<1>. DEFINE m == Apply(Read, encode(Filled(w)))
<1>1. /\ pc[w] \notin {"idle", "wait"} /\ ~Relayed(w) /\ pc' = [pc EXCEPT ![w] = "idle"]
      /\ sent' = [sent EXCEPT ![req[w]] = Append(@, m)] /\ UNCHANGED sockets
    BY DEF Reply, ReplyLocal, At, Relayed, Return, Goto, Send, Deliver, memVars
<1>2. RcodeBits(m.flag) # Bits(SERVER_FAILURE)
    BY <1>1, AtHand, FilledHeader
<1>. HIDE DEF m
<1>3. FailedOnes' = FailedOnes
    BY <1>1, <1>2, NothingSent, SendFailedOnes DEF Inv
<1>4. Waiting' = Waiting
    BY <1>1 DEF Waiting, Inv, RestOK
<1>. QED
    BY <1>1, <1>3, <1>4, SocketsCounted

LEMMA ReplyFailedSockets ==
    ASSUME Inv, SocketsAccounted, NEW w \in Workers, SendFails(w) \/ RecvTimeout(w)
    PROVE  SocketsAccounted'
<1>. DEFINE m == Apply(Read, encode(Failed(w)))
            n == req[w]
<1>1. /\ pc[w] \in {"relay", "wait"} /\ pc' = [pc EXCEPT ![w] = "idle"]
      /\ sent' = [sent EXCEPT ![n] = Append(@, m)]
      /\ sockets' = IF pc[w] = "wait" THEN sockets ELSE sockets + 1
    BY DEF SendFails, RecvTimeout, At, Return, Goto, Send, Deliver, memVars
<1>2. pc[w] # "idle" /\ ~Relayed(w)
    BY <1>1 DEF Relayed
<1>3. RcodeBits(m.flag) = Bits(SERVER_FAILURE)
    BY <1>2, AtHand, FailedHeader
<1>4. n \in Requests /\ sent[n] = <<>>
    BY <1>2, NothingSent
<1>. HIDE DEF m, n
<1>5. FailedOnes' = FailedOnes \cup {n} /\ n \notin FailedOnes
    BY <1>1, <1>3, <1>4, SendFailedOnes DEF Inv
<1>6. Cardinality(FailedOnes') = Cardinality(FailedOnes) + 1
    BY <1>5, SocketSets, FS_AddElement
<1>7. Waiting' = Waiting \ {w} /\ (w \in Waiting <=> pc[w] = "wait")
    BY <1>1 DEF Waiting, Inv, RestOK
<1>8. Cardinality(Waiting') = IF pc[w] = "wait" THEN Cardinality(Waiting) - 1
                              ELSE Cardinality(Waiting)
    BY <1>7, SocketSets, FS_RemoveElement
<1>. QED
    BY <1>1, <1>6, <1>8, SocketSets, SocketsCounted

LEMMA RecvAnswerSockets ==
    ASSUME Inv, SocketsAccounted, NEW w \in Workers, RecvAnswer(w)
    PROVE  SocketsAccounted'
<1>1. pc[w] = "wait" /\ pc' = [pc EXCEPT ![w] = "put"] /\ sockets' = sockets - 1
    BY DEF RecvAnswer, At, Goto, Close
<1>2. PICK said \in Said(ask[req[w]]) : Deliver(w, Apply(Passed, foreignEncode(said)))
    BY DEF RecvAnswer
<1>. DEFINE m == Apply(Passed, foreignEncode(said))
            n == req[w]
<1>3. pc[w] # "idle" /\ ~Relayed(w)
    BY <1>1 DEF Relayed
<1>4. RcodeBits(m.flag) # Bits(SERVER_FAILURE)
  <2>1. RcodeBits(m.flag) = Bits(NO_ERR)
      BY <1>3, AtHand, SaidHeader
  <2>. QED
      BY <2>1, TwoBits DEF NO_ERR, SERVER_FAILURE
<1>5. n \in Requests /\ sent[n] = <<>>
    BY <1>3, NothingSent
<1>6. sent' = [sent EXCEPT ![n] = Append(@, m)]
    BY <1>2 DEF Deliver
<1>. HIDE DEF m, n
<1>7. FailedOnes' = FailedOnes
    BY <1>4, <1>5, <1>6, SendFailedOnes DEF Inv
<1>8. Waiting' = Waiting \ {w} /\ w \in Waiting
    BY <1>1 DEF Waiting, Inv, RestOK
<1>9. Cardinality(Waiting') = Cardinality(Waiting) - 1
    BY <1>8, SocketSets, FS_RemoveElement
<1>. QED
    BY <1>1, <1>7, <1>9, SocketSets, SocketsCounted

-----------------------------------------------------------------------------
LEMMA InitInv == Init => Inv /\ SocketsAccounted
<1>. SUFFICES ASSUME Init PROVE Inv /\ SocketsAccounted
    OBVIOUS
<1>1. Stored = {}
    BY DEF Init, Stored
<1>2. CacheOK
    BY <1>1, FS_EmptySet DEF Init, CacheOK
<1>3. RestOK
  <2>1. Len(File) \in Nat
      BY ServerAssumption, LenProperties
  <2>2. queue \in Seq(Requests) /\ ask \in Seq(Asks)
      BY DEF Init
  <2>3. 1 \in 1..(2 * Len(File) + 1) /\ 0 \in 0..FdLimit /\ 0 \in 0..MaxTime
      BY <2>1, ServerAssumption
  <2>. QED
      BY <2>2, <2>3 DEF Init, RestOK, Blocks
<1>4. AtWork
    BY DEF Init, AtWork, InHandler
<1>5. Elements(queue) = {} /\ Len(queue) = 0 /\ Len(ask) = 0
    BY DEF Init, Elements
<1>6. Ledger
    BY <1>5, ServerAssumption DEF Init, Ledger, Arrived, OnePlace, OneReply, NoRepeat, Relayed
<1>7. SocketsAccounted
  <2>1. Waiting = {}
      BY DEF Init, Waiting
  <2>2. FailedOnes = {}
      BY RcodeOf DEF Init, FailedOnes
  <2>. QED
      BY <2>1, <2>2, FS_EmptySet, SocketsCounted DEF Init
<1>. QED
    BY <1>2, <1>3, <1>4, <1>6, <1>7 DEF Inv

LEMMA StepInv == Inv /\ SocketsAccounted /\ [Next]_vars => (Inv /\ SocketsAccounted)'
<1>. SUFFICES ASSUME Inv, SocketsAccounted, [Next]_vars
              PROVE  Inv' /\ SocketsAccounted'
    OBVIOUS
<1>0. RestOK
    BY DEF Inv
<1>1. CASE Start
  <2>1. UNCHANGED <<sent, sockets, pc>>
      BY <1>1 DEF Start
  <2>. QED
      BY <1>0, <1>1, <2>1, StartInv, SocketsKept
<1>2. ASSUME NEW m \in Asks, Receive(m)
      PROVE  Inv' /\ SocketsAccounted'
  <2>1. UNCHANGED <<sent, sockets, pc>>
      BY <1>2 DEF Receive, memVars
  <2>. QED
      BY <1>0, <1>2, <2>1, ReceiveInv, SocketsKept
<1>3. CASE \/ UNCHANGED vars \/ StartFails \/ ReceiveFails \/ Tick
           \/ \E w \in Workers : ShowRequest(w) \/ SocketFails(w)
  <2>1. UNCHANGED <<sent, sockets, pc>>
      BY <1>3 DEF StartFails, ReceiveFails, Tick, ShowRequest, SocketFails, vars, memVars
  <2>. QED
      BY <1>0, <1>3, <2>1, OutsideInv, SocketsKept
<1>4. ASSUME NEW w \in Workers, Work(w), ~ShowRequest(w), ~SocketFails(w)
      PROVE  Inv' /\ SocketsAccounted'
  <2>1. CASE Take(w) \/ GetItem(w) \/ GetCname(w) \/ GetAlias(w) \/ Seek(w) \/ Scan(w)
             \/ PutItem(w) \/ CachePut(w) \/ PutDone(w)
    <3>1. Inv'
        BY <2>1, TakeInv, GetItemInv, GetCnameInv, GetAliasInv, SeekInv, ScanInv,
           PutItemInv, CachePutInv, PutDoneInv
    <3>2. UNCHANGED <<sent, sockets>>
        BY <2>1 DEF Take, GetItem, GetCname, GetAlias, Seek, Scan, PutItem, CachePut,
                    PutDone, memVars
    <3>3. \E to : Goto(w, to) /\ to # "wait"
        BY <2>1 DEF Take, GetItem, GetCname, GetAlias, Seek, Scan, PutItem, CachePut,
                    PutDone, Return
    <3>4. pc[w] # "wait"
        BY <2>1 DEF Take, GetItem, GetCname, GetAlias, Seek, Scan, PutItem, CachePut,
                    PutDone, At
    <3>5. \A v \in Workers : pc'[v] = "wait" <=> pc[v] = "wait"
        BY <1>0, <3>3, <3>4 DEF Goto, RestOK
    <3>. QED
        BY <1>0, <3>1, <3>2, <3>5, SocketsKept
  <2>2. CASE Reply(w) \/ ReplyLocal(w)
      BY <2>2, ReplyFoundInv, ReplyFoundSockets
  <2>3. CASE SendQuery(w)
      BY <2>3, SendQueryInv, SendQuerySockets
  <2>4. CASE SendFails(w) \/ RecvTimeout(w)
      BY <2>4, ReplyFailedInv, ReplyFailedSockets
  <2>5. CASE RecvAnswer(w)
    <3>1. sockets > 0
        BY <2>5, WaiterHasSocket DEF RecvAnswer, At
    <3>. QED
        BY <2>5, <3>1, RecvAnswerInv, RecvAnswerSockets
  <2>. QED
      BY <1>4, <2>1, <2>2, <2>3, <2>4, <2>5 DEF Work
<1>. QED
    BY <1>1, <1>2, <1>3, <1>4 DEF Next

(* The inductive invariant. *)
THEOREM Invariance == Spec => [](Inv /\ SocketsAccounted)
<1>. QED
    BY InitInv, StepInv, PTL DEF Spec

(* No buffer, table or counter leaves its range, whatever clients, files   *)
(* and the upstream server do: the cache never holds more than cachesize   *)
(* entries, each filed under its own name and type, and the sockets never  *)
(* exceed what the process may have.                                       *)
THEOREM TypeCorrect == Spec => []TypeOK
<1>1. Inv => TypeOK
    BY DEF Inv, CacheOK, RestOK, TypeOK
<1>. QED
    BY <1>1, Invariance, PTL

(* Every request is replied to at most once, and a handler that returns    *)
(* has replied (server.c:170 to 320).                                      *)
THEOREM OnceReplied == Spec => []RepliedOnce
<1>1. Inv => RepliedOnce
  <2>. SUFFICES ASSUME Inv PROVE RepliedOnce
      OBVIOUS
  <2>1. \A r \in Requests : sent[r] = <<>> \/ \E m : sent[r] = <<m>>
      BY DEF Inv, Ledger, OneReply
  <2>2. \A r \in done : sent[r] # <<>>
    <3>1. TAKE r \in done
    <3>2. r \in Requests
        BY DEF Inv, RestOK
    <3>3. PICK m : sent[r] = <<m>>
        BY <3>2 DEF Inv, Ledger, OneReply
    <3>. QED
        BY <3>3
  <2>3. \A r \in Requests : Len(sent[r]) <= 1
    <3>1. SUFFICES ASSUME NEW r \in Requests
                   PROVE  Len(sent[r]) <= 1
        OBVIOUS
    <3>2. CASE sent[r] = <<>>
      <4>1. Len(<<>>) <= 1
          OBVIOUS
      <4>. QED
          BY <3>2, <4>1, Zenon
    <3>3. CASE \E m : sent[r] = <<m>>
      <4>1. PICK m : sent[r] = <<m>>
          BY <3>3
      <4>2. Len(<<m>>) <= 1
          OBVIOUS
      <4>. QED
          BY <4>1, <4>2, Zenon
    <3>. QED
        BY <2>1, <3>2, <3>3
  <2>. QED
      BY <2>2, <2>3 DEF RepliedOnce
<1>. QED
    BY <1>1, Invariance, PTL

(* A socket is open for a worker that waits or was left open by a relay    *)
(* that failed, and for nothing else.                                      *)
THEOREM SocketCount == Spec => []SocketsAccounted
<1>. QED
    BY Invariance, PTL

(* The header a client reads belongs to its request and to a response. *)
THEOREM HeaderCorrect == Spec => []ReplyHeader
<1>1. Inv => ReplyHeader
  <2>. SUFFICES ASSUME Inv, NEW r \in Answered, NEW m \in Sent(r)
                PROVE  Header(ask[r], m)
      BY DEF ReplyHeader, Header
  <2>1. PICK k : sent[r] = <<k>> /\ Header(ask[r], k)
      BY DEF Inv, Ledger, OneReply, Answered
  <2>2. m = k
      BY <2>1 DEF Sent, ToSet
  <2>. QED
      BY <2>1, <2>2
<1>. QED
    BY <1>1, Invariance, PTL

-----------------------------------------------------------------------------
(* The heap.  What may stay behind of a request with the question q: *)
Leaks(q) ==
    {b \in {"it"} : /\ q.type = "A"
                    /\ \E k \in KnownRR : k.name = q.name /\ k.type = "CNAME"}
    \cup {b \in {"data"} : q.type = "A" /\ Lines(q.name) # {}}

(* What handler has yet to free. *)
Held(w) ==
    IF pc[w] = "reply" THEN {"it", "tit", "msg", "arg"}
    ELSE IF Relayed(w) THEN {} ELSE {"msg", "arg"}

HeapOK ==
    /\ \A r \in Requests : r > Len(ask) => heap[r] = {}
    /\ \A r \in Elements(queue) : heap[r] \subseteq {"arg"}
    /\ \A r \in done : heap[r] \subseteq Leaks(ask[r].ques[1])
    /\ \A w \in Workers :
          pc[w] # "idle" => heap[req[w]] \subseteq Leaks(Question(w)) \cup Held(w)

(* Only a question for an address gets to the CNAME records and to the     *)
(* file, and only one whose name is in the file reads it.                  *)
Path ==
    \A w \in Workers :
        /\ pc[w] \in {"getCname", "getAlias", "file", "scan"} => Question(w).type = "A"
        /\ pc[w] = "scan" => Lines(Question(w).name) # {}

(* An item in the cache, or on its way there, is made of known records. *)
Items == [name : Names, type : CachedTypes, vals : Seq(Data), ddl : Nat]

KnownItems ==
    {it \in Items : \E k \in KnownRR : k.name = it.name /\ k.type = it.type}
Sources ==
    /\ \A w \in Workers : /\ todo[w] \in Seq(KnownItems)
                          /\ pc[w] = "store" => todo[w] # <<>>
    /\ \A k \in Stored : cache[k].item \in KnownItems

HeapInv == HeapOK /\ Path /\ Sources

LEMMA ThoseProperties ==
    ASSUME NEW S, NEW s \in Seq(S), NEW places \in SUBSET DOMAIN s
    PROVE  /\ Cardinality(places) \in Nat
           /\ Those(s, places) \in Seq(S)
           /\ Len(Those(s, places)) = Cardinality(places)
           /\ DOMAIN Those(s, places) = 1..Cardinality(places)
           /\ \A n \in 1..Cardinality(places) : \E i \in places : Those(s, places)[n] = s[i]
<1>. DEFINE t == Those(s, places)
<1>1. DOMAIN s = 1..Len(s) /\ Len(s) \in Nat
    BY LenProperties
<1>2. /\ Cardinality(places) \in Nat
      /\ \A n \in 1..Cardinality(places) :
            \E i \in places : Cardinality({j \in places : j <= i}) = n
    BY <1>1, RanksTaken
<1>3. /\ DOMAIN t = 1..Cardinality(places)
      /\ \A n \in 1..Cardinality(places) :
            t[n] = s[CHOOSE i \in places : Cardinality({j \in places : j <= i}) = n]
    BY DEF Those
<1>4. \A n \in 1..Cardinality(places) : \E i \in places : t[n] = s[i]
    BY <1>2, <1>3
<1>5. t = [n \in 1..Cardinality(places) |-> t[n]]
    BY DEF Those
<1>. HIDE DEF t
<1>6. \A n \in 1..Cardinality(places) : t[n] \in S
    BY <1>4, ElementOfSeq, <1>1
<1>7. t \in Seq(S)
    BY <1>2, <1>5, <1>6
<1>8. Len(t) = Cardinality(places)
    BY <1>2, <1>3, <1>7, LenProperties
<1>. QED
    BY <1>2, <1>3, <1>4, <1>7, <1>8 DEF t

(* The last of some elements is the one at the last of their positions. *)
LEMMA LastOfThose ==
    ASSUME NEW S, NEW s \in Seq(S), NEW places \in SUBSET DOMAIN s, places # {}
    PROVE  Those(s, places)[Cardinality(places)] = s[Max(places)]
<1>. DEFINE x == Max(places)
            c == Cardinality(places)
            Rank(i) == Cardinality({j \in places : j <= i})
<1>1. DOMAIN s = 1..Len(s) /\ Len(s) \in Nat
    BY LenProperties
<1>2. \E i \in places : \A j \in places : i >= j
    BY <1>1, LargestElement
<1>3. x \in places /\ \A j \in places : x >= j
    BY <1>2 DEF Max
<1>4. IsFiniteSet(places) /\ c \in Nat
    BY <1>1, RanksTaken
<1>. HIDE DEF x
<1>5. {j \in places : j <= x} = places
    BY <1>1, <1>3
<1>6. Rank(x) = c
    BY <1>5
<1>7. ASSUME NEW i \in places, Rank(i) = c PROVE i = x
  <2>. DEFINE below == {j \in places : j <= i}
  <2>1. below \in SUBSET places /\ Cardinality(below) = Cardinality(places)
      BY <1>7
  <2>2. below = places
      BY <1>4, <2>1, FS_Subset
  <2>3. x <= i
      BY <1>3, <2>2
  <2>. QED
      BY <1>1, <1>3, <2>3
<1>8. c \in 1..c
  <2>1. c # 0
      BY <1>3, <1>4, FS_EmptySet
  <2>. QED
      BY <1>4, <2>1
<1>9. Those(s, places)[c] = s[CHOOSE i \in places : Rank(i) = c]
    BY <1>8 DEF Those
<1>10. (CHOOSE i \in places : Rank(i) = c) = x
    BY <1>3, <1>6, <1>7
<1>. QED
    BY <1>9, <1>10 DEF x

(* TTLs are numbers, and so is the one of the file. *)
LEMMA TTLsNat == TTLs \subseteq Nat /\ UintMod \in Nat /\ LocalTTL \in Nat /\ LocalTTL \in TTLs
<1>1. UintMod \in Nat /\ LocalTTL \in TTLs
    BY ServerAssumption
<1>. QED
    BY <1>1 DEF TTLs

(* The fields of a record, by its type. *)
LEMMA RecordFields ==
    ASSUME NEW r \in RR
    PROVE  /\ r.name \in Names /\ r.val \in Data /\ r.ttl \in TTLs /\ r.ttl \in Nat
           /\ r.type = "A" => r.val \in Addresses
           /\ r.type \in StringTypes => r.val \in Names
           /\ r.type \in CachedTypes => r.type \in {"A"} \cup StringTypes
<1>1. CASE r \in [name : Names, type : {"A"}, val : Addresses, ttl : TTLs]
    BY <1>1, TTLsNat DEF Data, StringTypes
<1>2. CASE r \in [name : Names, type : StringTypes, val : Names, ttl : TTLs]
    BY <1>2, TTLsNat DEF Data, StringTypes
<1>3. CASE r \in [name : Names, type : Types \ CachedTypes, val : Data, ttl : TTLs]
    BY <1>3, TTLsNat DEF StringTypes, CachedTypes
<1>. QED
    BY <1>1, <1>2, <1>3 DEF RR, CachedRR

(* The item of some known records. *)
LEMMA ItemKnown ==
    ASSUME RestOK, NEW rrs \in Seq(RR), Len(rrs) # 0, \A i \in 1..Len(rrs) : rrs[i] \in KnownRR,
           rrs[Len(rrs)].type \in CachedTypes
    PROVE  addRR2Item(rrs) \in KnownItems
<1>1. DOMAIN rrs = 1..Len(rrs) /\ Len(rrs) \in Nat /\ Last(rrs) = rrs[Len(rrs)]
    BY LenProperties DEF Last
<1>2. Len(rrs) \in 1..Len(rrs)
    BY <1>1
<1>. DEFINE r == rrs[Len(rrs)]
<1>3. r \in RR /\ r \in KnownRR
    BY <1>1, <1>2, ElementOfSeq
<1>4. \A i \in 1..Len(rrs) : rrs[i].val \in Data
  <2>1. \A i \in 1..Len(rrs) : rrs[i] \in RR
      BY ElementOfSeq
  <2>. QED
      BY <2>1, RecordFields
<1>5. [i \in 1..Len(rrs) |-> rrs[i].val] \in Seq(Data)
    BY <1>1, <1>4
<1>6. addRR2Item(rrs) = [name |-> r.name, type |-> r.type,
                         vals |-> [i \in 1..Len(rrs) |-> rrs[i].val], ddl |-> r.ttl + now]
    BY <1>1 DEF addRR2Item
<1>7. r.name \in Names /\ r.ttl \in Nat /\ now \in Nat
    BY <1>3, RecordFields DEF RestOK
<1>8. r.ttl + now \in Nat
    BY <1>7
<1>9. r.type \in CachedTypes
    OBVIOUS
<1>. HIDE DEF r
<1>10. addRR2Item(rrs) \in Items
    BY <1>5, <1>6, <1>7, <1>8, <1>9 DEF Items
<1>11. addRR2Item(rrs).name = r.name /\ addRR2Item(rrs).type = r.type
    BY <1>6
<1>. QED
    BY <1>3, <1>10, <1>11 DEF KnownItems

(* Records of rrs, all of one type and the last of it among them at the    *)
(* end, as an item is made of them.                                        *)
Alike(recs, rrs) ==
    /\ recs \in Seq(RR) /\ Len(recs) # 0 /\ recs[Len(recs)].type \in CachedTypes
    /\ recs[Len(recs)] = LastOf(rrs, recs[Len(recs)].type)
    /\ \A n \in 1..Len(recs) : /\ recs[n].type = recs[Len(recs)].type
                               /\ \E i \in 1..Len(rrs) : recs[n] = rrs[i]

(* The items of an answer. *)
LEMMA ItemsOfIn ==
    ASSUME NEW rrs \in Seq(RR), NEW S, \A recs : Alike(recs, rrs) => addRR2Item(recs) \in S
    PROVE  ItemsOf(rrs) \in Seq(S)
<1>. DEFINE order    == <<"A", "NS", "CNAME">>
            Places(type) == {i \in DOMAIN rrs : rrs[i].type = type}
            Of(type) == Those(rrs, Places(type))
            chosen   == {i \in DOMAIN order : Of(order[i]) # <<>>}
            some     == Those(order, chosen)
<1>1. ItemsOf(rrs) = [i \in DOMAIN some |-> addRR2Item(Of(some[i]))]
    BY DEF ItemsOf
<1>2. order \in Seq(CachedTypes) /\ \A i \in DOMAIN order : order[i] \in CachedTypes
    BY DEF CachedTypes
<1>3. chosen \in SUBSET DOMAIN order
    OBVIOUS
<1>4. DOMAIN rrs = 1..Len(rrs)
    BY LenProperties
<1>. HIDE DEF order, chosen
<1>5. /\ Cardinality(chosen) \in Nat /\ DOMAIN some = 1..Cardinality(chosen)
      /\ \A n \in 1..Cardinality(chosen) : \E i \in chosen : some[n] = order[i]
    BY <1>2, <1>3, ThoseProperties
<1>6. ASSUME NEW type \in CachedTypes, Of(type) # <<>>
      PROVE  addRR2Item(Of(type)) \in S
  <2>. DEFINE places == Places(type)
              recs   == Of(type)
  <2>1. places \in SUBSET DOMAIN rrs /\ \A i \in places : rrs[i].type = type
      OBVIOUS
  <2>2. recs = Those(rrs, places) /\ recs # <<>>
      BY <1>6
  <2>. HIDE DEF places, recs
  <2>3. /\ recs \in Seq(RR) /\ Len(recs) = Cardinality(places)
        /\ Cardinality(places) \in Nat
        /\ \A n \in 1..Cardinality(places) : \E i \in places : recs[n] = rrs[i]
      BY <2>1, <2>2, ThoseProperties
  <2>4. \A n \in 1..Len(recs) :
           recs[n].type = type /\ \E i \in 1..Len(rrs) : recs[n] = rrs[i]
      BY <1>4, <2>1, <2>3
  <2>5. Len(recs) # 0
      BY <2>2, <2>3, EmptySeq
  <2>6. Len(recs) \in 1..Len(recs)
      BY <2>3, <2>5
  <2>7. Alike(recs, rrs)
    <3>1. places # {}
        BY <2>3, <2>5, FS_EmptySet
    <3>2. recs[Len(recs)] = rrs[Max(places)]
        BY <2>1, <2>2, <2>3, <3>1, LastOfThose
    <3>3. rrs[Max(places)] = LastOf(rrs, type)
        BY DEF LastOf, places
    <3>. QED
        BY <2>3, <2>4, <2>5, <2>6, <3>2, <3>3 DEF Alike
  <2>8. addRR2Item(recs) \in S
      BY <2>7
  <2>. QED
      BY <2>8 DEF recs
<1>7. \A i \in chosen : order[i] \in CachedTypes /\ Of(order[i]) # <<>>
    BY <1>2, <1>3 DEF chosen
<1>. HIDE DEF Of, some
<1>8. \A n \in 1..Cardinality(chosen) : addRR2Item(Of(some[n])) \in S
    BY <1>5, <1>6, <1>7
<1>. DEFINE its == ItemsOf(rrs)
<1>9. its = [n \in 1..Cardinality(chosen) |-> its[n]]
    BY <1>1, <1>5
<1>10. \A n \in 1..Cardinality(chosen) : its[n] \in S
    BY <1>1, <1>5, <1>8
<1>. HIDE DEF its
<1>11. its \in Seq(S)
    BY <1>5, <1>9, <1>10, SeqOfElements
<1>. QED
    BY <1>11 DEF its

LEMMA ItemsOfKnown ==
    ASSUME RestOK, NEW rrs \in Seq(RR), \A i \in 1..Len(rrs) : rrs[i] \in KnownRR
    PROVE  ItemsOf(rrs) \in Seq(KnownItems)
<1>1. ASSUME NEW recs, Alike(recs, rrs) PROVE addRR2Item(recs) \in KnownItems
    BY <1>1, ItemKnown DEF Alike
<1>. QED
    BY <1>1, ItemsOfIn

(* A step that leaves the requests, their workers and the heap alone. *)
LEMMA HeapKept ==
    ASSUME HeapOK, Path, UNCHANGED <<poolVars, ask, heap, pc, items>>
    PROVE  HeapOK' /\ Path'
    BY DEF HeapOK, Path, Held, Relayed, Question, poolVars

(* The request of a worker is its own. *)
LEMMA OwnRequest ==
    ASSUME Inv, NEW w \in Workers, pc[w] # "idle"
    PROVE  /\ req[w] \in Requests /\ req[w] \in 1..Len(ask)
           /\ ask[req[w]] \in Asks /\ Question(w) \in [name : Names, type : Types]
           /\ Question(w) \in DOMAIN Upstream
           /\ req[w] \notin Elements(queue) \cup done
           /\ \A v \in Workers : pc[v] # "idle" /\ req[v] = req[w] => v = w
<1>1. req[w] \in Requests /\ req[w] # NoRequest
    BY ServerAssumption DEF Inv, AtWork, InHandler, RestOK
<1>2. req[w] \in 1..Len(ask)
    BY <1>1, ServerAssumption, FS_CardinalityType, LenProperties
       DEF Inv, RestOK, Ledger, Arrived
<1>3. ask[req[w]] \in Asks
    BY <1>2, ElementOfSeq DEF Inv, RestOK
<1>4. Question(w) \in [name : Names, type : Types] /\ Question(w) \in DOMAIN Upstream
    BY <1>3, ServerAssumption DEF Question
<1>5. /\ req[w] \notin Elements(queue) \cup done
      /\ \A v \in Workers : pc[v] # "idle" /\ req[v] = req[w] => v = w
    BY <1>1 DEF Inv, Ledger, OnePlace
<1>. QED
    BY <1>1, <1>2, <1>3, <1>4, <1>5

(* A worker goes on with its request. *)
LEMMA MoveHeap ==
    ASSUME Inv, HeapOK, NEW w \in Workers, pc[w] # "idle",
           UNCHANGED <<poolVars, ask>>,
           \A v \in Workers \ {w} : pc'[v] = pc[v] /\ items'[v] = items[v],
           NEW blocks, heap' = [heap EXCEPT ![req[w]] = blocks],
           blocks \subseteq Leaks(Question(w)) \cup Held(w)'
    PROVE  HeapOK'
<1>1. /\ req[w] \in Requests /\ req[w] \in 1..Len(ask)
      /\ req[w] \notin Elements(queue) \cup done
      /\ \A v \in Workers : pc[v] # "idle" /\ req[v] = req[w] => v = w
    BY OwnRequest
<1>2. /\ heap'[req[w]] = blocks
      /\ \A r \in Requests \ {req[w]} : heap'[r] = heap[r]
      /\ DOMAIN heap = Requests
    BY <1>1 DEF Inv, RestOK
<1>3. /\ UNCHANGED <<queue, req, done>> /\ Elements(queue) \subseteq Requests
      /\ done \subseteq Requests
    BY ElementOfSeq DEF poolVars, Inv, RestOK, Elements
<1>4. \A v \in Workers : Question(v)' = Question(v)
    BY <1>3 DEF Question
<1>5. \A v \in Workers \ {w} : Held(v)' = Held(v)
    BY DEF Held, Relayed
<1>6. \A r \in Requests : r > Len(ask') => heap'[r] = {}
  <2>1. ~(req[w] > Len(ask))
      BY <1>1, LenProperties DEF Inv, RestOK
  <2>. QED
      BY <1>2, <2>1 DEF HeapOK
<1>7. \A r \in Elements(queue') : heap'[r] \subseteq {"arg"}
    BY <1>1, <1>2, <1>3 DEF HeapOK
<1>8. \A r \in done' : heap'[r] \subseteq Leaks(ask'[r].ques[1])
    BY <1>1, <1>2, <1>3 DEF HeapOK
<1>9. ASSUME NEW v \in Workers, pc'[v] # "idle"
      PROVE  heap'[req'[v]] \subseteq Leaks(Question(v)') \cup Held(v)'
  <2>1. CASE v = w
      BY <1>2, <1>3, <1>4, <2>1
  <2>2. CASE v # w
    <3>1. pc[v] # "idle" /\ req[v] # req[w]
        BY <1>1, <1>9, <2>2
    <3>2. req[v] \in Requests
        BY <3>1, OwnRequest
    <3>3. heap'[req[v]] = heap[req[v]]
        BY <1>2, <3>1, <3>2
    <3>. QED
        BY <1>3, <1>4, <1>5, <2>2, <3>1, <3>3 DEF HeapOK
  <2>. QED
      BY <2>1, <2>2
<1>. QED
    BY <1>6, <1>7, <1>8, <1>9 DEF HeapOK

(* handler returns. *)
LEMMA ReturnHeap ==
    ASSUME Inv, HeapOK, NEW w \in Workers, pc[w] # "idle", Return(w), UNCHANGED ask,
           \A v \in Workers \ {w} : items'[v] = items[v],
           NEW blocks, heap' = [heap EXCEPT ![req[w]] = blocks],
           blocks \subseteq Leaks(Question(w))
    PROVE  HeapOK'
<1>1. /\ req[w] \in Requests /\ req[w] \in 1..Len(ask)
      /\ req[w] \notin Elements(queue) \cup done
      /\ \A v \in Workers : pc[v] # "idle" /\ req[v] = req[w] => v = w
    BY OwnRequest
<1>2. /\ heap'[req[w]] = blocks
      /\ \A r \in Requests \ {req[w]} : heap'[r] = heap[r]
    BY <1>1 DEF Inv, RestOK
<1>3. /\ UNCHANGED queue /\ done' = done \cup {req[w]}
      /\ pc'[w] = "idle"
      /\ \A v \in Workers \ {w} : pc'[v] = pc[v] /\ req'[v] = req[v]
    BY DEF Return, Goto, Inv, RestOK
<1>4. Elements(queue) \subseteq Requests /\ done \subseteq Requests
    BY ElementOfSeq DEF Inv, RestOK, Elements
<1>5. \A v \in Workers \ {w} : Question(v)' = Question(v) /\ Held(v)' = Held(v)
    BY <1>3 DEF Question, Held, Relayed
<1>6. \A r \in Requests : r > Len(ask') => heap'[r] = {}
  <2>1. ~(req[w] > Len(ask))
      BY <1>1, LenProperties DEF Inv, RestOK
  <2>. QED
      BY <1>2, <2>1 DEF HeapOK
<1>7. \A r \in Elements(queue') : heap'[r] \subseteq {"arg"}
    BY <1>1, <1>2, <1>3, <1>4 DEF HeapOK
<1>8. \A r \in done' : heap'[r] \subseteq Leaks(ask'[r].ques[1])
  <2>1. heap'[req[w]] \subseteq Leaks(ask[req[w]].ques[1])
      BY <1>2 DEF Question
  <2>. QED
      BY <1>1, <1>2, <1>3, <1>4, <2>1 DEF HeapOK
<1>9. ASSUME NEW v \in Workers, pc'[v] # "idle"
      PROVE  heap'[req'[v]] \subseteq Leaks(Question(v)') \cup Held(v)'
  <2>1. v # w /\ pc[v] # "idle" /\ req'[v] = req[v]
      BY <1>3, <1>9
  <2>2. req[v] \in Requests /\ req[v] # req[w]
      BY <1>1, <2>1, OwnRequest
  <2>3. heap'[req[v]] = heap[req[v]]
      BY <1>2, <2>2
  <2>. QED
      BY <1>5, <2>1, <2>3 DEF HeapOK
<1>. QED
    BY <1>6, <1>7, <1>8, <1>9 DEF HeapOK

(* A request arrives. *)
LEMMA ReceiveHeap ==
    ASSUME Inv, HeapOK, Path, NEW m \in Asks, Receive(m)
    PROVE  HeapOK' /\ Path'
<1>. DEFINE n == Len(ask) + 1
<1>1. /\ n \in Requests /\ ask' = Append(ask, m) /\ queue' = Append(queue, n)
      /\ heap' = [heap EXCEPT ![n] = @ \cup {"arg"}]
      /\ UNCHANGED <<req, done, pc, items>>
    BY AppendProperties DEF Receive, Malloc, Inv, RestOK, ownVars
<1>2. /\ Len(ask) \in Nat /\ Len(ask') = n
      /\ \A r \in 1..Len(ask) : ask'[r] = ask[r]
    BY <1>1, AppendProperties, LenProperties DEF Inv, RestOK
<1>3. \A r \in Requests : r \in Nat \ {0}
    BY ServerAssumption, FS_CardinalityType
<1>4. Elements(queue') = Elements(queue) \cup {n} /\ Elements(queue) \subseteq Requests
  <2>1. queue \in Seq(Requests)
      BY DEF Inv, RestOK
  <2>2. Elements(Append(queue, n)) = Elements(queue) \cup {n}
      BY <1>1, <2>1, ElementsOfAppend
  <2>3. Elements(queue) \subseteq Requests
      BY <2>1, ElementOfSeq DEF Elements
  <2>. QED
      BY <1>1, <2>2, <2>3
<1>5. heap[n] = {}
    BY <1>1, <1>2 DEF HeapOK
<1>6. heap'[n] = {"arg"} /\ \A r \in Requests \ {n} : heap'[r] = heap[r]
    BY <1>1, <1>5 DEF Inv, RestOK
<1>7. \A r \in Elements(queue) \cup done : r \in Requests /\ r \in 1..Len(ask)
    BY <1>2, <1>3, <1>4 DEF Inv, RestOK, Ledger, Arrived
<1>8. \A v \in Workers : pc[v] # "idle" =>
         req[v] \in Requests /\ req[v] \in 1..Len(ask) /\ Question(v)' = Question(v)
    BY <1>1, <1>2, OwnRequest DEF Question
<1>9. \A v \in Workers : Held(v)' = Held(v)
    BY <1>1 DEF Held, Relayed
<1>10. \A r \in 1..Len(ask) : r # n
    BY <1>2
<1>11. \A r \in Requests : r > Len(ask') => heap'[r] = {}
  <2>1. \A r \in Requests : r > n => r # n /\ r > Len(ask)
      BY <1>2, <1>3
  <2>. QED
      BY <1>2, <1>6, <2>1 DEF HeapOK
<1>. HIDE DEF n
<1>12. \A r \in Elements(queue') : heap'[r] \subseteq {"arg"}
    BY <1>4, <1>6, <1>7, <1>10 DEF HeapOK
<1>13. \A r \in done' : heap'[r] \subseteq Leaks(ask'[r].ques[1])
    BY <1>1, <1>2, <1>6, <1>7, <1>10 DEF HeapOK
<1>14. \A v \in Workers :
          pc'[v] # "idle" => heap'[req'[v]] \subseteq Leaks(Question(v)') \cup Held(v)'
  <2>1. \A v \in Workers : pc[v] # "idle" => heap'[req[v]] = heap[req[v]]
      BY <1>6, <1>8, <1>10
  <2>. QED
      BY <1>1, <1>8, <1>9, <2>1 DEF HeapOK
<1>15. Path'
    BY <1>1, <1>8 DEF Path
<1>. QED
    BY <1>11, <1>12, <1>13, <1>14, <1>15 DEF HeapOK

(* A worker takes one. *)
LEMMA TakeHeap ==
    ASSUME Inv, HeapOK, Path, NEW w \in Workers, Take(w)
    PROVE  HeapOK' /\ Path'
<1>. DEFINE n == Head(queue)
<1>1. /\ pc[w] = "idle" /\ queue # <<>> /\ queue' = Tail(queue)
      /\ heap' = [heap EXCEPT ![n] = @ \cup {"msg"}]
      /\ UNCHANGED <<done, ask, items>>
    BY DEF Take, At, Malloc, ownVars
<1>2. /\ req'[w] = n /\ pc'[w] \in {"get", "relay"}
      /\ \A v \in Workers \ {w} : req'[v] = req[v] /\ pc'[v] = pc[v]
    BY DEF Take, Goto, Inv, RestOK
<1>3. /\ n \in Elements(queue) /\ Elements(queue) \subseteq Requests /\ n \in Requests
      /\ Elements(queue') \subseteq Elements(queue) /\ n \notin Elements(queue')
    BY <1>1, ElementsOfTail, ElementOfSeq DEF Inv, RestOK, Elements, Ledger, OnePlace
<1>4. heap'[n] \subseteq {"msg", "arg"} /\ \A r \in Requests \ {n} : heap'[r] = heap[r]
    BY <1>1, <1>3 DEF Inv, RestOK, HeapOK
<1>5. n \notin done /\ n <= Len(ask) /\ \A v \in Workers : pc[v] # "idle" => req[v] # n
    BY <1>3, OwnRequest DEF Inv, Ledger, OnePlace, Arrived
<1>. HIDE DEF n
<1>6. \A r \in Requests : r > Len(ask') => heap'[r] = {}
  <2>1. ~(n > Len(ask))
      BY <1>3, <1>5, ServerAssumption, FS_CardinalityType, LenProperties DEF Inv, RestOK
  <2>. QED
      BY <1>1, <1>4, <2>1 DEF HeapOK
<1>7. \A r \in Elements(queue') : heap'[r] \subseteq {"arg"}
    BY <1>3, <1>4 DEF HeapOK
<1>8. \A r \in done' : heap'[r] \subseteq Leaks(ask'[r].ques[1])
    BY <1>1, <1>4, <1>5 DEF HeapOK, Inv, RestOK
<1>9. ASSUME NEW v \in Workers, pc'[v] # "idle"
      PROVE  heap'[req'[v]] \subseteq Leaks(Question(v)') \cup Held(v)'
  <2>1. CASE v = w
    <3>1. Held(w)' = {"msg", "arg"}
        BY <1>2 DEF Held, Relayed
    <3>. QED
        BY <1>2, <1>4, <2>1, <3>1
  <2>2. CASE v # w
    <3>1. pc[v] # "idle" /\ req'[v] = req[v]
        BY <1>2, <1>9, <2>2
    <3>2. req[v] \in Requests /\ req[v] # n
        BY <1>5, <3>1, OwnRequest
    <3>3. heap'[req[v]] = heap[req[v]]
        BY <1>4, <3>2
    <3>4. Question(v)' = Question(v) /\ Held(v)' = Held(v)
        BY <1>1, <1>2, <2>2 DEF Question, Held, Relayed
    <3>. QED
        BY <3>1, <3>3, <3>4 DEF HeapOK
  <2>. QED
      BY <2>1, <2>2
<1>10. Path'
    BY <1>1, <1>2 DEF Path, Question
<1>. QED
    BY <1>6, <1>7, <1>8, <1>9, <1>10 DEF HeapOK

(* A step of handler that allocates more, or nothing. *)
LEMMA GrowHeap ==
    ASSUME Inv, HeapOK, Path, NEW w \in Workers, pc[w] # "idle",
           NEW to, Goto(w, to), UNCHANGED <<poolVars, ask>>,
           \A v \in Workers \ {w} : items'[v] = items[v],
           NEW more, Malloc(req[w], more) \/ (UNCHANGED heap /\ more = {}),
           more \subseteq Leaks(Question(w)) \cup Held(w)', Held(w) \subseteq Held(w)',
           to \in {"getCname", "getAlias", "file", "scan"} => Question(w).type = "A",
           to = "scan" => Lines(Question(w).name) # {}
    PROVE  HeapOK' /\ Path'
<1>1. req[w] \in Requests
    BY OwnRequest
<1>2. /\ pc'[w] = to
      /\ \A v \in Workers \ {w} : pc'[v] = pc[v] /\ items'[v] = items[v]
    BY DEF Goto, Inv, RestOK
<1>3. \A v \in Workers : Question(v)' = Question(v)
    BY DEF Question, poolVars
<1>. DEFINE blocks == heap[req[w]] \cup more
<1>4. heap' = [heap EXCEPT ![req[w]] = blocks]
  <2>1. CASE Malloc(req[w], more)
      BY <2>1 DEF Malloc
  <2>2. CASE UNCHANGED heap /\ more = {}
      BY <1>1, <2>2 DEF Inv, RestOK
  <2>. QED
      BY <2>1, <2>2
<1>5. heap[req[w]] \subseteq Leaks(Question(w)) \cup Held(w)
    BY DEF HeapOK
<1>6. blocks \subseteq Leaks(Question(w)) \cup Held(w)'
    BY <1>5
<1>. HIDE DEF blocks
<1>7. HeapOK'
    BY <1>2, <1>4, <1>6, MoveHeap
<1>8. Path'
  <2>1. ASSUME NEW v \in Workers
        PROVE  /\ pc'[v] \in {"getCname", "getAlias", "file", "scan"} =>
                     Question(v)'.type = "A"
               /\ pc'[v] = "scan" => Lines(Question(v)'.name) # {}
    <3>1. CASE v = w
        BY <1>2, <1>3, <3>1
    <3>2. CASE v # w
        BY <1>2, <1>3, <3>2 DEF Path
    <3>. QED
        BY <3>1, <3>2
  <2>. QED
      BY <2>1 DEF Path
<1>. QED
    BY <1>7, <1>8

(* What a look into the cache finds, and what it leaves. *)
LEMMA FoundKnown ==
    ASSUME Inv, Sources, NEW name \in Names, NEW type \in CachedTypes,
           NEW it \in getItem(name, type)
    PROVE  /\ it \in KnownItems /\ it.name = name /\ it.type = type
           /\ \E k \in KnownRR : k.name = name /\ k.type = type
<1>. DEFINE e == cache[<<name, type>>]
<1>1. it = e.item /\ e # NoEntry
    BY DEF getItem, Fresh
<1>2. <<name, type>> \in Stored
    BY <1>1 DEF Stored, Inv, CacheOK
<1>3. <<name, type>> = <<it.name, it.type>>
    BY <1>1, <1>2 DEF Inv, CacheOK
<1>4. it \in KnownItems
    BY <1>1, <1>2 DEF Sources
<1>. QED
    BY <1>3, <1>4 DEF KnownItems

LEMMA LookSources ==
    ASSUME Sources, NEW name, NEW type, cache' = AfterGet(name, type), UNCHANGED todo,
           \A w \in Workers : pc'[w] = "store" => pc[w] = "store"
    PROVE  Sources'
<1>1. \A k \in DOMAIN cache : cache'[k] \in {cache[k], NoEntry}
    BY DEF AfterGet
<1>2. DOMAIN cache' = DOMAIN cache
    BY DEF AfterGet
<1>3. KnownItems' = KnownItems
    BY DEF KnownItems
<1>4. \A k \in Stored' : k \in Stored /\ cache'[k] = cache[k]
    BY <1>1, <1>2 DEF Stored
<1>. QED
    BY <1>3, <1>4 DEF Sources

LEMMA SourcesKept ==
    ASSUME Sources, UNCHANGED <<cache, todo>>,
           \A w \in Workers : pc'[w] = "store" => pc[w] = "store" \/ todo[w] # <<>>
    PROVE  Sources'
<1>1. Stored' = Stored
    BY DEF Stored
<1>. QED
    BY <1>1 DEF Sources

LEMMA GetItemHeap ==
    ASSUME Inv, HeapInv, NEW w \in Workers, GetItem(w)
    PROVE  HeapInv'
<1>. DEFINE q == Question(w)
<1>1. /\ pc[w] = "get" /\ cache' = AfterGet(q.name, q.type)
      /\ UNCHANGED <<poolVars, ask, todo>>
    BY DEF GetItem, At
<1>2. Held(w) = {"msg", "arg"}
    BY <1>1 DEF Held, Relayed
<1>3. PICK to, more :
         /\ to \in {"reply", "getCname", "relay"}
         /\ Goto(w, to) /\ \A v \in Workers \ {w} : items'[v] = items[v]
         /\ Malloc(req[w], more) \/ (UNCHANGED heap /\ more = {})
         /\ more \subseteq {"it"} /\ (to # "reply" => more = {})
         /\ to = "getCname" => q.type = "A"
  <2>1. CASE \E it : /\ items' = [items EXCEPT ![w] = <<it>>] /\ Malloc(req[w], {"it"})
                     /\ Goto(w, "reply")
    <3>1. \A v \in Workers \ {w} : items'[v] = items[v]
        BY <2>1 DEF Inv, RestOK
    <3>. QED
        BY <2>1, <3>1
  <2>2. CASE /\ Goto(w, IF q.type = "A" THEN "getCname" ELSE "relay")
             /\ UNCHANGED <<items, heap>>
    <3>1. PICK to \in {"getCname", "relay"} : Goto(w, to) /\ (to = "getCname" => q.type = "A")
        BY <2>2
    <3>2. /\ \A v \in Workers \ {w} : items'[v] = items[v]
          /\ Malloc(req[w], {}) \/ (UNCHANGED heap /\ {} = {})
          /\ {} \subseteq {"it"} /\ (to # "reply" => {} = {})
        BY <2>2
    <3>. QED
        BY <3>1, <3>2
  <2>. QED
      BY <2>1, <2>2 DEF GetItem
<1>4. pc'[w] = to /\ \A v \in Workers \ {w} : pc'[v] = pc[v]
    BY <1>3 DEF Goto, Inv, RestOK
<1>5. Held(w)' = IF to = "reply" THEN {"it", "tit", "msg", "arg"} ELSE {"msg", "arg"}
    BY <1>3, <1>4 DEF Held, Relayed
<1>6. more \subseteq Leaks(q) \cup Held(w)' /\ Held(w) \subseteq Held(w)'
    BY <1>2, <1>3, <1>5
<1>7. HeapOK' /\ Path'
  <2>1. /\ to \in {"getCname", "getAlias", "file", "scan"} => q.type = "A"
        /\ to = "scan" => Lines(q.name) # {}
      BY <1>3
  <2>. QED
      BY <1>1, <1>3, <1>6, <2>1, GrowHeap DEF HeapInv
<1>8. Sources'
    BY <1>1, <1>3, <1>4, LookSources DEF HeapInv
<1>. QED
    BY <1>7, <1>8 DEF HeapInv

LEMMA GetCnameHeap ==
    ASSUME Inv, HeapInv, NEW w \in Workers, GetCname(w)
    PROVE  HeapInv'
<1>. DEFINE q == Question(w)
<1>1. /\ pc[w] = "getCname" /\ cache' = AfterGet(q.name, "CNAME")
      /\ UNCHANGED <<poolVars, ask, todo>>
    BY DEF GetCname, At
<1>2. Held(w) = {"msg", "arg"} /\ q.type = "A" /\ q.name \in Names
    BY <1>1, OwnRequest DEF Held, Relayed, HeapInv, Path
<1>3. PICK to, more :
         /\ to \in {"getAlias", "file"}
         /\ Goto(w, to) /\ \A v \in Workers \ {w} : items'[v] = items[v]
         /\ Malloc(req[w], more) \/ (UNCHANGED heap /\ more = {})
         /\ more \subseteq Leaks(q)
  <2>1. CASE \E it \in getItem(q.name, "CNAME") :
                /\ items' = [items EXCEPT ![w] = <<it>>] /\ Malloc(req[w], {"it"})
                /\ Goto(w, "getAlias")
    <3>1. \A v \in Workers \ {w} : items'[v] = items[v]
        BY <2>1 DEF Inv, RestOK
    <3>2. \E k \in KnownRR : k.name = q.name /\ k.type = "CNAME"
        BY <1>2, <2>1, FoundKnown DEF HeapInv, CachedTypes
    <3>3. {"it"} \subseteq Leaks(q)
        BY <1>2, <3>2 DEF Leaks
    <3>. QED
        BY <2>1, <3>1, <3>3
  <2>2. CASE Goto(w, "file") /\ UNCHANGED <<items, heap>>
    <3>. DEFINE none == {}
    <3>1. /\ \A v \in Workers \ {w} : items'[v] = items[v]
          /\ UNCHANGED heap /\ none = {} /\ none \subseteq Leaks(q)
        BY <2>2
    <3>. HIDE DEF none
    <3>. QED
        BY <2>2, <3>1
  <2>. QED
      BY <2>1, <2>2 DEF GetCname
<1>4. pc'[w] = to /\ \A v \in Workers \ {w} : pc'[v] = pc[v]
    BY <1>3 DEF Goto, Inv, RestOK
<1>5. Held(w)' = {"msg", "arg"}
    BY <1>3, <1>4 DEF Held, Relayed
<1>6. more \subseteq Leaks(q) \cup Held(w)' /\ Held(w) \subseteq Held(w)'
    BY <1>2, <1>3, <1>5
<1>7. HeapOK' /\ Path'
  <2>1. /\ to \in {"getCname", "getAlias", "file", "scan"} => q.type = "A"
        /\ to = "scan" => Lines(q.name) # {}
      BY <1>2, <1>3
  <2>. QED
      BY <1>1, <1>3, <1>6, <2>1, GrowHeap DEF HeapInv
<1>8. Sources'
    BY <1>1, <1>3, <1>4, LookSources DEF HeapInv
<1>. QED
    BY <1>7, <1>8 DEF HeapInv

LEMMA GetAliasHeap ==
    ASSUME Inv, HeapInv, NEW w \in Workers, GetAlias(w)
    PROVE  HeapInv'
<1>1. /\ pc[w] = "getAlias" /\ \E target : cache' = AfterGet(target, "A")
      /\ UNCHANGED <<poolVars, ask, todo>>
    BY DEF GetAlias, At
<1>2. Held(w) = {"msg", "arg"} /\ Question(w).type = "A"
    BY <1>1 DEF Held, Relayed, HeapInv, Path
<1>. DEFINE Step(to, more) ==
         /\ Goto(w, to) /\ \A v \in Workers \ {w} : items'[v] = items[v]
         /\ Malloc(req[w], more) \/ (UNCHANGED heap /\ more = {})
         /\ more \subseteq {"tit"} /\ (to = "file" => more = {})
<1>3. PICK to, more : to \in {"reply", "file"} /\ Step(to, more)
  <2>1. \E its : items' = [items EXCEPT ![w] = its]
      BY DEF GetAlias
  <2>2. \A v \in Workers \ {w} : items'[v] = items[v]
      BY <2>1 DEF Inv, RestOK
  <2>3. \/ Malloc(req[w], {"tit"}) /\ Goto(w, "reply")
        \/ UNCHANGED heap /\ Goto(w, "file")
      BY DEF GetAlias
  <2>4. Step("reply", {"tit"}) \/ Step("file", {})
      BY <2>2, <2>3
  <2>. HIDE DEF Step
  <2>. QED
      BY <2>4
<1>4. pc'[w] = to /\ \A v \in Workers \ {w} : pc'[v] = pc[v]
    BY <1>3 DEF Goto, Inv, RestOK
<1>5. Held(w)' = IF to = "reply" THEN {"it", "tit", "msg", "arg"} ELSE {"msg", "arg"}
    BY <1>3, <1>4 DEF Held, Relayed
<1>6. more \subseteq Leaks(Question(w)) \cup Held(w)' /\ Held(w) \subseteq Held(w)'
    BY <1>2, <1>3, <1>5
<1>7. HeapOK' /\ Path'
  <2>1. /\ to \in {"getCname", "getAlias", "file", "scan"} => Question(w).type = "A"
        /\ to = "scan" => Lines(Question(w).name) # {}
      BY <1>2, <1>3
  <2>. QED
      BY <1>1, <1>3, <1>6, <2>1, GrowHeap DEF HeapInv
<1>8. Sources'
    BY <1>1, <1>3, <1>4, LookSources DEF HeapInv
<1>. QED
    BY <1>7, <1>8 DEF HeapInv

(* Steps that neither allocate nor look into the cache. *)
LEMMA PassHeap ==
    ASSUME Inv, HeapInv, NEW w \in Workers, Seek(w) \/ SendQuery(w) \/ PutItem(w)
    PROVE  HeapInv'
<1>1. /\ pc[w] \in {"file", "relay", "put"}
      /\ UNCHANGED <<poolVars, ask, heap, items, todo, cache>>
    BY DEF Seek, SendQuery, PutItem, At, ownVars, memVars
<1>2. PICK to \in {"relay", "scan", "wait", "store"} :
         /\ Goto(w, to)
         /\ to = "scan" => pc[w] = "file" /\ Lines(Question(w).name) # {}
         /\ to = "store" <=> pc[w] = "put"
         /\ to = "store" => todo[w] # <<>>
    BY DEF Seek, SendQuery, PutItem, At
<1>3. pc'[w] = to /\ \A v \in Workers \ {w} : pc'[v] = pc[v]
    BY <1>2 DEF Goto, Inv, RestOK
<1>4. Held(w)' = Held(w)
    BY <1>1, <1>2, <1>3 DEF Held, Relayed
<1>5. HeapOK' /\ Path'
  <2>1. /\ to \in {"getCname", "getAlias", "file", "scan"} => Question(w).type = "A"
        /\ to = "scan" => Lines(Question(w).name) # {}
      BY <1>1, <1>2 DEF HeapInv, Path
  <2>. DEFINE none == {}
  <2>2. none \subseteq Leaks(Question(w)) \cup Held(w)' /\ Held(w) \subseteq Held(w)'
      BY <1>4
  <2>3. pc[w] # "idle" /\ \A v \in Workers \ {w} : items'[v] = items[v]
      BY <1>1
  <2>4. UNCHANGED <<poolVars, ask>> /\ UNCHANGED heap /\ none = {}
      BY <1>1
  <2>5. Goto(w, to) /\ HeapOK /\ Path
      BY <1>2 DEF HeapInv
  <2>. HIDE DEF none
  <2>. QED
      BY <2>1, <2>2, <2>3, <2>4, <2>5, GrowHeap
<1>6. Sources'
    BY <1>1, <1>2, <1>3, SourcesKept DEF HeapInv
<1>. QED
    BY <1>5, <1>6 DEF HeapInv

(* A worker that goes where Path says nothing. *)
LEMMA PathKept ==
    ASSUME Path, NEW w \in Workers, UNCHANGED ask,
           pc'[w] \notin {"getCname", "getAlias", "file", "scan"},
           \A v \in Workers \ {w} : pc'[v] = pc[v] /\ req'[v] = req[v]
    PROVE  Path'
    BY DEF Path, Question

(* The record of a line of the file. *)
LEMMA WordIsAddress ==
    ASSUME NEW p \in 1..(2 * Len(File) + 1)
    PROVE  WordAt(p) \in Addresses
<1>1. Len(File) \in Nat /\ Garbage \in Addresses /\ File \in Seq([ip : Addresses, domain : Names])
    BY ServerAssumption, LenProperties
<1>2. CASE p % 2 = 1 /\ p < 2 * Len(File)
  <2>. DEFINE i == (p + 1) \div 2
  <2>1. i \in 1..Len(File)
      BY <1>1, <1>2
  <2>. HIDE DEF i
  <2>2. File[i] \in [ip : Addresses, domain : Names]
      BY <1>1, <2>1, ElementOfSeq
  <2>3. WordAt(p) = File[i].ip
      BY <1>2 DEF WordAt, i
  <2>. QED
      BY <2>2, <2>3
<1>3. CASE ~(p % 2 = 1 /\ p < 2 * Len(File))
    BY <1>1, <1>3 DEF WordAt
<1>. QED
    BY <1>2, <1>3

LEMMA LineKnown ==
    ASSUME NEW name \in Names, Lines(name) # {}
    PROVE  \E k \in KnownRR : k.name = name /\ k.type = "A"
<1>1. PICK i \in DOMAIN File : File[i].domain = name
    BY DEF Lines
<1>. DEFINE k == [name |-> File[i].domain, type |-> "A", val |-> File[i].ip, ttl |-> LocalTTL]
<1>2. k \in FileRR /\ k.name = name /\ k.type = "A"
    BY <1>1 DEF FileRR
<1>. HIDE DEF k
<1>. QED
    BY <1>2 DEF KnownRR

LEMMA ScanHeap ==
    ASSUME Inv, HeapInv, NEW w \in Workers, Scan(w)
    PROVE  HeapInv'
<1>. DEFINE q    == Question(w)
            rec  == [name |-> q.name, type |-> "A", val |-> WordAt(pos), ttl |-> LocalTTL]
            tmp  == addRR2Item(<<rec>>)
<1>1. /\ pc[w] = "scan" /\ Goto(w, "put") /\ Malloc(req[w], {"data"})
      /\ items' = [items EXCEPT ![w] = <<tmp>>] /\ todo' = [todo EXCEPT ![w] = <<tmp>>]
      /\ UNCHANGED <<poolVars, ask, cache>>
    BY DEF Scan, At
<1>2. /\ Held(w) = {"msg", "arg"} /\ q.type = "A" /\ q.name \in Names
      /\ Lines(q.name) # {}
    BY <1>1, OwnRequest DEF Held, Relayed, HeapInv, Path
<1>3. /\ pc'[w] = "put" /\ \A v \in Workers \ {w} : pc'[v] = pc[v]
      /\ items'[w] = <<tmp>> /\ \A v \in Workers \ {w} : items'[v] = items[v]
      /\ todo'[w] = <<tmp>> /\ \A v \in Workers \ {w} : todo'[v] = todo[v]
    BY <1>1 DEF Goto, Inv, RestOK
<1>4. tmp = [name |-> q.name, type |-> "A", vals |-> <<WordAt(pos)>>, ddl |-> LocalTTL + now]
    BY DEF addRR2Item, Last
<1>5. tmp \in KnownItems
  <2>1. WordAt(pos) \in Data
      BY WordIsAddress DEF Inv, RestOK, Data
  <2>2. LocalTTL + now \in Nat
      BY TTLsNat DEF Inv, RestOK
  <2>3. <<WordAt(pos)>> \in Seq(Data) /\ "A" \in CachedTypes
      BY <2>1 DEF CachedTypes
  <2>. HIDE DEF q, tmp
  <2>4. tmp \in Items /\ tmp.name = q.name /\ tmp.type = "A"
      BY <1>2, <1>4, <2>2, <2>3 DEF Items
  <2>. QED
      BY <1>2, <2>4, LineKnown DEF KnownItems
<1>. HIDE DEF tmp
<1>6. Held(w)' = {"msg", "arg"}
    BY <1>3 DEF Held, Relayed
<1>7. {"data"} \subseteq Leaks(q) \cup Held(w)' /\ Held(w) \subseteq Held(w)'
    BY <1>2, <1>6 DEF Leaks
<1>8. HeapOK' /\ Path'
  <2>1. HeapOK /\ Path /\ pc[w] # "idle" /\ UNCHANGED <<poolVars, ask>>
      BY <1>1 DEF HeapInv
  <2>. DEFINE more == {"data"}
              to == "put"
  <2>2. /\ more \subseteq Leaks(q) \cup Held(w)' /\ Malloc(req[w], more) /\ Goto(w, to)
        /\ to \in {"getCname", "getAlias", "file", "scan"} => q.type = "A"
        /\ to = "scan" => Lines(q.name) # {}
      BY <1>1, <1>7
  <2>. HIDE DEF more, to
  <2>. QED
      BY <1>3, <1>7, <2>1, <2>2, GrowHeap
<1>9. Sources'
  <2>1. \A v \in Workers : /\ todo'[v] \in Seq(KnownItems)
                           /\ pc'[v] = "store" => todo'[v] # <<>>
    <3>1. <<tmp>> \in Seq(KnownItems)
        BY <1>5
    <3>. QED
        BY <1>3, <3>1 DEF HeapInv, Sources
  <2>2. Stored' = Stored
      BY <1>1 DEF Stored
  <2>. QED
      BY <1>1, <2>1, <2>2 DEF HeapInv, Sources
<1>. QED
    BY <1>8, <1>9 DEF HeapInv

LEMMA CachePutHeap ==
    ASSUME Inv, HeapInv, NEW w \in Workers, CachePut(w)
    PROVE  HeapInv'
<1>. DEFINE it    == Head(todo[w])
            k     == <<it.name, it.type>>
            entry == [item |-> it, saveTime |-> now, TTL |-> ttl[w]]
<1>1. /\ pc[w] = "store" /\ Goto(w, "put") /\ todo' = [todo EXCEPT ![w] = Tail(todo[w])]
      /\ UNCHANGED <<poolVars, ask, heap, items>>
    BY DEF CachePut, At, Inv, RestOK
<1>2. PICK out : cache' = [cache EXCEPT ![out] = NoEntry, ![k] = entry]
    BY DEF CachePut
<1>3. /\ pc'[w] = "put" /\ \A v \in Workers \ {w} : pc'[v] = pc[v]
      /\ todo'[w] = Tail(todo[w]) /\ \A v \in Workers \ {w} : todo'[v] = todo[v]
    BY <1>1 DEF Goto, Inv, RestOK
<1>4. it \in KnownItems /\ Tail(todo[w]) \in Seq(KnownItems)
    BY <1>1, HeadTailProperties DEF HeapInv, Sources
<1>5. entry.item = it
    OBVIOUS
<1>. HIDE DEF it, k, entry
<1>6. /\ DOMAIN cache' = DOMAIN cache
      /\ \A j \in DOMAIN cache : cache'[j] \in {cache[j], NoEntry, entry}
    BY <1>2
<1>7. \A j \in Stored' : cache'[j].item \in KnownItems
  <2>1. \A j \in Stored' : cache'[j] = entry \/ (j \in Stored /\ cache'[j] = cache[j])
      BY <1>6 DEF Stored
  <2>. QED
      BY <1>4, <1>5, <2>1 DEF HeapInv, Sources
<1>8. Sources'
  <2>1. \A v \in Workers : /\ todo'[v] \in Seq(KnownItems)
                           /\ pc'[v] = "store" => todo'[v] # <<>>
      BY <1>3, <1>4 DEF HeapInv, Sources
  <2>. QED
      BY <1>7, <2>1 DEF Sources
<1>9. Held(w)' = Held(w)
    BY <1>1, <1>3 DEF Held, Relayed
<1>10. HeapOK' /\ Path'
  <2>. DEFINE none == {}
              to == "put"
  <2>1. /\ HeapOK /\ Path /\ pc[w] # "idle" /\ UNCHANGED <<poolVars, ask>>
        /\ UNCHANGED heap /\ none = {} /\ \A v \in Workers \ {w} : items'[v] = items[v]
      BY <1>1 DEF HeapInv
  <2>2. /\ none \subseteq Leaks(Question(w)) \cup Held(w)' /\ Held(w) \subseteq Held(w)'
        /\ to \in {"getCname", "getAlias", "file", "scan"} => Question(w).type = "A"
        /\ to = "scan" => Lines(Question(w).name) # {}
        /\ Goto(w, to)
      BY <1>1, <1>9
  <2>. HIDE DEF none, to
  <2>. QED
      BY <2>1, <2>2, GrowHeap
<1>. QED
    BY <1>8, <1>10 DEF HeapInv

(* The ends of handler. *)
LEMMA ReturnStep ==
    ASSUME Inv, HeapInv, NEW w \in Workers, pc[w] # "idle", Return(w),
           UNCHANGED <<ask, todo, cache>>,
           \A v \in Workers \ {w} : items'[v] = items[v],
           NEW freed, Free(req[w], freed) \/ (UNCHANGED heap /\ freed = {}),
           Held(w) \subseteq freed
    PROVE  HeapInv'
<1>1. req[w] \in Requests
    BY OwnRequest
<1>2. heap[req[w]] \subseteq Leaks(Question(w)) \cup Held(w)
    BY DEF HeapInv, HeapOK
<1>. DEFINE blocks == heap[req[w]] \ freed
<1>3. heap' = [heap EXCEPT ![req[w]] = blocks]
  <2>1. CASE Free(req[w], freed)
      BY <2>1 DEF Free
  <2>2. CASE UNCHANGED heap /\ freed = {}
      BY <1>1, <2>2 DEF Inv, RestOK
  <2>. QED
      BY <2>1, <2>2
<1>4. blocks \subseteq Leaks(Question(w))
    BY <1>2
<1>. HIDE DEF blocks
<1>5. HeapOK'
    BY <1>3, <1>4, ReturnHeap DEF HeapInv
<1>6. /\ pc'[w] = "idle"
      /\ \A v \in Workers \ {w} : pc'[v] = pc[v] /\ req'[v] = req[v]
    BY DEF Return, Goto, Inv, RestOK
<1>7. Path'
    BY <1>6, PathKept DEF HeapInv
<1>8. Sources'
    BY <1>6, SourcesKept DEF HeapInv
<1>. QED
    BY <1>5, <1>7, <1>8 DEF HeapInv

LEMMA EndHeap ==
    ASSUME Inv, HeapInv, NEW w \in Workers,
           Reply(w) \/ ReplyLocal(w) \/ SendFails(w) \/ RecvTimeout(w) \/ PutDone(w)
    PROVE  HeapInv'
<1>1. /\ pc[w] \in {"reply", "put", "relay", "wait"} /\ Return(w)
      /\ UNCHANGED <<ask, todo, cache>>
    BY DEF Reply, ReplyLocal, SendFails, RecvTimeout, PutDone, At, ownVars, memVars
<1>2. \A v \in Workers \ {w} : items'[v] = items[v]
  <2>1. items' = [items EXCEPT ![w] = <<>>] \/ UNCHANGED items
      BY DEF Reply, ReplyLocal, SendFails, RecvTimeout, PutDone, ownVars
  <2>. QED
      BY <2>1 DEF Inv, RestOK
<1>3. \/ pc[w] = "reply" /\ Free(req[w], {"it", "tit", "msg", "arg"})
      \/ ~Relayed(w) /\ pc[w] # "reply" /\ Free(req[w], {"msg", "arg"})
      \/ Relayed(w) /\ UNCHANGED heap
    BY DEF Reply, ReplyLocal, SendFails, RecvTimeout, PutDone, At, Relayed
<1>4. \E freed : /\ Free(req[w], freed) \/ (UNCHANGED heap /\ freed = {})
                 /\ Held(w) \subseteq freed
    BY <1>3 DEF Held, Relayed
<1>. QED
    BY <1>1, <1>2, <1>4, ReturnStep

(* The answer of the upstream server becomes items. *)
LEMMA AnswerKnown ==
    ASSUME AnswersRead, RestOK, NEW m \in Asks, NEW said \in Said(m)
    PROVE  ItemsOf(decode(foreignEncode(said)).rr[ANSWER]) \in Seq(KnownItems)
<1>. DEFINE rrs == decode(foreignEncode(said)).rr[ANSWER]
<1>1. rrs \in Upstream[m.ques[1]] /\ m.ques[1] \in DOMAIN Upstream
    BY ServerAssumption DEF AnswersRead
<1>. HIDE DEF rrs
<1>2. rrs \in Seq(RR)
    BY <1>1, ServerAssumption
<1>3. \A i \in 1..Len(rrs) : rrs[i] \in ToSet(rrs)
    BY <1>2, LenProperties DEF ToSet
<1>4. ToSet(rrs) \subseteq KnownRR
    BY <1>1 DEF KnownRR, SaidRR
<1>5. ItemsOf(rrs) \in Seq(KnownItems)
    BY <1>2, <1>3, <1>4, ItemsOfKnown
<1>. QED
    BY <1>5 DEF rrs

LEMMA RecvAnswerHeap ==
    ASSUME AnswersRead, Inv, HeapInv, NEW w \in Workers, RecvAnswer(w)
    PROVE  HeapInv'
<1>1. /\ pc[w] = "wait" /\ pc' = [pc EXCEPT ![w] = "put"]
      /\ heap' = [heap EXCEPT ![req[w]] = @ \ {"msg", "arg"}]
      /\ UNCHANGED <<poolVars, ask, items, cache>>
    BY DEF RecvAnswer, At, Free, Goto
<1>2. PICK said \in Said(ask[req[w]]) :
         todo' = [todo EXCEPT ![w] = ItemsOf(decode(foreignEncode(said)).rr[ANSWER])]
    BY DEF RecvAnswer
<1>3. ask[req[w]] \in Asks
    BY <1>1, OwnRequest
<1>4. todo'[w] \in Seq(KnownItems) /\ \A v \in Workers \ {w} : todo'[v] = todo[v]
    BY <1>2, <1>3, AnswerKnown DEF Inv, RestOK
<1>5. /\ pc'[w] = "put"
      /\ \A v \in Workers \ {w} : pc'[v] = pc[v] /\ req'[v] = req[v] /\ items'[v] = items[v]
    BY <1>1 DEF Inv, RestOK, poolVars
<1>6. Sources'
  <2>1. Stored' = Stored
      BY <1>1 DEF Stored
  <2>2. \A v \in Workers : /\ todo'[v] \in Seq(KnownItems)
                           /\ pc'[v] = "store" => todo'[v] # <<>>
      BY <1>4, <1>5 DEF HeapInv, Sources
  <2>. QED
      BY <1>1, <2>1, <2>2 DEF HeapInv, Sources
<1>7. Path'
    BY <1>1, <1>5, PathKept DEF HeapInv
<1>8. HeapOK'
  <2>1. Held(w) = {"msg", "arg"}
      BY <1>1 DEF Held, Relayed
  <2>2. heap[req[w]] \subseteq Leaks(Question(w)) \cup Held(w)
      BY <1>1 DEF HeapInv, HeapOK
  <2>. DEFINE blocks == heap[req[w]] \ {"msg", "arg"}
  <2>3. blocks \subseteq Leaks(Question(w)) \cup Held(w)'
      BY <2>1, <2>2
  <2>4. heap' = [heap EXCEPT ![req[w]] = blocks] /\ pc[w] # "idle" /\ UNCHANGED <<poolVars, ask>>
      BY <1>1
  <2>. HIDE DEF blocks
  <2>. QED
      BY <1>5, <2>3, <2>4, MoveHeap DEF HeapInv
<1>. QED
    BY <1>6, <1>7, <1>8 DEF HeapInv

LEMMA HeapStep ==
    ASSUME AnswersRead
    PROVE  Inv /\ HeapInv /\ [Next]_vars => HeapInv'
<1>. SUFFICES ASSUME Inv, HeapInv, [Next]_vars PROVE HeapInv'
    OBVIOUS
<1>1. ASSUME NEW m \in Asks, Receive(m) PROVE HeapInv'
  <2>1. UNCHANGED <<cache, todo, pc>>
      BY <1>1 DEF Receive, memVars, ownVars
  <2>. QED
      BY <1>1, <2>1, ReceiveHeap, SourcesKept DEF HeapInv
<1>2. CASE \/ UNCHANGED vars \/ Start \/ StartFails \/ ReceiveFails \/ Tick
           \/ \E w \in Workers : ShowRequest(w) \/ SocketFails(w)
  <2>1. UNCHANGED <<poolVars, ask, heap, pc, items, cache, todo>>
      BY <1>2 DEF Start, StartFails, ReceiveFails, Tick, ShowRequest, SocketFails, vars,
                  memVars, ownVars
  <2>. QED
      BY <2>1, HeapKept, SourcesKept DEF HeapInv
<1>3. ASSUME NEW w \in Workers, Take(w) PROVE HeapInv'
  <2>1. UNCHANGED <<cache, todo>>
      BY <1>3 DEF Take, memVars, ownVars
  <2>2. \A v \in Workers : pc'[v] = "store" => pc[v] = "store"
      BY <1>3 DEF Take, Goto, Inv, RestOK
  <2>. QED
      BY <1>3, <2>1, <2>2, TakeHeap, SourcesKept DEF HeapInv
<1>. QED
    BY <1>1, <1>2, <1>3, GetItemHeap, GetCnameHeap, GetAliasHeap, PassHeap, ScanHeap,
       CachePutHeap, EndHeap, RecvAnswerHeap DEF Next, Work

LEMMA HeapInit == Init => HeapInv
<1>. SUFFICES ASSUME Init PROVE HeapInv
    OBVIOUS
<1>1. Stored = {} /\ Elements(queue) = {}
    BY DEF Init, Stored, Elements
<1>2. HeapOK /\ Path /\ Sources
    BY <1>1 DEF Init, HeapOK, Path, Sources
<1>. QED
    BY <1>2 DEF HeapInv

(* If decode reads single answers as they were meant (AnswersRead), then   *)
(* in every interleaving a handler that has returned has freed all it had  *)
(* allocated but for the two leaks of server.c:237 and :256, and these     *)
(* only for questions that can have gone that way.                         *)
THEOREM HeapCount ==
    ASSUME AnswersRead
    PROVE  Spec => []HeapAccounted
<1>1. HeapInv => HeapAccounted
  <2>. SUFFICES ASSUME HeapInv, NEW r \in done
                PROVE  LET q == ask[r].ques[1]
                       IN  /\ heap[r] \subseteq {"it", "data"}
                           /\ "it" \in heap[r] =>
                                 /\ q.type = "A"
                                 /\ \E k \in KnownRR : k.name = q.name /\ k.type = "CNAME"
                           /\ "data" \in heap[r] => q.type = "A" /\ Lines(q.name) # {}
      BY DEF HeapAccounted
  <2>1. heap[r] \subseteq Leaks(ask[r].ques[1])
      BY DEF HeapInv, HeapOK
  <2>. QED
      BY <2>1 DEF Leaks
<1>. QED
    BY <1>1, HeapInit, HeapStep, Invariance, PTL DEF Spec

-----------------------------------------------------------------------------
(***************************************************************************)
(* What the replies say.                                                   *)
(***************************************************************************)

(* The cases in which a value can only come from a record of its own name, *)
(* and those in which the file alone decides about its names.              *)
NotMixed  == OneNameEach /\ (OneThread \/ File = <<>>)
FileRules == OneThread /\ FileApart

InFile(q)    == q.type = "A" /\ Lines(q.name) # {}
FileIp(name) == File[Max(Lines(name))].ip

DataOf(type) == IF type = "A" THEN Addresses ELSE Names

(* The answers of the upstream server that have been passed on; they are   *)
(* never forgotten.                                                        *)
Passings == {a \in UNION {Sent(r) : r \in Requests} : a.passed}

(* Where an item comes from and when its deadline was set: by an answer a  *)
(* that has all its values, or by the file.                                *)
FromAnswer(it, a, t) ==
    /\ a.at \in 0..t
    /\ \A i \in 1..Len(it.vals) : \E k \in ToSet(Answers(a)) :
          k.type = it.type /\ k.val = it.vals[i]
    /\ LastOf(Answers(a), it.type).name = it.name
    /\ it.ddl = a.at + LastOf(Answers(a), it.type).ttl
FromFile(it, t) ==
    /\ it.type = "A" /\ Lines(it.name) # {}
    /\ \E at \in 0..t : it.ddl = at + LocalTTL

(* The items there may be at the time t, when the answers in past have     *)
(* been passed on.                                                         *)
SoundIn(past, t) ==
    {it \in Items :
        /\ Len(it.vals) # 0
        /\ \A i \in 1..Len(it.vals) : it.vals[i] \in DataOf(it.type)
        /\ FromFile(it, t) \/ \E a \in past : FromAnswer(it, a, t)
        /\ NotMixed => \A i \in 1..Len(it.vals) : \E k \in KnownRR :
              k.name = it.name /\ k.type = it.type /\ k.val = it.vals[i]
        /\ FileRules /\ Lines(it.name) # {} =>
              it.type = "A" /\ it.vals = <<FileIp(it.name)>>}
Sound == SoundIn(Passings, now)

(* What the workers and the cache hold. *)
Stock ==
    /\ items \in [Workers -> Seq(Sound)] /\ todo \in [Workers -> Seq(Sound)]
    /\ ttl \in [Workers -> Int]
    /\ \A k \in Stored : cache[k].item \in Sound /\ cache[k].TTL \in Int

(* Only threads of the pool work. *)
Crew ==
    /\ \A w \in Workers : pc[w] # "idle" => w \in crew
    /\ sys = "starting" => crew = {}
    /\ OneThread => \A v, w \in crew : v = w

(* The items its answer the question q. *)
About(q, its) ==
    /\ its[1].name = q.name
    /\ \/ Len(its) = 1 /\ its[1].type = q.type
       \/ /\ Len(its) = 2 /\ q.type = "A" /\ its[1].type = "CNAME"
          /\ its[2].type = "A" /\ its[2].name = its[1].vals[1]

(* What handler has found out on the way to each point. *)
Knows(w) ==
    /\ pc[w] = "get" => Question(w).type \in CachedTypes
    /\ pc[w] = "getAlias" =>
          Len(items[w]) = 1 /\ items[w][1].name = Question(w).name /\ items[w][1].type = "CNAME"
    /\ pc[w] = "reply" \/ (pc[w] \in {"put", "store"} /\ items[w] # <<>>) =>
          About(Question(w), items[w])
    /\ pc[w] \in {"relay", "wait"} => ~InFile(Question(w))
    /\ OneThread /\ pc[w] = "scan" => pos = Index(Question(w).name)

(* A record that was not made up, and one whose TTL at the time t goes     *)
(* back to an answer passed on, or to the file.                            *)
RecordOK(rr)        == NotMixed => \E k \in KnownRR : rr = [k EXCEPT !.ttl = rr.ttl]
Traced(rr, t, past) == (\E a \in past : OutOf(a, rr, t)) \/ OutOfFile(rr, t)
RecordNow(rr)       == RecordOK(rr) /\ Traced(rr, now, Passings)

(* The file has its say in the reply m to a question for the address of    *)
(* name.                                                                   *)
AsFile(name, m) ==
    IF FileIp(name) = Zero THEN RcodeBits(m.flag) = Bits(NAME_ERR) /\ Answers(m) = <<>>
    ELSE /\ RcodeBits(m.flag) = Bits(NO_ERR)
         /\ [i \in DOMAIN Answers(m) |-> Answers(m)[i].val] = <<FileIp(name)>>

ReplyOK(asked, m, past) ==
    /\ m.msg.ques = asked.ques
    /\ \A rr \in ToSet(Answers(m)) : RecordOK(rr) /\ (m.passed \/ Traced(rr, m.at, past))
    /\ UpstreamAsked => OnTopic(asked.ques[1].name, Answers(m))
    /\ FileRules /\ InFile(asked.ques[1]) => AsFile(asked.ques[1].name, m)

Replies == \A r \in Requests : \A m \in Sent(r) : ReplyOK(ask[r], m, Passings)

Content == Stock /\ Crew /\ (\A w \in Workers : Knows(w)) /\ Replies

-----------------------------------------------------------------------------
(* Known records, and time. *)

LEMMA KnownFields == SaidRR \subseteq RR /\ KnownRR \subseteq RR
<1>1. ASSUME NEW k \in SaidRR PROVE k \in RR
  <2>1. PICK q \in DOMAIN Upstream, s \in UNION {Upstream[x] : x \in DOMAIN Upstream} :
           k \in ToSet(s)
      BY DEF SaidRR
  <2>2. s \in Seq(RR)
      BY ServerAssumption
  <2>. QED
      BY <2>1, <2>2, ElementOfSeq, LenProperties DEF ToSet
<1>2. ASSUME NEW k \in FileRR PROVE k \in RR
  <2>1. PICK i \in DOMAIN File :
           k = [name |-> File[i].domain, type |-> "A", val |-> File[i].ip, ttl |-> LocalTTL]
      BY DEF FileRR
  <2>2. File[i] \in [ip : Addresses, domain : Names]
    <3>1. File \in Seq([ip : Addresses, domain : Names])
        BY ServerAssumption
    <3>. QED
        BY <2>1, <3>1, ElementOfSeq, LenProperties
  <2>. QED
      BY <2>1, <2>2, TTLsNat DEF RR, CachedRR
<1>. QED
    BY <1>1, <1>2 DEF KnownRR

LEMMA SeqMonotone ==
    ASSUME NEW S, NEW T, S \subseteq T
    PROVE  Seq(S) \subseteq Seq(T)
<1>. SUFFICES ASSUME NEW s \in Seq(S) PROVE s \in Seq(T)
    OBVIOUS
<1>1. /\ Len(s) \in Nat /\ s = [i \in 1..Len(s) |-> s[i]]
      /\ \A i \in 1..Len(s) : s[i] \in S
    BY LenProperties, ElementOfSeq
<1>2. \A i \in 1..Len(s) : s[i] \in T
    BY <1>1
<1>. QED
    BY <1>1, <1>2, SeqOfElements

(* What is sound stays sound. *)
LEMMA SoundLater ==
    ASSUME now \in Int, now' \in Int, now <= now', Passings \subseteq Passings'
    PROVE  Sound \subseteq Sound' /\ Seq(Sound) \subseteq Seq(Sound')
<1>1. ASSUME NEW it \in Sound PROVE it \in Sound'
  <2>1. FromFile(it, now) => FromFile(it, now')
      BY DEF FromFile
  <2>2. ASSUME NEW a \in Passings, FromAnswer(it, a, now) PROVE FromAnswer(it, a, now')
      BY <2>2 DEF FromAnswer
  <2>3. FromFile(it, now') \/ \E a \in Passings' : FromAnswer(it, a, now')
      BY <2>1, <2>2 DEF Sound, SoundIn
  <2>. QED
      BY <2>3 DEF Sound, SoundIn
<1>. QED
    BY <1>1, SeqMonotone

LEMMA SoundSame ==
    ASSUME UNCHANGED <<now, sent>>
    PROVE  Sound' = Sound /\ Passings' = Passings
<1>1. Passings' = Passings
    BY DEF Passings, Sent
<1>. QED
    BY <1>1 DEF Sound

(* More answers passed on: what was right stays right. *)
LEMMA ReplyLater ==
    ASSUME NEW asked, NEW m, NEW past, NEW later, past \subseteq later, ReplyOK(asked, m, past)
    PROVE  ReplyOK(asked, m, later)
BY DEF ReplyOK, Traced

(* What is left of the life of a sound item, as the client reads it. *)
LEMMA TimeLeftRange ==
    ASSUME RestOK, NEW it \in Sound
    PROVE  TimeLeft(it) \in TTLs
<1>1. UintMod \in Nat \ {0}
    BY TTLsNat DEF TTLs
<1>. DEFINE d == it.ddl - now
<1>2. d \in Int
    BY DEF RestOK, Sound, SoundIn, Items
<1>3. TimeLeft(it) = d % UintMod
    BY DEF TimeLeft
<1>. HIDE DEF d
<1>4. d % UintMod \in 0..(UintMod - 1)
    BY <1>1, <1>2
<1>. QED
    BY <1>3, <1>4 DEF TTLs

-----------------------------------------------------------------------------
(* Where items come from: an answer of the upstream server ... *)

LEMMA ItemSound ==
    ASSUME RestOK, NEW q \in DOMAIN Upstream, NEW s \in Upstream[q],
           NEW recs, Alike(recs, s),
           NEW past, NEW a \in past, a.at = now, Answers(a) = s
    PROVE  addRR2Item(recs) \in SoundIn(past, now)
<1>0. s \in Seq(RR) /\ recs \in Seq(RR) /\ Len(recs) # 0
    BY ServerAssumption DEF Alike
<1>1. /\ DOMAIN recs = 1..Len(recs) /\ Len(recs) \in Nat /\ Last(recs) = recs[Len(recs)]
      /\ DOMAIN s = 1..Len(s)
    BY <1>0, LenProperties DEF Last
<1>2. Len(recs) \in 1..Len(recs)
    BY <1>0, <1>1
<1>. DEFINE last == recs[Len(recs)]
            vals == [i \in 1..Len(recs) |-> recs[i].val]
            it   == addRR2Item(recs)
<1>3. ASSUME NEW n \in 1..Len(recs)
      PROVE  /\ recs[n] \in RR /\ recs[n] \in SaidRR /\ recs[n] \in KnownRR
             /\ recs[n].type = last.type
  <2>1. PICK i \in 1..Len(s) : recs[n] = s[i] /\ recs[n].type = last.type
      BY DEF Alike
  <2>2. s[i] \in ToSet(s)
      BY <1>1 DEF ToSet
  <2>3. s[i] \in SaidRR
      BY <2>2 DEF SaidRR
  <2>. QED
      BY <2>1, <2>3, KnownFields DEF KnownRR
<1>4. it = [name |-> last.name, type |-> last.type, vals |-> vals, ddl |-> last.ttl + now]
    BY <1>1 DEF addRR2Item
<1>5. last.type \in CachedTypes
    BY DEF Alike
<1>6. last.name \in Names /\ last.ttl \in Nat /\ now \in Nat
    BY <1>2, <1>3, RecordFields DEF RestOK
<1>7. \A i \in 1..Len(recs) : recs[i].val \in Data /\ recs[i].val \in DataOf(last.type)
  <2>. TAKE n \in 1..Len(recs)
  <2>1. recs[n] \in RR /\ recs[n].type = last.type
      BY <1>3
  <2>2. /\ recs[n].val \in Data /\ (last.type = "A" => recs[n].val \in Addresses)
        /\ (last.type \in StringTypes => recs[n].val \in Names)
        /\ last.type \in {"A"} \cup StringTypes
      BY <1>5, <2>1, RecordFields
  <2>. QED
      BY <2>2 DEF DataOf
<1>8. OneNameEach => \A i \in 1..Len(recs) : recs[i].name = last.name
  <2>. SUFFICES ASSUME OneNameEach, NEW n \in 1..Len(recs)
                PROVE  recs[n].name = last.name
      OBVIOUS
  <2>1. PICK i \in 1..Len(s) : recs[n] = s[i] /\ recs[n].type = last.type
      BY DEF Alike
  <2>2. PICK j \in 1..Len(s) : last = s[j]
      BY <1>2 DEF Alike
  <2>. QED
      BY <1>1, <2>1, <2>2 DEF OneNameEach
<1>9. FileRules => Lines(last.name) = {}
    BY <1>2, <1>3 DEF FileRules, FileApart
<1>10. /\ last \in KnownRR
       /\ \A i \in 1..Len(recs) : recs[i] \in KnownRR /\ recs[i].type = last.type
    BY <1>2, <1>3
<1>11. /\ \A i \in 1..Len(recs) : vals[i] = recs[i].val
       /\ DOMAIN vals = 1..Len(recs) /\ vals = [i \in 1..Len(recs) |-> vals[i]]
    OBVIOUS
<1>. HIDE DEF last, it, vals
<1>12. vals \in Seq(Data)
    BY <1>1, <1>7, <1>11, SeqOfElements
<1>13. Len(vals) = Len(recs)
    BY <1>1, <1>11, <1>12, LenProperties
<1>14. it \in Items /\ it.name = last.name /\ it.type = last.type /\ it.vals = vals
       /\ it.ddl = last.ttl + now
    BY <1>4, <1>5, <1>6, <1>12 DEF Items
<1>15. \A i \in 1..Len(it.vals) : it.vals[i] \in DataOf(it.type)
    BY <1>7, <1>11, <1>13, <1>14
<1>16. FromAnswer(it, a, now)
  <2>1. ASSUME NEW i \in 1..Len(it.vals)
        PROVE  \E k \in ToSet(s) : k.type = it.type /\ k.val = it.vals[i]
    <3>1. i \in 1..Len(recs) /\ it.vals[i] = recs[i].val /\ recs[i].type = it.type
        BY <1>10, <1>11, <1>13, <1>14
    <3>2. PICK j \in 1..Len(s) : recs[i] = s[j]
        BY <3>1 DEF Alike
    <3>3. s[j] \in ToSet(s)
        BY <1>1 DEF ToSet
    <3>. QED
        BY <3>1, <3>2, <3>3
  <2>2. LastOf(s, it.type) = last
      BY <1>14 DEF Alike, last
  <2>3. it.ddl = a.at + last.ttl /\ a.at \in 0..now
      BY <1>6, <1>14
  <2>. QED
      BY <1>14, <2>1, <2>2, <2>3 DEF FromAnswer
<1>17. NotMixed => \A i \in 1..Len(it.vals) : \E k \in KnownRR :
          k.name = it.name /\ k.type = it.type /\ k.val = it.vals[i]
  <2>. SUFFICES ASSUME OneNameEach, NEW i \in 1..Len(it.vals)
                PROVE  \E k \in KnownRR :
                          k.name = it.name /\ k.type = it.type /\ k.val = it.vals[i]
      BY DEF NotMixed
  <2>1. i \in 1..Len(recs) /\ it.vals[i] = recs[i].val
      BY <1>11, <1>13, <1>14
  <2>2. recs[i] \in KnownRR /\ recs[i].name = it.name /\ recs[i].type = it.type
      BY <1>8, <1>10, <1>14, <2>1
  <2>. QED
      BY <2>1, <2>2
<1>18. FileRules => Lines(it.name) = {}
    BY <1>9, <1>14
<1>19. Len(it.vals) # 0
    BY <1>0, <1>13, <1>14
<1>20. it \in SoundIn(past, now)
    BY <1>14, <1>15, <1>16, <1>17, <1>18, <1>19 DEF SoundIn
<1>. QED
    BY <1>20 DEF it

LEMMA AnswerSound ==
    ASSUME AnswersRead, RestOK, NEW m \in Asks, NEW said \in Said(m),
           NEW past, NEW a \in past, a.at = now,
           Answers(a) = decode(foreignEncode(said)).rr[ANSWER]
    PROVE  ItemsOf(decode(foreignEncode(said)).rr[ANSWER]) \in Seq(SoundIn(past, now))
<1>. DEFINE rrs == decode(foreignEncode(said)).rr[ANSWER]
<1>1. rrs \in Upstream[m.ques[1]] /\ m.ques[1] \in DOMAIN Upstream
    BY ServerAssumption DEF AnswersRead
<1>. HIDE DEF rrs
<1>2. rrs \in Seq(RR)
    BY <1>1, ServerAssumption
<1>3. Answers(a) = rrs
    BY DEF rrs
<1>4. \A recs : Alike(recs, rrs) => addRR2Item(recs) \in SoundIn(past, now)
    BY <1>1, <1>3, ItemSound
<1>. DEFINE all == SoundIn(past, now)
<1>5. \A recs : Alike(recs, rrs) => addRR2Item(recs) \in all
    BY <1>4
<1>. HIDE DEF all
<1>6. ItemsOf(rrs) \in Seq(all)
    BY <1>2, <1>5, ItemsOfIn
<1>. QED
    BY <1>6 DEF rrs, all

(* ... or a line of the file. *)
LEMMA FileWord ==
    ASSUME NEW name, Lines(name) # {}
    PROVE  /\ FileIp(name) \in Addresses /\ WordAt(Index(name)) = FileIp(name)
           /\ [name |-> name, type |-> "A", val |-> FileIp(name), ttl |-> LocalTTL] \in KnownRR
<1>1. /\ Len(File) \in Nat /\ Lines(name) \in SUBSET (1..Len(File))
      /\ File \in Seq([ip : Addresses, domain : Names]) /\ DOMAIN File = 1..Len(File)
    BY ServerAssumption, LenProperties DEF Lines
<1>2. \E x \in Lines(name) : \A y \in Lines(name) : x >= y
    BY <1>1, LargestElement
<1>. DEFINE i == Max(Lines(name))
<1>3. i \in Lines(name)
    BY <1>2 DEF Max
<1>4. Index(name) = 2 * i - 1 /\ FileIp(name) = File[i].ip
    BY DEF Index, FileIp
<1>. HIDE DEF i
<1>5. i \in 1..Len(File) /\ File[i].domain = name
    BY <1>1, <1>3 DEF Lines
<1>6. File[i] \in [ip : Addresses, domain : Names]
    BY <1>1, <1>5, ElementOfSeq
<1>7. (2 * i - 1) % 2 = 1 /\ 2 * i - 1 < 2 * Len(File) /\ (2 * i - 1 + 1) \div 2 = i
    BY <1>1, <1>5
<1>8. WordAt(Index(name)) = File[i].ip
    BY <1>4, <1>7 DEF WordAt
<1>9. [name |-> name, type |-> "A", val |-> File[i].ip, ttl |-> LocalTTL] \in KnownRR
    BY <1>1, <1>5 DEF KnownRR, FileRR
<1>. QED
    BY <1>4, <1>6, <1>8, <1>9

LEMMA LineSound ==
    ASSUME RestOK, NEW name \in Names, Lines(name) # {}, OneThread => pos = Index(name)
    PROVE  LET rec == [name |-> name, type |-> "A", val |-> WordAt(pos), ttl |-> LocalTTL]
           IN  /\ addRR2Item(<<rec>>) \in Sound
               /\ addRR2Item(<<rec>>).name = name /\ addRR2Item(<<rec>>).type = "A"
<1>. DEFINE rec == [name |-> name, type |-> "A", val |-> WordAt(pos), ttl |-> LocalTTL]
            it  == addRR2Item(<<rec>>)
            k   == [name |-> name, type |-> "A", val |-> FileIp(name), ttl |-> LocalTTL]
            word == WordAt(pos)
<1>1. it = [name |-> name, type |-> "A", vals |-> <<WordAt(pos)>>, ddl |-> LocalTTL + now]
    BY DEF addRR2Item, Last
<1>2. word \in Addresses
    BY WordIsAddress DEF RestOK
<1>3. k \in KnownRR /\ k.name = name /\ k.type = "A" /\ k.val = FileIp(name) /\ k.ttl = LocalTTL
    BY FileWord
<1>4. OneThread => word = FileIp(name)
    BY FileWord
<1>5. File # <<>>
    BY DEF Lines
<1>6. LocalTTL + now \in Nat /\ now \in 0..now /\ LocalTTL + now = now + LocalTTL
    BY TTLsNat DEF RestOK
<1>. HIDE DEF it, k, word
<1>7. <<word>> \in Seq(Data) /\ Len(<<word>>) = 1 /\ <<word>>[1] = word
    BY <1>2 DEF Data
<1>8. /\ it \in Items /\ it.name = name /\ it.type = "A" /\ it.vals = <<word>>
      /\ it.ddl = LocalTTL + now
    BY <1>1, <1>6, <1>7 DEF Items, CachedTypes, word
<1>9. Len(it.vals) # 0 /\ \A i \in 1..Len(it.vals) : i = 1 /\ it.vals[i] = word
    BY <1>7, <1>8
<1>10. \A i \in 1..Len(it.vals) : it.vals[i] \in DataOf(it.type)
    BY <1>2, <1>8, <1>9 DEF DataOf
<1>11. k.name = it.name /\ k.type = it.type /\ FromFile(it, now)
    BY <1>3, <1>6, <1>8 DEF FromFile
<1>12. NotMixed => \A i \in 1..Len(it.vals) : k.val = it.vals[i]
    BY <1>3, <1>4, <1>5, <1>9 DEF NotMixed
<1>13. FileRules => it.type = "A" /\ it.vals = <<FileIp(it.name)>>
    BY <1>4, <1>8 DEF FileRules
<1>14. it \in Sound
    BY <1>3, <1>8, <1>9, <1>10, <1>11, <1>12, <1>13 DEF Sound, SoundIn
<1>. QED
    BY <1>8, <1>14 DEF it

-----------------------------------------------------------------------------
(* What the client reads. *)

LEMMA MinOfTwo ==
    ASSUME NEW a \in Int, NEW b \in Int
    PROVE  Min({a, b}) = IF a <= b THEN a ELSE b
<1>1. \E x \in {a, b} : \A y \in {a, b} : x <= y
    OBVIOUS
<1>2. Min({a, b}) \in {a, b} /\ \A y \in {a, b} : Min({a, b}) <= y
    BY <1>1 DEF Min
<1>. QED
    BY <1>2

(* The records made of a sound item. *)
LEMMA RecordsSound ==
    ASSUME RestOK, NEW it \in Sound, NEW room \in Nat
    PROVE  LET rs == RecordsOf(it, it.name, room)
           IN  /\ rs \in Seq(CachedRR) /\ Len(rs) <= room
               /\ Len(rs) = IF Len(it.vals) <= room THEN Len(it.vals) ELSE room
               /\ \A i \in 1..Len(rs) :
                     /\ rs[i].name = it.name /\ rs[i].type = it.type /\ rs[i].val = it.vals[i]
                     /\ RecordNow(rs[i])
<1>. DEFINE rs == RecordsOf(it, it.name, room)
            n  == IF Len(it.vals) <= room THEN Len(it.vals) ELSE room
            left == TimeLeft(it)
            R(i) == [name |-> it.name, type |-> it.type, ttl |-> left, val |-> it.vals[i]]
<1>1. /\ it.vals \in Seq(Data) /\ it.name \in Names /\ it.type \in CachedTypes
      /\ \A i \in 1..Len(it.vals) : it.vals[i] \in DataOf(it.type)
    BY DEF Sound, SoundIn, Items
<1>2. Len(it.vals) \in Nat
    BY <1>1, LenProperties
<1>3. n \in Nat /\ n <= room /\ n <= Len(it.vals)
    BY <1>2
<1>4. Min({Len(it.vals), room}) = n
    BY <1>2, MinOfTwo
<1>5. rs = [i \in 1..n |-> R(i)]
    BY <1>4 DEF RecordsOf
<1>6. left \in TTLs /\ left = (it.ddl - now) % UintMod
    BY TimeLeftRange DEF TimeLeft
<1>. HIDE DEF left, n
<1>7. ASSUME NEW i \in 1..n
      PROVE  R(i) \in CachedRR /\ RecordNow(R(i))
  <2>0. i \in 1..Len(it.vals)
      BY <1>2, <1>3
  <2>1. it.vals[i] \in DataOf(it.type)
      BY <1>1, <2>0
  <2>2. R(i) \in CachedRR
      BY <1>1, <1>6, <2>1 DEF CachedRR, DataOf, CachedTypes, StringTypes
  <2>3. ASSUME NotMixed
        PROVE  \E k \in KnownRR : R(i) = [k EXCEPT !.ttl = left]
    <3>1. PICK k \in KnownRR : k.name = it.name /\ k.type = it.type /\ k.val = it.vals[i]
        BY <2>0, <2>3 DEF Sound, SoundIn
    <3>2. k \in RR
        BY KnownFields
    <3>3. k = [name |-> k.name, type |-> k.type, val |-> k.val, ttl |-> k.ttl]
        BY <3>2 DEF RR, CachedRR
    <3>4. [k EXCEPT !.ttl = left] = [name |-> k.name, type |-> k.type, val |-> k.val, ttl |-> left]
        BY <3>3
    <3>5. [k EXCEPT !.ttl = left] = R(i)
        BY <3>1, <3>4
    <3>. QED
        BY <3>1, <3>5
  <2>4. Traced(R(i), now, Passings)
    <3>. DEFINE rr == R(i)
    <3>0. rr.name = it.name /\ rr.type = it.type /\ rr.ttl = left /\ rr.val = it.vals[i]
        OBVIOUS
    <3>. HIDE DEF rr
    <3>1. ASSUME FromFile(it, now) PROVE OutOfFile(rr, now)
      <4>1. PICK at \in 0..now : it.ddl = at + LocalTTL
          BY <3>1 DEF FromFile
      <4>. DEFINE d == at + LocalTTL
      <4>a. it.ddl = d
          BY <4>1
      <4>. HIDE DEF d
      <4>b. rr.ttl = (d - now) % UintMod
          BY <1>6, <3>0, <4>a
      <4>2. rr.ttl = ((at + LocalTTL) - now) % UintMod
          BY <4>b DEF d
      <4>. QED
          BY <3>0, <3>1, <4>2 DEF FromFile, OutOfFile
    <3>2. ASSUME NEW a \in Passings, FromAnswer(it, a, now) PROVE OutOf(a, rr, now)
      <4>1. a.passed /\ a.at <= now
          BY <3>2 DEF Passings, FromAnswer, RestOK
      <4>2. it.ddl = a.at + LastOf(Answers(a), it.type).ttl
          BY <3>2 DEF FromAnswer
      <4>. DEFINE d == a.at + LastOf(Answers(a), rr.type).ttl
      <4>a. it.ddl = d
          BY <3>0, <4>2
      <4>. HIDE DEF d
      <4>b. rr.ttl = (d - now) % UintMod
          BY <1>6, <3>0, <4>a
      <4>3. rr.ttl = ((a.at + LastOf(Answers(a), rr.type).ttl) - now) % UintMod
          BY <4>b DEF d
      <4>. QED
          BY <2>0, <3>0, <3>2, <4>1, <4>3 DEF FromAnswer, OutOf
    <3>3. FromFile(it, now) \/ \E a \in Passings : FromAnswer(it, a, now)
        BY DEF Sound, SoundIn
    <3>4. Traced(rr, now, Passings)
        BY <3>1, <3>2, <3>3 DEF Traced
    <3>. QED
        BY <3>4 DEF rr
  <2>. QED
      BY <2>2, <2>3, <2>4 DEF RecordOK, RecordNow
<1>8. \A i \in 1..n : rs[i] = R(i)
    BY <1>5
<1>9. DOMAIN rs = 1..n /\ rs = [i \in 1..n |-> rs[i]] /\ \A i \in 1..n : rs[i] \in CachedRR
    BY <1>5, <1>7
<1>. HIDE DEF rs
<1>10. rs \in Seq(CachedRR)
    BY <1>3, <1>9, SeqOfElements
<1>11. Len(rs) = n
    BY <1>3, <1>9, <1>10, LenProperties
<1>12. \A i \in 1..n : /\ rs[i].name = it.name /\ rs[i].type = it.type /\ rs[i].val = it.vals[i]
                       /\ RecordNow(rs[i])
  <2>. TAKE i \in 1..n
  <2>1. rs[i] = R(i) /\ RecordNow(R(i))
      BY <1>7, <1>8
  <2>2. RecordNow(rs[i])
      BY <2>1
  <2>. QED
      BY <2>1, <2>2
<1>. QED
    BY <1>3, <1>10, <1>11, <1>12 DEF rs, n

LEMMA FirstOfThree ==
    ASSUME NEW a, NEW b, NEW c, NEW d
    PROVE  /\ <<a, b, c>>[1] = a
           /\ [<<a, b, c>> EXCEPT ![1] = d] = <<d, b, c>>
OBVIOUS

(* A message to the client who asked m. *)
Msg(m, flag, rrs) == [ID |-> m.ID, flag |-> flag, ques |-> m.ques, rr |-> <<rrs, <<>>, <<>>>>]

FlagOf(m) == setFlag(setResp(m.flag), RA)

LEMMA PreparedIs ==
    ASSUME AsksRead, NEW m \in Asks
    PROVE  Prepared(foreignEncode(m)) = Msg(m, FlagOf(m), <<>>)
<1>. DEFINE p == Prepared(foreignEncode(m))
<1>1. p.ID = m.ID /\ p.flag = FlagOf(m)
    BY PreparedHeader DEF FlagOf
<1>2. p.ques = m.ques /\ p.rr = <<(<<>>), (<<>>), (<<>>)>>
    BY DEF AsksRead, newMsg
<1>3. \E id, flag, ques, rr : p = [ID |-> id, flag |-> flag, ques |-> ques, rr |-> rr]
  <2>. DEFINE wire == foreignEncode(m)
  <2>1. PICK ques, rr : decode(wire) = [ID |-> wire.ID, flag |-> decodeFlag(wire.flag),
                                        ques |-> ques, rr |-> rr]
      BY DecodedHeader
  <2>2. p = Prepared(wire)
      OBVIOUS
  <2>. HIDE DEF wire, p
  <2>. DEFINE rest == [rr EXCEPT ![ADDITIONAL] = <<>>]
              flag == setFlag(setResp(decodeFlag(wire.flag)), RA)
              id   == wire.ID
  <2>3. releaseAdditionalRR(decode(wire)) =
           [ID |-> wire.ID, flag |-> decodeFlag(wire.flag), ques |-> ques, rr |-> rest]
      BY <2>1 DEF releaseAdditionalRR
  <2>. HIDE DEF rest
  <2>4. p = [ID |-> id, flag |-> flag, ques |-> ques, rr |-> rest]
      BY <2>2, <2>3 DEF Prepared
  <2>. HIDE DEF id, flag
  <2>. QED
      BY <2>4
<1>. HIDE DEF p
<1>4. p = Msg(m, FlagOf(m), <<>>)
    BY <1>1, <1>2, <1>3 DEF Msg
<1>. QED
    BY <1>4 DEF p

LEMMA ReplyToIs ==
    ASSUME AsksRead, NEW m \in Asks, NEW rcode, NEW rrs
    PROVE  ReplyTo(m, rcode, rrs) = Msg(m, setRCODE(FlagOf(m), rcode), rrs)
<1>1. Prepared(foreignEncode(m)) = Msg(m, FlagOf(m), <<>>)
    BY PreparedIs
<1>. DEFINE f   == FlagOf(m)
            old == <<(<<>>), (<<>>), (<<>>)>>
            new == <<rrs, <<>>, <<>>>>
<1>2. [old EXCEPT ![1] = rrs] = new
    BY FirstOfThree
<1>. HIDE DEF f, old, new
<1>3. [[ID |-> m.ID, flag |-> f, ques |-> m.ques, rr |-> old]
          EXCEPT !.flag = setRCODE(@, rcode), !.rr[1] = rrs] =
         [ID |-> m.ID, flag |-> setRCODE(f, rcode), ques |-> m.ques, rr |-> new]
  <2>. DEFINE one == [ID |-> m.ID, flag |-> f, ques |-> m.ques, rr |-> old]
              two == [ID |-> m.ID, flag |-> setRCODE(f, rcode), ques |-> m.ques, rr |-> old]
  <2>1. [one EXCEPT !.flag = setRCODE(@, rcode)] = two
      OBVIOUS
  <2>2. [two EXCEPT !.rr[1] = rrs] =
           [ID |-> m.ID, flag |-> setRCODE(f, rcode), ques |-> m.ques, rr |-> new]
      BY <1>2
  <2>3. [one EXCEPT !.flag = setRCODE(@, rcode), !.rr[1] = rrs] =
           [[one EXCEPT !.flag = setRCODE(@, rcode)] EXCEPT !.rr[1] = rrs]
      OBVIOUS
  <2>. HIDE DEF one, two
  <2>4. [one EXCEPT !.flag = setRCODE(@, rcode), !.rr[1] = rrs] =
           [ID |-> m.ID, flag |-> setRCODE(f, rcode), ques |-> m.ques, rr |-> new]
      BY <2>1, <2>2, <2>3
  <2>. QED
      BY <2>4 DEF one
<1>. DEFINE p == Prepared(foreignEncode(m))
<1>4. ReplyTo(m, rcode, rrs) = [p EXCEPT !.flag = setRCODE(@, rcode), !.rr[1] = rrs]
    BY DEF ReplyTo, ANSWER
<1>5. p = [ID |-> m.ID, flag |-> f, ques |-> m.ques, rr |-> old]
    BY <1>1 DEF Msg, f, old
<1>. HIDE DEF p
<1>6. Msg(m, setRCODE(f, rcode), rrs) =
         [ID |-> m.ID, flag |-> setRCODE(f, rcode), ques |-> m.ques, rr |-> new]
    BY DEF Msg, new
<1>7. ReplyTo(m, rcode, rrs) = Msg(m, setRCODE(f, rcode), rrs)
    BY <1>3, <1>4, <1>5, <1>6
<1>. QED
    BY <1>7 DEF f

LEMMA Item2MsgIs ==
    ASSUME NEW m, NEW flag, NEW rrs, NEW it
    PROVE  Item2Msg(Msg(m, flag, rrs), it) =
              IF Blocked(it) THEN Msg(m, setRCODE(flag, NAME_ERR), rrs)
              ELSE Msg(m, flag, rrs \o RecordsOf(it, it.name, MaxSize - Len(rrs)))
<1>. DEFINE msg  == Msg(m, flag, rrs)
            more == rrs \o RecordsOf(it, it.name, MaxSize - Len(rrs))
            old  == <<rrs, <<>>, <<>>>>
            new  == <<more, <<>>, <<>>>>
<1>1. old[1] = rrs /\ [old EXCEPT ![1] = more] = new
    BY FirstOfThree
<1>2. msg = [ID |-> m.ID, flag |-> flag, ques |-> m.ques, rr |-> old]
    BY DEF Msg
<1>3. Msg(m, flag, more) = [ID |-> m.ID, flag |-> flag, ques |-> m.ques, rr |-> new]
    BY DEF Msg
<1>4. Msg(m, setRCODE(flag, NAME_ERR), rrs) =
         [ID |-> m.ID, flag |-> setRCODE(flag, NAME_ERR), ques |-> m.ques, rr |-> old]
    BY DEF Msg
<1>5. Item2Msg(msg, it) =
         IF Blocked(it) THEN [msg EXCEPT !.flag = setRCODE(msg.flag, NAME_ERR)]
         ELSE [msg EXCEPT !.rr[1] =
                  msg.rr[1] \o RecordsOf(it, it.name, MaxSize - Len(msg.rr[1]))]
    BY DEF Item2Msg, ANSWER
<1>. HIDE DEF msg, old, new
<1>6. msg.rr[1] = rrs /\ msg.flag = flag
    BY <1>1, <1>2
<1>7. [msg EXCEPT !.flag = setRCODE(flag, NAME_ERR)] = Msg(m, setRCODE(flag, NAME_ERR), rrs)
    BY <1>2, <1>4
<1>8. msg.rr[1] \o RecordsOf(it, it.name, MaxSize - Len(msg.rr[1])) = more
    BY <1>6
<1>. HIDE DEF more
<1>9. [msg EXCEPT !.rr[1] = more] = Msg(m, flag, more)
    BY <1>1, <1>2, <1>3
<1>10. Item2Msg(msg, it) = IF Blocked(it) THEN Msg(m, setRCODE(flag, NAME_ERR), rrs)
                           ELSE Msg(m, flag, more)
    BY <1>5, <1>6, <1>7, <1>8, <1>9
<1>. QED
    BY <1>10 DEF msg, more

(* The response code and the answer section of a reply to the question q. *)
Right(q, rcode, rrs) ==
    /\ rrs \in Seq(CachedRR) /\ Len(rrs) <= MaxSize
    /\ \A i \in 1..Len(rrs) : RecordNow(rrs[i])
    /\ OnTopic(q.name, rrs)
    /\ FileRules /\ InFile(q) =>
          IF FileIp(q.name) = Zero THEN rcode = NAME_ERR /\ rrs = <<>>
          ELSE rcode = NO_ERR /\ Len(rrs) = 1 /\ rrs[1].val = FileIp(q.name)

LEMMA RoomForTwo == MaxSize \in Nat /\ MaxSize >= 2
<1>1. MaxSize \in Nat
    BY CodecAssumption
<1>2. MaxNum \in Nat \ {0} /\ 2 * MaxNum <= MaxSize
    BY ServerAssumption
<1>. QED
    BY <1>1, <1>2

(* No record, and the records of one item. *)
LEMMA NoneRight ==
    ASSUME NEW q, NEW rcode, FileRules /\ InFile(q) => FileIp(q.name) = Zero /\ rcode = NAME_ERR
    PROVE  Right(q, rcode, <<>>)
<1>1. <<>> \in Seq(CachedRR) /\ Len(<<>>) = 0 /\ Len(<<>>) <= MaxSize
    BY RoomForTwo
<1>2. OnTopic(q.name, <<>>)
    BY DEF OnTopic
<1>. QED
    BY <1>1, <1>2 DEF Right

LEMMA OneRight ==
    ASSUME RestOK, NEW q, NEW it \in Sound, it.name = q.name,
           it.type # "CNAME" => ~Blocked(it)
    PROVE  Right(q, NO_ERR, RecordsOf(it, it.name, MaxSize))
<1>. DEFINE rs == RecordsOf(it, it.name, MaxSize)
<1>1. /\ rs \in Seq(CachedRR) /\ Len(rs) <= MaxSize
      /\ Len(rs) = IF Len(it.vals) <= MaxSize THEN Len(it.vals) ELSE MaxSize
      /\ \A i \in 1..Len(rs) :
            /\ rs[i].name = it.name /\ rs[i].type = it.type /\ rs[i].val = it.vals[i]
            /\ RecordNow(rs[i])
    BY RecordsSound, RoomForTwo
<1>2. DOMAIN rs = 1..Len(rs)
    BY <1>1, LenProperties
<1>. HIDE DEF rs
<1>3. OnTopic(q.name, rs)
    BY <1>1, <1>2 DEF OnTopic
<1>4. ASSUME FileRules, InFile(q)
      PROVE  FileIp(q.name) # Zero /\ Len(rs) = 1 /\ rs[1].val = FileIp(q.name)
  <2>1. it.type = "A" /\ it.vals = <<FileIp(q.name)>>
      BY <1>4 DEF Sound, SoundIn, InFile
  <2>2. Len(it.vals) = 1 /\ it.vals[1] = FileIp(q.name)
      BY <2>1
  <2>3. FileIp(q.name) # Zero
      BY <2>1, <2>2 DEF Blocked
  <2>4. Len(rs) = 1
      BY <1>1, <2>2, RoomForTwo
  <2>. QED
      BY <1>1, <2>2, <2>3, <2>4
<1>5. Right(q, NO_ERR, rs)
    BY <1>1, <1>3, <1>4 DEF Right
<1>. QED
    BY <1>5 DEF rs

(* The records of an alias, and those of its target after them. *)
LEMMA TwoRight ==
    ASSUME RestOK, NEW q, NEW it \in Sound, it.name = q.name, it.type = "CNAME", q.type = "A",
           NEW tit \in Sound, tit.name = it.vals[1], NEW rcode
    PROVE  LET rs == RecordsOf(it, it.name, MaxSize)
           IN  /\ Right(q, rcode, rs)
               /\ Right(q, rcode, rs \o RecordsOf(tit, tit.name, MaxSize - Len(rs)))
<1>. DEFINE rs   == RecordsOf(it, it.name, MaxSize)
            room == MaxSize - Len(rs)
            ts   == RecordsOf(tit, tit.name, room)
            both == rs \o ts
<1>0. MaxSize \in Nat /\ MaxSize >= 2
    BY RoomForTwo
<1>1. /\ rs \in Seq(CachedRR) /\ Len(rs) <= MaxSize
      /\ Len(rs) = IF Len(it.vals) <= MaxSize THEN Len(it.vals) ELSE MaxSize
      /\ \A i \in 1..Len(rs) :
            /\ rs[i].name = it.name /\ rs[i].type = it.type /\ rs[i].val = it.vals[i]
            /\ RecordNow(rs[i])
    BY <1>0, RecordsSound
<1>2. Len(rs) \in Nat /\ DOMAIN rs = 1..Len(rs) /\ Len(it.vals) \in Nat /\ Len(it.vals) # 0
    BY <1>1, LenProperties DEF Sound, SoundIn, Items
<1>. HIDE DEF rs
<1>3. room \in Nat /\ Len(rs) >= 1
    BY <1>0, <1>1, <1>2
<1>. HIDE DEF room
<1>4. /\ ts \in Seq(CachedRR) /\ Len(ts) <= room
      /\ \A i \in 1..Len(ts) : ts[i].name = tit.name /\ RecordNow(ts[i])
  <2>1. /\ ts \in Seq(CachedRR) /\ Len(ts) <= room
        /\ Len(ts) = IF Len(tit.vals) <= room THEN Len(tit.vals) ELSE room
        /\ \A i \in 1..Len(ts) :
              /\ ts[i].name = tit.name /\ ts[i].type = tit.type /\ ts[i].val = tit.vals[i]
              /\ RecordNow(ts[i])
      BY <1>3, RecordsSound
  <2>. HIDE DEF ts
  <2>. QED
      BY <2>1
<1>5. Len(ts) \in Nat
    BY <1>4, LenProperties
<1>. HIDE DEF ts
<1>6. /\ both \in Seq(CachedRR) /\ Len(both) = Len(rs) + Len(ts)
      /\ \A i \in 1..Len(both) :
            both[i] = IF i <= Len(rs) THEN rs[i] ELSE ts[i - Len(rs)]
  <2>1. /\ both \in Seq(CachedRR) /\ Len(both) = Len(rs) + Len(ts)
        /\ \A i \in 1..(Len(rs) + Len(ts)) :
              both[i] = IF i <= Len(rs) THEN rs[i] ELSE ts[i - Len(rs)]
      BY <1>1, <1>4, ConcatProperties
  <2>. HIDE DEF both
  <2>. QED
      BY <2>1
<1>7. DOMAIN both = 1..Len(both)
    BY <1>6, LenProperties
<1>. HIDE DEF both
<1>8. ~(FileRules /\ InFile(q))
    BY DEF Sound, SoundIn, InFile
<1>9. Len(both) <= MaxSize
    BY <1>0, <1>2, <1>4, <1>5, <1>6 DEF room
<1>10. ASSUME NEW i \in 1..Len(both)
       PROVE  /\ RecordNow(both[i])
              /\ \/ both[i].name = q.name
                 \/ \E j \in 1..(i - 1) : both[j].type = "CNAME" /\ both[j].val = both[i].name
  <2>1. CASE i <= Len(rs)
      BY <1>1, <1>6, <2>1
  <2>2. CASE ~(i <= Len(rs))
    <3>1. both[i] = ts[i - Len(rs)] /\ i - Len(rs) \in 1..Len(ts)
      <4>1. i \in 1..(Len(rs) + Len(ts)) /\ Len(rs) \in Nat /\ Len(ts) \in Nat
          BY <1>2, <1>5, <1>6
      <4>2. i - Len(rs) \in 1..Len(ts)
          BY <2>2, <4>1
      <4>. QED
          BY <1>6, <2>2, <4>2
    <3>2. 1 \in 1..(i - 1) /\ 1 \in 1..Len(both) /\ 1 \in 1..Len(rs) /\ 1 <= Len(rs)
        BY <1>2, <1>3, <1>5, <1>6, <2>2
    <3>3. both[1] = rs[1]
        BY <1>6, <3>2
    <3>4. both[1].type = "CNAME" /\ both[1].val = tit.name
        BY <1>1, <3>2, <3>3
    <3>. QED
        BY <1>4, <3>1, <3>2, <3>4
  <2>. QED
      BY <2>1, <2>2
<1>11. OnTopic(q.name, both) /\ OnTopic(q.name, rs)
    BY <1>1, <1>2, <1>7, <1>10 DEF OnTopic
<1>12. Right(q, rcode, rs)
    BY <1>1, <1>8, <1>11 DEF Right
<1>13. Right(q, rcode, both)
    BY <1>6, <1>8, <1>9, <1>10, <1>11 DEF Right
<1>. QED
    BY <1>12, <1>13 DEF rs, both, ts, room

(* handler fills in what it has found, ... *)
LEMMA FilledRight ==
    ASSUME AsksRead, RestOK, Stock, NEW w \in Workers, NEW m \in Asks,
           replyMsg[w] = Prepared(foreignEncode(m)), Len(items[w]) \in 1..2,
           About(m.ques[1], items[w])
    PROVE  \E rcode \in {NO_ERR, NAME_ERR} : \E rrs :
              Filled(w) = ReplyTo(m, rcode, rrs) /\ Right(m.ques[1], rcode, rrs)
<1>. DEFINE q   == m.ques[1]
            g   == FlagOf(m)
            it  == items[w][1]
            tit == items[w][2]
            rs  == RecordsOf(it, it.name, MaxSize)
            ts  == RecordsOf(tit, tit.name, MaxSize - Len(rs))
            bad == setRCODE(g, NAME_ERR)
<1>1. replyMsg[w] = Msg(m, g, <<>>)
    BY PreparedIs
<1>2. items[w] \in Seq(Sound) /\ it \in Sound
  <2>1. items[w] \in Seq(Sound)
      BY DEF Stock
  <2>. QED
      BY <2>1, ElementOfSeq
<1>3. /\ setRCODE(g, NO_ERR) = g
      /\ \A rcode : \A rrs : ReplyTo(m, rcode, rrs) = Msg(m, setRCODE(g, rcode), rrs)
  <2>1. m.flag \in SUBSET (0..11) /\ NO_ERR \in 0..3
      BY ServerAssumption DEF NO_ERR
  <2>2. setRCODE(g, NO_ERR) = g
      BY <2>1, ReplyFlags DEF FlagOf
  <2>. QED
      BY <2>2, ReplyToIs
<1>. HIDE DEF g
<1>4. Item2Msg(replyMsg[w], it) = IF Blocked(it) THEN Msg(m, bad, <<>>) ELSE Msg(m, g, rs)
  <2>. DEFINE none == <<>>
  <2>1. MaxSize \in Nat /\ MaxSize - Len(none) = MaxSize
      BY RoomForTwo
  <2>. HIDE DEF it, none
  <2>2. rs \in Seq(CachedRR)
      BY <1>2, <2>1, RecordsSound
  <2>3. none \o rs = rs
      BY <2>2, ConcatEmptySeq DEF none
  <2>4. Item2Msg(Msg(m, g, none), it) =
           IF Blocked(it) THEN Msg(m, bad, none)
           ELSE Msg(m, g, none \o RecordsOf(it, it.name, MaxSize - Len(none)))
      BY Item2MsgIs
  <2>5. Item2Msg(Msg(m, g, none), it) =
           IF Blocked(it) THEN Msg(m, bad, none) ELSE Msg(m, g, rs)
      BY <2>1, <2>3, <2>4
  <2>. QED
      BY <1>1, <2>5 DEF none
<1>5. it.name = q.name
    BY DEF About
<1>6. CASE Len(items[w]) = 1
  <2>1. Filled(w) = Item2Msg(replyMsg[w], it)
      BY <1>6 DEF Filled
  <2>2. CASE Blocked(it)
    <3>1. Filled(w) = ReplyTo(m, NAME_ERR, <<>>)
        BY <1>3, <1>4, <2>1, <2>2
    <3>2. ASSUME FileRules, InFile(q) PROVE FileIp(q.name) = Zero
      <4>1. it.vals = <<FileIp(q.name)>>
          BY <1>2, <1>5, <3>2 DEF Sound, SoundIn, InFile
      <4>. QED
          BY <2>2, <4>1 DEF Blocked
    <3>. HIDE DEF q
    <3>3. Right(q, NAME_ERR, <<>>)
        BY <3>2, NoneRight
    <3>. QED
        BY <3>1, <3>3 DEF q
  <2>3. CASE ~Blocked(it)
    <3>1. Filled(w) = ReplyTo(m, NO_ERR, rs)
        BY <1>3, <1>4, <2>1, <2>3
    <3>. HIDE DEF q, it
    <3>2. Right(q, NO_ERR, RecordsOf(it, it.name, MaxSize))
        BY <1>2, <1>5, <2>3, OneRight
    <3>. QED
        BY <3>1, <3>2 DEF q
  <2>. QED
      BY <2>2, <2>3
<1>7. CASE Len(items[w]) = 2
  <2>1. /\ q.type = "A" /\ it.type = "CNAME" /\ tit.type = "A" /\ tit.name = it.vals[1]
      BY <1>7 DEF About
  <2>2. tit \in Sound
      BY <1>2, <1>7, ElementOfSeq
  <2>3. ~Blocked(it)
      BY <2>1 DEF Blocked
  <2>4. Filled(w) = Item2Msg(Msg(m, g, rs), tit)
      BY <1>4, <1>7, <2>3 DEF Filled
  <2>5. Item2Msg(Msg(m, g, rs), tit) =
           IF Blocked(tit) THEN Msg(m, bad, rs) ELSE Msg(m, g, rs \o ts)
      BY Item2MsgIs
  <2>6. \A rcode : Right(q, rcode, rs) /\ Right(q, rcode, rs \o ts)
    <3>. HIDE DEF q, it, tit
    <3>. QED
        BY <1>2, <1>5, <2>1, <2>2, TwoRight
  <2>7. \/ Filled(w) = ReplyTo(m, NAME_ERR, rs)
        \/ Filled(w) = ReplyTo(m, NO_ERR, rs \o ts)
      BY <1>3, <2>4, <2>5
  <2>. DEFINE both == rs \o ts
  <2>8. \A rcode : Right(q, rcode, both)
      BY <2>6
  <2>9. Filled(w) = ReplyTo(m, NAME_ERR, rs) \/ Filled(w) = ReplyTo(m, NO_ERR, both)
      BY <2>7
  <2>. HIDE DEF both, rs, q
  <2>. QED
      BY <2>6, <2>8, <2>9 DEF q
<1>. QED
    BY <1>6, <1>7

(* ... or the error, ... *)
LEMMA FailedRight ==
    ASSUME AsksRead, NEW w, NEW m \in Asks, replyMsg[w] = Prepared(foreignEncode(m)),
           ~InFile(m.ques[1])
    PROVE  /\ Failed(w) = ReplyTo(m, SERVER_FAILURE, <<>>)
           /\ Right(m.ques[1], SERVER_FAILURE, <<>>)
<1>. DEFINE g == FlagOf(m)
<1>1. replyMsg[w] = Msg(m, g, <<>>)
    BY PreparedIs
<1>2. setResp(g) = g
  <2>1. m.flag \in SUBSET (0..11) /\ NO_ERR \in 0..3
      BY ServerAssumption DEF NO_ERR
  <2>. QED
      BY <2>1, ReplyFlags DEF FlagOf
<1>. HIDE DEF g
<1>3. Failed(w) = Msg(m, setRCODE(setResp(g), SERVER_FAILURE), <<>>)
    BY <1>1 DEF Failed, Msg
<1>4. ReplyTo(m, SERVER_FAILURE, <<>>) = Msg(m, setRCODE(g, SERVER_FAILURE), <<>>)
    BY ReplyToIs DEF g
<1>5. Right(m.ques[1], SERVER_FAILURE, <<>>)
    BY NoneRight
<1>. QED
    BY <1>2, <1>3, <1>4, <1>5

(* ... and the client reads it. *)
LEMMA ReplyRight ==
    ASSUME CodecReads, NEW m \in Asks, NEW rcode \in {NO_ERR, SERVER_FAILURE, NAME_ERR},
           NEW rrs, Right(m.ques[1], rcode, rrs)
    PROVE  ReplyOK(m, Apply(Read, encode(ReplyTo(m, rcode, rrs))), Passings)
<1>. DEFINE msg  == ReplyTo(m, rcode, rrs)
            wire == encode(msg)
            read == Apply(Read, wire)
            q    == m.ques[1]
<1>1. rrs \in Seq(CachedRR) /\ Len(rrs) <= MaxSize
    BY DEF Right
<1>2. DOMAIN rrs = 1..Len(rrs) /\ Len(rrs) \in Nat
    BY <1>1, LenProperties
<1>3. rrs \in BoundedSeq(CachedRR, MaxSize)
  <2>1. Len(rrs) \in 0..MaxSize /\ rrs \in [1..Len(rrs) -> CachedRR]
      BY <1>1, <1>2, RoomForTwo
  <2>. QED
      BY <2>1 DEF BoundedSeq, SeqOf
<1>4. decode(wire).ques = m.ques /\ decode(wire).rr[ANSWER] = rrs
    BY <1>3 DEF CodecReads, RepliesRead
<1>5. read = [flag |-> wire.flag, msg |-> decode(wire), at |-> now, passed |-> FALSE]
    BY DEF Apply, Read
<1>6. /\ wire.ID = m.ID
      /\ wire.flag = encodeFlag(setRCODE(setFlag(setResp(m.flag), RA), rcode))
  <2>1. msg = Msg(m, setRCODE(FlagOf(m), rcode), rrs)
      BY ReplyToIs DEF CodecReads
  <2>2. msg.ID = m.ID /\ msg.flag = setRCODE(FlagOf(m), rcode)
      BY <2>1 DEF Msg
  <2>. HIDE DEF msg
  <2>. QED
      BY <2>2, EncodedHeader DEF FlagOf
<1>. HIDE DEF wire
<1>7. RcodeBits(read.flag) = Bits(rcode)
    BY <1>6, ReplyHas
<1>. HIDE DEF read
<1>8. Answers(read) = rrs /\ read.msg.ques = m.ques
    BY <1>4, <1>5 DEF Answers
<1>9. \A rr \in ToSet(rrs) : RecordOK(rr) /\ Traced(rr, read.at, Passings)
  <2>. SUFFICES ASSUME NEW rr \in ToSet(rrs)
                PROVE  RecordOK(rr) /\ Traced(rr, read.at, Passings)
      OBVIOUS
  <2>1. PICK i \in 1..Len(rrs) : rr = rrs[i]
      BY <1>2 DEF ToSet
  <2>2. RecordNow(rrs[i])
      BY DEF Right
  <2>. QED
      BY <1>5, <2>1, <2>2 DEF RecordNow
<1>10. OnTopic(q.name, rrs)
    BY DEF Right
<1>11. ASSUME FileRules, InFile(q) PROVE AsFile(q.name, read)
  <2>1. CASE FileIp(q.name) = Zero
      BY <1>7, <1>8, <1>11, <2>1 DEF Right, AsFile
  <2>2. CASE FileIp(q.name) # Zero
    <3>1. rcode = NO_ERR /\ Len(rrs) = 1 /\ rrs[1].val = FileIp(q.name)
        BY <1>11, <2>2 DEF Right
    <3>. DEFINE ip == FileIp(q.name)
    <3>2. DOMAIN rrs = 1..1 /\ rrs[1].val = ip
        BY <1>2, <3>1
    <3>. HIDE DEF ip
    <3>3. [i \in DOMAIN rrs |-> rrs[i].val] = <<ip>>
        BY <3>2
    <3>. QED
        BY <1>7, <1>8, <2>2, <3>1, <3>3 DEF AsFile, ip
  <2>. QED
      BY <2>1, <2>2
<1>12. ReplyOK(m, read, Passings)
    BY <1>8, <1>9, <1>10, <1>11 DEF ReplyOK
<1>. QED
    BY <1>12 DEF read, wire

(* An answer of the upstream server is passed on. *)
LEMMA SaidReplyOK ==
    ASSUME AnswersRead, NEW m \in Asks, NEW said \in Said(m), ~InFile(m.ques[1])
    PROVE  LET a == Apply(Passed, foreignEncode(said))
           IN  /\ ReplyOK(m, a, Passings) /\ a.passed /\ a.at = now
               /\ Answers(a) = decode(foreignEncode(said)).rr[ANSWER]
<1>. DEFINE wire == foreignEncode(said)
            read == Apply(Passed, wire)
            rrs  == decode(wire).rr[ANSWER]
            q    == m.ques[1]
<1>1. rrs \in Upstream[q] /\ q \in DOMAIN Upstream /\ decode(wire).ques = m.ques
    BY ServerAssumption DEF AnswersRead
<1>2. read = [flag |-> wire.flag, msg |-> decode(wire), at |-> now, passed |-> TRUE]
    BY DEF Apply, Passed
<1>3. Answers(read) = rrs /\ read.msg.ques = m.ques
    BY <1>1, <1>2 DEF Answers
<1>. HIDE DEF rrs, read, wire
<1>4. ASSUME NEW rr \in ToSet(rrs) PROVE RecordOK(rr)
  <2>1. rr \in SaidRR
      BY <1>1 DEF SaidRR
  <2>2. rr \in KnownRR /\ rr \in RR
      BY <2>1, KnownFields DEF KnownRR
  <2>3. rr = [rr EXCEPT !.ttl = rr.ttl]
      BY <2>2 DEF RR, CachedRR
  <2>. QED
      BY <2>2, <2>3 DEF RecordOK
<1>5. UpstreamAsked => OnTopic(q.name, rrs)
    BY <1>1 DEF UpstreamAsked
<1>6. ReplyOK(m, read, Passings)
    BY <1>2, <1>3, <1>4, <1>5 DEF ReplyOK
<1>. QED
    BY <1>2, <1>3, <1>6 DEF read, wire, rrs

-----------------------------------------------------------------------------
(* The parts of Content, for steps that do not concern them. *)

LEMMA StockKept ==
    ASSUME Stock, UNCHANGED <<items, todo, ttl, cache, now, sent>>
    PROVE  Stock'
<1>1. Sound' = Sound /\ Stored' = Stored
    BY SoundSame DEF Stored
<1>. QED
    BY <1>1 DEF Stock

LEMMA RepliesKept ==
    ASSUME Replies, UNCHANGED sent, \A r \in Requests : sent[r] # <<>> => ask'[r] = ask[r]
    PROVE  Replies'
<1>. SUFFICES ASSUME NEW r \in Requests, NEW m \in Sent(r)' PROVE ReplyOK(ask'[r], m, Passings')
    BY DEF Replies
<1>1. m \in Sent(r) /\ Passings' = Passings
    BY DEF Sent, Passings
<1>2. sent[r] # <<>>
    BY <1>1 DEF Sent, ToSet
<1>. QED
    BY <1>1, <1>2 DEF Replies

(* A worker sends its reply. *)
LEMMA RepliesSent ==
    ASSUME Inv, Replies, NEW w \in Workers, pc[w] # "idle", ~Relayed(w), UNCHANGED ask,
           NEW m, Deliver(w, m), ReplyOK(ask[req[w]], m, Passings)
    PROVE  /\ Replies' /\ Passings \subseteq Passings'
           /\ m.passed => m \in Passings'
<1>1. req[w] \in Requests
    BY OwnRequest
<1>2. sent[req[w]] = <<>>
    BY <1>1 DEF Inv, Ledger, OneReply
<1>3. sent'[req[w]] = <<m>> /\ \A r \in Requests \ {req[w]} : sent'[r] = sent[r]
  <2>1. DOMAIN sent = Requests
      BY DEF Inv, RestOK
  <2>2. Append(<<>>, m) = <<m>>
      OBVIOUS
  <2>. QED
      BY <1>1, <1>2, <2>1, <2>2 DEF Deliver
<1>. PICK n \in Requests : n = req[w]
    BY <1>1
<1>4. Sent(n) = {} /\ Sent(n)' = {m}
    BY <1>2, <1>3 DEF Sent, ToSet
<1>5. \A r \in Requests \ {n} : Sent(r)' = Sent(r)
    BY <1>3 DEF Sent
<1>6. Passings \subseteq Passings' /\ (m.passed => m \in Passings')
    BY <1>4, <1>5 DEF Passings
<1>7. ASSUME NEW r \in Requests, NEW x \in Sent(r)' PROVE ReplyOK(ask[r], x, Passings')
  <2>1. ReplyOK(ask[r], x, Passings)
    <3>1. CASE r = n
        BY <1>4, <3>1
    <3>2. CASE r # n
        BY <1>5, <3>2 DEF Replies
    <3>. QED
        BY <3>1, <3>2
  <2>. QED
      BY <1>6, <2>1, ReplyLater
<1>. QED
    BY <1>6, <1>7 DEF Replies

LEMMA CrewKept ==
    ASSUME Crew, UNCHANGED crew, sys' = "starting" => sys = "starting",
           \A w \in Workers : pc'[w] # "idle" => pc[w] # "idle" \/ w \in crew
    PROVE  Crew'
BY DEF Crew

(* A step of the worker w: with one thread, nobody else is at work. *)
LEMMA StepKnows ==
    ASSUME Crew, NEW w \in Workers, w \in crew, \A v \in Workers : Knows(v),
           \A v \in Workers \ {w} : pc'[v] = pc[v] /\ items'[v] = items[v] /\ req'[v] = req[v],
           UNCHANGED ask, Knows(w)'
    PROVE  \A v \in Workers : Knows(v)'
<1>. SUFFICES ASSUME NEW v \in Workers, v # w PROVE Knows(v)'
    OBVIOUS
<1>1. pc'[v] = pc[v] /\ items'[v] = items[v] /\ Question(v)' = Question(v)
    BY DEF Question
<1>2. OneThread => pc[v] = "idle"
    BY DEF Crew
<1>3. Knows(v)
    OBVIOUS
<1>. QED
    BY <1>1, <1>2, <1>3 DEF Knows

LEMMA AllKnow ==
    ASSUME \A v \in Workers : Knows(v), UNCHANGED <<pc, items, pos>>,
           \A v \in Workers : pc[v] # "idle" => Question(v)' = Question(v)
    PROVE  \A v \in Workers : Knows(v)'
<1>. SUFFICES ASSUME NEW v \in Workers PROVE Knows(v)'
    OBVIOUS
<1>1. Knows(v)
    OBVIOUS
<1>. QED
    BY <1>1 DEF Knows

(* What a look into the cache finds, and what it leaves. *)
LEMMA FoundSound ==
    ASSUME Inv, Stock, NEW name \in Names, NEW type \in CachedTypes,
           NEW it \in getItem(name, type)
    PROVE  it \in Sound /\ it.name = name /\ it.type = type
<1>. DEFINE e == cache[<<name, type>>]
<1>1. it = e.item /\ e # NoEntry
    BY DEF getItem, Fresh
<1>2. <<name, type>> \in Stored
    BY <1>1 DEF Stored, Inv, CacheOK
<1>3. <<name, type>> = <<it.name, it.type>>
    BY <1>1, <1>2 DEF Inv, CacheOK
<1>4. it \in Sound
    BY <1>1, <1>2 DEF Stock
<1>. QED
    BY <1>3, <1>4

LEMMA LookStock ==
    ASSUME Stock, NEW name, NEW type, cache' = AfterGet(name, type),
           UNCHANGED <<todo, ttl, now, sent>>,
           items' \in [Workers -> Seq(Sound)]
    PROVE  Stock'
<1>1. \A k \in DOMAIN cache : cache'[k] \in {cache[k], NoEntry}
    BY DEF AfterGet
<1>2. DOMAIN cache' = DOMAIN cache
    BY DEF AfterGet
<1>3. Sound' = Sound
    BY SoundSame
<1>4. \A k \in Stored' : k \in Stored /\ cache'[k] = cache[k]
    BY <1>1, <1>2 DEF Stored
<1>. QED
    BY <1>3, <1>4 DEF Stock

-----------------------------------------------------------------------------
(* Each step.  Main starts the threads, ... *)
LEMMA StartContent ==
    ASSUME Inv, Content, Start
    PROVE  Content'
<1>1. /\ sys = "starting" /\ sys' = "up" /\ crew' \in SUBSET Workers
      /\ Cardinality(crew') = Max({0, PoolSize(NewArg(argv))})
      /\ UNCHANGED <<poolVars, ask, sent, pc, items, todo, ttl, cache, now>>
    BY DEF Start, ownVars
<1>2. crew = {} /\ \A w \in Workers : pc[w] = "idle"
    BY <1>1 DEF Content, Crew
<1>3. ASSUME OneThread, NEW v \in crew', NEW w \in crew' PROVE v = w
  <2>. DEFINE n == PoolSize(NewArg(argv))
              high == Max({0, n})
  <2>1. n <= 1
      BY <1>3 DEF OneThread, Inv, RestOK
  <2>2. n \in Int
    <3>1. getInt(NewArg(argv), "poolsize") \in Int
        BY ArgAssumption DEF Inv, RestOK
    <3>2. Cardinality(Workers) \in Nat /\ DefaultPool \in Int
        BY ServerAssumption, FS_CardinalityType
    <3>3. Min({getInt(NewArg(argv), "poolsize"), Cardinality(Workers)}) \in Int
        BY <3>1, <3>2, MinOfTwo
    <3>. QED
        BY <3>2, <3>3 DEF PoolSize
  <2>. HIDE DEF n
  <2>3. \E x \in {0, n} : \A y \in {0, n} : x >= y
      BY <2>2
  <2>4. high \in {0, n}
      BY <2>3 DEF Max
  <2>5. high <= 1
      BY <2>1, <2>2, <2>4
  <2>6. IsFiniteSet(Workers)
      BY ServerAssumption
  <2>7. IsFiniteSet(crew') /\ Cardinality(crew') = high
      BY <1>1, <2>6, FS_Subset DEF n
  <2>. HIDE DEF high
  <2>8. SUFFICES ASSUME v # w PROVE FALSE
      OBVIOUS
  <2>9. {v, w} \in SUBSET crew' /\ {v, w} = {v} \cup {w}
      BY <1>3
  <2>10. IsFiniteSet({v, w}) /\ Cardinality({v, w}) = 2
    <3>1. IsFiniteSet({v}) /\ Cardinality({v}) = 1
        BY FS_Singleton
    <3>2. IsFiniteSet({v} \cup {w}) /\ Cardinality({v} \cup {w}) = Cardinality({v}) + 1
        BY <2>8, <3>1, FS_AddElement
    <3>. QED
        BY <2>9, <3>1, <3>2
  <2>11. Cardinality({v, w}) <= Cardinality(crew') /\ Cardinality(crew') \in Nat
      BY <2>7, <2>9, FS_Subset, FS_CardinalityType
  <2>. QED
      BY <2>5, <2>7, <2>10, <2>11
<1>4. Crew'
    BY <1>1, <1>2, <1>3 DEF Crew
<1>5. \A w \in Workers : Knows(w)'
    BY <1>1, <1>2 DEF Knows
<1>6. Stock' /\ Replies'
    BY <1>1, StockKept, RepliesKept DEF Content
<1>. QED
    BY <1>4, <1>5, <1>6 DEF Content

(* ... a request arrives, ... *)
LEMMA ReceiveContent ==
    ASSUME Inv, Content, NEW m \in Asks, Receive(m)
    PROVE  Content'
<1>1. /\ ask' = Append(ask, m)
      /\ UNCHANGED <<crew, req, sent, pc, items, todo, ttl, cache, pos, now, sys>>
    BY DEF Receive, setupVars, memVars, ownVars
<1>2. ask \in Seq(Asks) /\ Len(ask) \in Nat
    BY LenProperties DEF Inv, RestOK
<1>3. \A i \in 1..Len(ask) : ask'[i] = ask[i]
    BY <1>1, <1>2, AppendProperties
<1>4. \A w \in Workers : pc[w] # "idle" => Question(w)' = Question(w)
  <2>. TAKE w \in Workers
  <2>1. pc[w] # "idle" => req[w] \in 1..Len(ask)
      BY OwnRequest
  <2>. QED
      BY <1>1, <1>3, <2>1 DEF Question
<1>5. ASSUME NEW r \in Requests, sent[r] # <<>> PROVE ask'[r] = ask[r]
  <2>1. r <= Len(ask)
      BY <1>5 DEF Inv, Ledger, OneReply
  <2>2. r \in Nat /\ r >= 1
      BY ServerAssumption, FS_CardinalityType
  <2>. QED
      BY <1>2, <1>3, <2>1, <2>2
<1>6. \A w \in Workers : Knows(w)'
    BY <1>1, <1>4, AllKnow DEF Content
<1>7. Stock' /\ Replies' /\ Crew'
    BY <1>1, <1>5, StockKept, RepliesKept, CrewKept DEF Content
<1>. QED
    BY <1>6, <1>7 DEF Content

(* ... time goes on, or the process ends. *)
LEMMA OutsideContent ==
    ASSUME Inv, Content, UNCHANGED <<crew, poolVars, ask, sent, pc, ownVars, cache, pos>>,
           now' \in Int, now <= now', sys' = "starting" => sys = "starting"
    PROVE  Content'
<1>1. Sound \subseteq Sound' /\ Seq(Sound) \subseteq Seq(Sound')
  <2>1. Passings' = Passings
      BY DEF Passings, Sent
  <2>. QED
      BY <2>1, SoundLater DEF Inv, RestOK
<1>2. Seq(Sound) \subseteq Seq(Sound')
    BY <1>1
<1>3. /\ items' \in [Workers -> Seq(Sound')] /\ todo' \in [Workers -> Seq(Sound')]
      /\ ttl' \in [Workers -> Int]
    BY <1>2 DEF Content, Stock, ownVars
<1>4. Stored' = Stored
    BY DEF Stored
<1>5. Stock'
    BY <1>1, <1>3, <1>4 DEF Content, Stock
<1>6. \A w \in Workers : Question(w)' = Question(w)
    BY DEF Question, poolVars
<1>7. \A w \in Workers : Knows(w)'
    BY <1>6, AllKnow DEF Content, ownVars
<1>8. Replies' /\ Crew'
    BY RepliesKept, CrewKept DEF Content
<1>. QED
    BY <1>5, <1>7, <1>8 DEF Content

(* A worker takes a request, ... *)
LEMMA TakeContent ==
    ASSUME Inv, Content, NEW w \in Workers, Take(w)
    PROVE  Content'
<1>. DEFINE q == ask[Head(queue)].ques[1]
<1>1. /\ w \in crew /\ queue # <<>> /\ pc[w] = "idle" /\ req' = [req EXCEPT ![w] = Head(queue)]
      /\ Goto(w, IF q.type \in CachedTypes THEN "get" ELSE "relay")
      /\ UNCHANGED <<crew, ask, sent, items, todo, ttl, cache, pos, now, sys>>
    BY DEF Take, At, setupVars, memVars, ownVars
<1>2. PICK to \in {"get", "relay"} : /\ pc'[w] = to
                                     /\ to = "get" => q.type \in CachedTypes
                                     /\ to = "relay" => q.type # "A"
  <2>1. "A" \in CachedTypes
      BY DEF CachedTypes
  <2>. QED
      BY <1>1, <2>1 DEF Goto, Inv, RestOK
<1>3. /\ \A v \in Workers \ {w} : pc'[v] = pc[v] /\ items'[v] = items[v] /\ req'[v] = req[v]
      /\ req'[w] = Head(queue)
    BY <1>1 DEF Goto, Inv, RestOK
<1>4. Question(w)' = q
    BY <1>1, <1>3 DEF Question
<1>5. Knows(w)'
    BY <1>2, <1>4 DEF Knows, InFile
<1>6. \A v \in Workers : Knows(v)'
    BY <1>1, <1>3, <1>5, StepKnows DEF Content
<1>7. Stock' /\ Replies'
    BY <1>1, StockKept, RepliesKept DEF Content
<1>8. Crew'
    BY <1>1, <1>3, CrewKept DEF Content
<1>. QED
    BY <1>6, <1>7, <1>8 DEF Content

(* ... goes on with it, ... *)
LEMMA MoveContent ==
    ASSUME Inv, Content, NEW w \in Workers, pc[w] # "idle", Stock', Knows(w)',
           UNCHANGED <<crew, req, ask, sent>>, sys' = "starting" => sys = "starting",
           \A v \in Workers \ {w} : pc'[v] = pc[v] /\ items'[v] = items[v]
    PROVE  Content'
<1>1. w \in crew /\ Crew
    BY DEF Content, Crew
<1>2. Crew'
    BY <1>1, CrewKept
<1>3. \A v \in Workers : Knows(v)'
    BY <1>1, StepKnows DEF Content
<1>4. Replies'
    BY RepliesKept DEF Content
<1>. QED
    BY <1>2, <1>3, <1>4 DEF Content

LEMMA GetItemContent ==
    ASSUME Inv, Content, NEW w \in Workers, GetItem(w)
    PROVE  Content'
<1>. DEFINE q == Question(w)
<1>1. /\ pc[w] = "get" /\ cache' = AfterGet(q.name, q.type)
      /\ UNCHANGED <<crew, req, ask, sent, todo, ttl, now, sys>>
    BY DEF GetItem, At, setupVars, poolVars
<1>2. q.name \in Names /\ q.type \in CachedTypes
  <2>1. Knows(w)
      BY DEF Content
  <2>2. q \in [name : Names, type : Types]
      BY <1>1, OwnRequest
  <2>. QED
      BY <1>1, <2>1, <2>2 DEF Knows
<1>3. Question(w)' = q
    BY <1>1 DEF Question
<1>. HIDE DEF q
<1>4. CASE \E it \in getItem(q.name, q.type) : items' = [items EXCEPT ![w] = <<it>>]
                                              /\ Goto(w, "reply")
  <2>1. PICK it \in getItem(q.name, q.type) : items' = [items EXCEPT ![w] = <<it>>]
                                              /\ Goto(w, "reply")
      BY <1>4
  <2>2. it \in Sound /\ it.name = q.name /\ it.type = q.type
      BY <1>2, FoundSound DEF Content
  <2>3. <<it>> \in Seq(Sound) /\ Len(<<it>>) = 1 /\ <<it>>[1] = it
      BY <2>2
  <2>4. /\ items' \in [Workers -> Seq(Sound)] /\ items'[w] = <<it>>
        /\ \A v \in Workers \ {w} : items'[v] = items[v]
      BY <2>1, <2>3 DEF Content, Stock
  <2>5. pc'[w] = "reply" /\ \A v \in Workers \ {w} : pc'[v] = pc[v]
      BY <2>1 DEF Goto, Inv, RestOK
  <2>6. Stock'
      BY <1>1, <2>4, LookStock DEF Content
  <2>7. About(q, <<it>>)
      BY <2>2, <2>3 DEF About
  <2>8. Knows(w)'
      BY <1>3, <2>4, <2>5, <2>7 DEF Knows
  <2>. QED
      BY <1>1, <2>4, <2>5, <2>6, <2>8, MoveContent
<1>5. CASE Goto(w, IF q.type = "A" THEN "getCname" ELSE "relay") /\ UNCHANGED items
  <2>1. PICK to \in {"getCname", "relay"} : pc'[w] = to /\ (to = "relay" => q.type # "A")
      BY <1>5 DEF Goto, Inv, RestOK
  <2>2. \A v \in Workers \ {w} : pc'[v] = pc[v] /\ items'[v] = items[v]
      BY <1>5 DEF Goto, Inv, RestOK
  <2>3. Stock'
      BY <1>1, <1>5, LookStock DEF Content, Stock
  <2>4. Knows(w)'
      BY <1>3, <2>1 DEF Knows, InFile
  <2>. QED
      BY <1>1, <2>2, <2>3, <2>4, MoveContent
<1>. QED
    BY <1>4, <1>5 DEF GetItem, q

LEMMA GetCnameContent ==
    ASSUME Inv, Content, NEW w \in Workers, GetCname(w)
    PROVE  Content'
<1>. DEFINE q == Question(w)
            cname == "CNAME"
<1>1. /\ pc[w] = "getCname" /\ cache' = AfterGet(q.name, cname)
      /\ UNCHANGED <<crew, req, ask, sent, todo, ttl, now, sys>>
    BY DEF GetCname, At, setupVars, poolVars
<1>2. q.name \in Names /\ cname \in CachedTypes
    BY <1>1, OwnRequest DEF CachedTypes
<1>3. Question(w)' = q
    BY <1>1 DEF Question
<1>4. \/ \E it \in getItem(q.name, cname) : items' = [items EXCEPT ![w] = <<it>>]
                                            /\ Goto(w, "getAlias")
      \/ Goto(w, "file") /\ UNCHANGED items
    BY DEF GetCname
<1>. HIDE DEF q, cname
<1>5. CASE \E it \in getItem(q.name, cname) : items' = [items EXCEPT ![w] = <<it>>]
                                              /\ Goto(w, "getAlias")
  <2>1. PICK it \in getItem(q.name, cname) : items' = [items EXCEPT ![w] = <<it>>]
                                             /\ Goto(w, "getAlias")
      BY <1>5
  <2>2. it \in Sound /\ it.name = q.name /\ it.type = cname
      BY <1>2, FoundSound DEF Content
  <2>3. <<it>> \in Seq(Sound) /\ Len(<<it>>) = 1 /\ <<it>>[1] = it
      BY <2>2
  <2>4. /\ items' \in [Workers -> Seq(Sound)] /\ items'[w] = <<it>>
        /\ \A v \in Workers \ {w} : items'[v] = items[v]
      BY <2>1, <2>3 DEF Content, Stock
  <2>5. pc'[w] = "getAlias" /\ \A v \in Workers \ {w} : pc'[v] = pc[v]
      BY <2>1 DEF Goto, Inv, RestOK
  <2>6. Stock'
      BY <1>1, <2>4, LookStock DEF Content
  <2>7. Knows(w)'
      BY <1>3, <2>2, <2>3, <2>4, <2>5 DEF Knows, cname
  <2>. QED
      BY <1>1, <2>4, <2>5, <2>6, <2>7, MoveContent
<1>6. CASE Goto(w, "file") /\ UNCHANGED items
  <2>1. pc'[w] = "file" /\ \A v \in Workers \ {w} : pc'[v] = pc[v] /\ items'[v] = items[v]
      BY <1>6 DEF Goto, Inv, RestOK
  <2>2. Stock'
      BY <1>1, <1>6, LookStock DEF Content, Stock
  <2>3. Knows(w)'
      BY <2>1 DEF Knows
  <2>. QED
      BY <1>1, <2>1, <2>2, <2>3, MoveContent
<1>. QED
    BY <1>4, <1>5, <1>6

LEMMA GetAliasContent ==
    ASSUME Inv, HeapInv, Content, NEW w \in Workers, GetAlias(w)
    PROVE  Content'
<1>. DEFINE q   == Question(w)
            it  == items[w][1]
            target == it.vals[1]
            a   == "A"
<1>1. /\ pc[w] = "getAlias" /\ cache' = AfterGet(target, a)
      /\ UNCHANGED <<crew, req, ask, sent, todo, ttl, now, sys>>
    BY DEF GetAlias, At, setupVars, poolVars
<1>2. /\ items[w] \in Seq(Sound) /\ Len(items[w]) = 1
      /\ it.name = q.name /\ it.type = "CNAME"
  <2>1. Knows(w)
      BY DEF Content
  <2>. QED
      BY <1>1, <2>1 DEF Knows, Content, Stock
<1>3. it \in Sound
    BY <1>2, ElementOfSeq
<1>4. target \in Names /\ a \in CachedTypes
  <2>1. /\ it.vals \in Seq(Data) /\ Len(it.vals) # 0
        /\ \A i \in 1..Len(it.vals) : it.vals[i] \in DataOf(it.type)
      BY <1>3 DEF Sound, SoundIn, Items
  <2>2. 1 \in 1..Len(it.vals)
      BY <2>1, LenProperties
  <2>3. target \in DataOf("CNAME")
      BY <1>2, <2>1, <2>2
  <2>. QED
      BY <2>3 DEF DataOf, CachedTypes
<1>5. Question(w)' = q
    BY <1>1 DEF Question
<1>6. q.type = "A"
    BY <1>1 DEF HeapInv, Path
<1>7. \/ \E tit \in getItem(target, a) : items' = [items EXCEPT ![w] = Append(@, tit)]
                                         /\ Goto(w, "reply")
      \/ Goto(w, "file") /\ items' = [items EXCEPT ![w] = <<>>]
    BY DEF GetAlias
<1>8. CASE \E tit \in getItem(target, a) : items' = [items EXCEPT ![w] = Append(@, tit)]
                                           /\ Goto(w, "reply")
  <2>. HIDE DEF a, target
  <2>1. PICK tit \in getItem(target, a) : items' = [items EXCEPT ![w] = Append(@, tit)]
                                          /\ Goto(w, "reply")
      BY <1>8
  <2>2. tit \in Sound /\ tit.name = target /\ tit.type = a
      BY <1>4, FoundSound DEF Content
  <2>. DEFINE its == Append(items[w], tit)
  <2>3. its \in Seq(Sound) /\ Len(its) = 2 /\ its[1] = it /\ its[2] = tit
    <3>1. PICK x : items[w] = <<x>>
        BY <1>1 DEF Inv, AtWork, InHandler
    <3>2. it = x
        BY <3>1
    <3>3. its = <<x, tit>>
        BY <3>1, AppendToOne
    <3>. HIDE DEF it, its
    <3>4. x \in Sound /\ tit \in Sound
        BY <1>3, <2>2, <3>2
    <3>5. <<x, tit>> \in Seq(Sound) /\ Len(<<x, tit>>) = 2
        BY <3>4
    <3>. QED
        BY <3>2, <3>3, <3>5
  <2>. HIDE DEF its
  <2>4. /\ items' \in [Workers -> Seq(Sound)] /\ items'[w] = its
        /\ \A v \in Workers \ {w} : items'[v] = items[v]
    <3>1. items' = [items EXCEPT ![w] = its] /\ items \in [Workers -> Seq(Sound)]
        BY <2>1 DEF its, Content, Stock
    <3>. QED
        BY <2>3, <3>1
  <2>5. pc'[w] = "reply" /\ \A v \in Workers \ {w} : pc'[v] = pc[v]
      BY <2>1 DEF Goto, Inv, RestOK
  <2>6. Stock'
      BY <1>1, <2>4, LookStock DEF Content
  <2>. HIDE DEF q, it
  <2>7. About(q, its)
      BY <1>2, <1>6, <2>2, <2>3 DEF About, target, a
  <2>8. Knows(w)'
      BY <1>5, <2>4, <2>5, <2>7 DEF Knows
  <2>. QED
      BY <1>1, <2>4, <2>5, <2>6, <2>8, MoveContent
<1>9. CASE Goto(w, "file") /\ items' = [items EXCEPT ![w] = <<>>]
  <2>1. pc'[w] = "file" /\ \A v \in Workers \ {w} : pc'[v] = pc[v] /\ items'[v] = items[v]
      BY <1>9 DEF Goto, Inv, RestOK
  <2>2. items' \in [Workers -> Seq(Sound)]
      BY <1>9 DEF Content, Stock
  <2>. HIDE DEF a, target
  <2>3. Stock'
      BY <1>1, <2>2, LookStock DEF Content
  <2>4. Knows(w)'
      BY <2>1 DEF Knows
  <2>. QED
      BY <1>1, <2>1, <2>3, <2>4, MoveContent
<1>. QED
    BY <1>7, <1>8, <1>9

(* ... reads the file, ... *)
LEMMA SeekContent ==
    ASSUME Inv, Content, NEW w \in Workers, Seek(w)
    PROVE  Content'
<1>1. /\ pc[w] = "file" /\ UNCHANGED <<crew, req, ask, sent, items, todo, ttl, cache, now, sys>>
    BY DEF Seek, At, setupVars, poolVars, ownVars
<1>2. Question(w)' = Question(w)
    BY <1>1 DEF Question
<1>3. PICK to \in {"relay", "scan"} :
         /\ Goto(w, to)
         /\ to = "relay" => Lines(Question(w).name) = {}
         /\ to = "scan" => pos' = Index(Question(w).name)
    BY DEF Seek
<1>4. pc'[w] = to /\ \A v \in Workers \ {w} : pc'[v] = pc[v] /\ items'[v] = items[v]
    BY <1>1, <1>3 DEF Goto, Inv, RestOK
<1>5. Knows(w)'
    BY <1>2, <1>3, <1>4 DEF Knows, InFile
<1>6. Stock'
    BY <1>1, StockKept DEF Content
<1>. QED
    BY <1>1, <1>4, <1>5, <1>6, MoveContent

LEMMA ScanContent ==
    ASSUME Inv, HeapInv, Content, NEW w \in Workers, Scan(w)
    PROVE  Content'
<1>. DEFINE q   == Question(w)
            rec == [name |-> q.name, type |-> "A", val |-> WordAt(pos), ttl |-> LocalTTL]
            tmp == addRR2Item(<<rec>>)
<1>1. /\ pc[w] = "scan" /\ Goto(w, "put")
      /\ items' = [items EXCEPT ![w] = <<tmp>>] /\ todo' = [todo EXCEPT ![w] = <<tmp>>]
      /\ UNCHANGED <<crew, req, ask, sent, ttl, cache, now>>
      /\ sys' # "starting"
    BY DEF Scan, At, setupVars, poolVars
<1>2. q.name \in Names /\ q.type = "A" /\ Lines(q.name) # {}
    BY <1>1, OwnRequest DEF HeapInv, Path
<1>3. OneThread => pos = Index(q.name)
  <2>1. Knows(w)
      BY DEF Content
  <2>. QED
      BY <1>1, <2>1 DEF Knows
<1>4. Question(w)' = q
    BY <1>1 DEF Question
<1>. HIDE DEF q
<1>5. tmp \in Sound /\ tmp.name = q.name /\ tmp.type = "A"
    BY <1>2, <1>3, LineSound DEF Inv
<1>. HIDE DEF tmp
<1>6. <<tmp>> \in Seq(Sound) /\ Len(<<tmp>>) = 1 /\ <<tmp>>[1] = tmp
    BY <1>5
<1>7. /\ items' \in [Workers -> Seq(Sound)] /\ items'[w] = <<tmp>>
      /\ \A v \in Workers \ {w} : items'[v] = items[v]
      /\ todo' \in [Workers -> Seq(Sound)]
    BY <1>1, <1>6 DEF Content, Stock
<1>8. pc'[w] = "put" /\ \A v \in Workers \ {w} : pc'[v] = pc[v]
    BY <1>1 DEF Goto, Inv, RestOK
<1>9. Sound' = Sound /\ Stored' = Stored
    BY <1>1, SoundSame DEF Stored
<1>10. Stock'
    BY <1>1, <1>7, <1>9 DEF Content, Stock
<1>11. About(q, <<tmp>>)
    BY <1>2, <1>5, <1>6 DEF About
<1>12. Knows(w)'
    BY <1>4, <1>7, <1>8, <1>11 DEF Knows
<1>. QED
    BY <1>1, <1>7, <1>8, <1>10, <1>12, MoveContent

(* ... asks the upstream server, ... *)
LEMMA SendQueryContent ==
    ASSUME Inv, Content, NEW w \in Workers, SendQuery(w)
    PROVE  Content'
<1>1. /\ pc[w] = "relay" /\ Goto(w, "wait")
      /\ UNCHANGED <<crew, req, ask, sent, items, todo, ttl, cache, now, sys>>
    BY DEF SendQuery, At, setupVars, poolVars, ownVars
<1>2. pc'[w] = "wait" /\ \A v \in Workers \ {w} : pc'[v] = pc[v] /\ items'[v] = items[v]
    BY <1>1 DEF Goto, Inv, RestOK
<1>3. Question(w)' = Question(w)
    BY <1>1 DEF Question
<1>4. Knows(w)
    BY DEF Content
<1>5. Knows(w)'
    BY <1>1, <1>2, <1>3, <1>4 DEF Knows
<1>6. Stock'
    BY <1>1, StockKept DEF Content
<1>. QED
    BY <1>1, <1>2, <1>5, <1>6, MoveContent

(* ... fills the cache, ... *)
LEMMA PutItemContent ==
    ASSUME Inv, Content, NEW w \in Workers, PutItem(w)
    PROVE  Content'
<1>1. /\ pc[w] = "put" /\ todo[w] # <<>> /\ Goto(w, "store")
      /\ ttl' = [ttl EXCEPT ![w] = Head(todo[w]).ddl - now]
      /\ UNCHANGED <<crew, req, ask, sent, items, todo, cache, now, sys>>
    BY DEF PutItem, At, setupVars, poolVars, memVars
<1>2. pc'[w] = "store" /\ \A v \in Workers \ {w} : pc'[v] = pc[v] /\ items'[v] = items[v]
    BY <1>1 DEF Goto, Inv, RestOK
<1>3. Question(w)' = Question(w) /\ items'[w] = items[w]
    BY <1>1 DEF Question
<1>4. Knows(w)
    BY DEF Content
<1>5. Knows(w)'
    BY <1>1, <1>2, <1>3, <1>4 DEF Knows
<1>. DEFINE it == Head(todo[w])
<1>6. it \in Sound
    BY <1>1, HeadTailProperties DEF Content, Stock
<1>7. it.ddl \in Nat /\ now \in Int
    BY <1>6 DEF Sound, SoundIn, Items, Inv, RestOK
<1>8. it.ddl - now \in Int
    BY <1>7
<1>9. ttl' \in [Workers -> Int]
    BY <1>1, <1>8 DEF Content, Stock
<1>10. Sound' = Sound /\ Stored' = Stored
    BY <1>1, SoundSame DEF Stored
<1>11. Stock'
    BY <1>1, <1>9, <1>10 DEF Content, Stock
<1>. QED
    BY <1>1, <1>2, <1>5, <1>11, MoveContent

LEMMA CachePutContent ==
    ASSUME Inv, HeapInv, Content, NEW w \in Workers, CachePut(w)
    PROVE  Content'
<1>. DEFINE it    == Head(todo[w])
            k     == <<it.name, it.type>>
            entry == [item |-> it, saveTime |-> now, TTL |-> ttl[w]]
<1>1. /\ pc[w] = "store" /\ Goto(w, "put") /\ todo' = [todo EXCEPT ![w] = Tail(todo[w])]
      /\ ttl' = [ttl EXCEPT ![w] = 0]
      /\ UNCHANGED <<crew, req, ask, sent, items, now, sys>>
    BY DEF CachePut, At, Inv, RestOK, setupVars, poolVars
<1>2. PICK out : cache' = [cache EXCEPT ![out] = NoEntry, ![k] = entry]
    BY DEF CachePut
<1>3. /\ pc'[w] = "put" /\ \A v \in Workers \ {w} : pc'[v] = pc[v] /\ items'[v] = items[v]
      /\ items'[w] = items[w]
    BY <1>1 DEF Goto, Inv, RestOK
<1>4. it \in Sound /\ Tail(todo[w]) \in Seq(Sound)
  <2>1. todo[w] # <<>>
      BY <1>1 DEF HeapInv, Sources
  <2>2. todo[w] \in Seq(Sound)
      BY DEF Content, Stock
  <2>. QED
      BY <2>1, <2>2, HeadTailProperties
<1>5. entry.item = it /\ entry.TTL \in Int
    BY DEF Content, Stock
<1>. HIDE DEF it, k, entry
<1>6. /\ DOMAIN cache' = DOMAIN cache
      /\ \A j \in DOMAIN cache : cache'[j] \in {cache[j], NoEntry, entry}
    BY <1>2
<1>7. \A j \in Stored' : cache'[j] = entry \/ (j \in Stored /\ cache'[j] = cache[j])
    BY <1>6 DEF Stored
<1>8. \A j \in Stored' : cache'[j].item \in Sound /\ cache'[j].TTL \in Int
    BY <1>4, <1>5, <1>7 DEF Content, Stock
<1>9. todo' \in [Workers -> Seq(Sound)] /\ ttl' \in [Workers -> Int]
  <2>. DEFINE rest == Tail(todo[w])
  <2>1. rest \in Seq(Sound) /\ todo' = [todo EXCEPT ![w] = rest]
      BY <1>1, <1>4
  <2>2. ttl' = [ttl EXCEPT ![w] = 0]
      BY <1>1
  <2>3. todo \in [Workers -> Seq(Sound)] /\ ttl \in [Workers -> Int]
      BY DEF Content, Stock
  <2>. HIDE DEF rest
  <2>. QED
      BY <2>1, <2>2, <2>3
<1>10. Sound' = Sound
    BY <1>1, SoundSame
<1>11. Stock'
    BY <1>1, <1>8, <1>9, <1>10 DEF Content, Stock
<1>12. Knows(w) /\ Question(w)' = Question(w)
    BY <1>1 DEF Content, Question
<1>13. Knows(w)'
    BY <1>1, <1>3, <1>12 DEF Knows
<1>. QED
    BY <1>1, <1>3, <1>11, <1>13, MoveContent

(* ... and replies, with what it has found or with an error, ... *)
LEMMA EndContent ==
    ASSUME Inv, Content, NEW w \in Workers, pc[w] # "idle", ~Relayed(w), Return(w),
           UNCHANGED <<crew, ask, todo, ttl, cache, now, sys>>,
           items' = [items EXCEPT ![w] = <<>>] \/ UNCHANGED items,
           NEW msg, Send(w, msg), ReplyOK(ask[req[w]], Apply(Read, encode(msg)), Passings)
    PROVE  Content'
<1>1. /\ pc'[w] = "idle"
      /\ \A v \in Workers \ {w} : pc'[v] = pc[v] /\ req'[v] = req[v] /\ items'[v] = items[v]
    BY DEF Return, Goto, Inv, RestOK
<1>2. w \in crew /\ Crew
    BY DEF Content, Crew
<1>3. Knows(w)'
    BY <1>1 DEF Knows
<1>4. \A v \in Workers : Knows(v)'
    BY <1>1, <1>2, <1>3, StepKnows DEF Content
<1>5. Crew'
    BY <1>1, <1>2, CrewKept
<1>6. Replies' /\ Passings \subseteq Passings'
  <2>. DEFINE m == Apply(Read, encode(msg))
  <2>1. Deliver(w, m) /\ ReplyOK(ask[req[w]], m, Passings)
      BY DEF Send
  <2>. HIDE DEF m
  <2>. QED
      BY <2>1, RepliesSent DEF Content
<1>7. Stock'
  <2>1. Sound \subseteq Sound' /\ Seq(Sound) \subseteq Seq(Sound') /\ Stored' = Stored
      BY <1>6, SoundLater DEF Stored, Inv, RestOK
  <2>2. items' \in [Workers -> Seq(Sound)]
    <3>1. items \in [Workers -> Seq(Sound)] /\ <<>> \in Seq(Sound)
        BY DEF Content, Stock
    <3>2. CASE items' = [items EXCEPT ![w] = <<>>]
        BY <3>1, <3>2
    <3>3. CASE UNCHANGED items
        BY <3>1, <3>3
    <3>. QED
        BY <3>2, <3>3
  <2>. QED
      BY <2>1, <2>2 DEF Content, Stock
<1>. QED
    BY <1>4, <1>5, <1>6, <1>7 DEF Content

LEMMA FoundContent ==
    ASSUME CodecReads, Inv, Content, NEW w \in Workers, Reply(w) \/ ReplyLocal(w)
    PROVE  Content'
<1>1. /\ pc[w] # "idle" /\ ~Relayed(w) /\ Return(w) /\ Send(w, Filled(w))
      /\ pc[w] = "reply" \/ (pc[w] = "put" /\ items[w] # <<>>)
      /\ items' = [items EXCEPT ![w] = <<>>]
      /\ UNCHANGED <<crew, ask, todo, ttl, cache, now, sys>>
    BY DEF Reply, ReplyLocal, At, Relayed, setupVars, memVars
<1>. DEFINE m == ask[req[w]]
<1>2. m \in Asks /\ replyMsg[w] = Prepared(foreignEncode(m))
    BY <1>1, AtHand
<1>3. About(m.ques[1], items[w])
  <2>1. Knows(w)
      BY DEF Content
  <2>. QED
      BY <1>1, <2>1 DEF Knows, Question
<1>4. Len(items[w]) \in 1..2
    BY <1>3 DEF About
<1>5. RestOK /\ Stock /\ AsksRead
    BY DEF Inv, Content, CodecReads
<1>. HIDE DEF m
<1>6. PICK rcode \in {NO_ERR, NAME_ERR} : \E rrs :
         Filled(w) = ReplyTo(m, rcode, rrs) /\ Right(m.ques[1], rcode, rrs)
    BY <1>2, <1>3, <1>4, <1>5, FilledRight
<1>7. PICK rrs : Filled(w) = ReplyTo(m, rcode, rrs) /\ Right(m.ques[1], rcode, rrs)
    BY <1>6
<1>8. ReplyOK(m, Apply(Read, encode(ReplyTo(m, rcode, rrs))), Passings)
    BY <1>2, <1>7, ReplyRight
<1>. DEFINE msg == Filled(w)
<1>9. Send(w, msg) /\ ReplyOK(ask[req[w]], Apply(Read, encode(msg)), Passings)
    BY <1>1, <1>7, <1>8 DEF m
<1>. HIDE DEF msg
<1>. QED
    BY <1>1, <1>9, EndContent

LEMMA FailedContent ==
    ASSUME CodecReads, Inv, Content, NEW w \in Workers, SendFails(w) \/ RecvTimeout(w)
    PROVE  Content'
<1>1. /\ pc[w] \in {"relay", "wait"} /\ Return(w) /\ Send(w, Failed(w))
      /\ UNCHANGED <<crew, ask, items, todo, ttl, cache, now, sys>>
    BY DEF SendFails, RecvTimeout, At, setupVars, memVars, ownVars
<1>2. pc[w] # "idle" /\ ~Relayed(w)
    BY <1>1 DEF Relayed
<1>. DEFINE m == ask[req[w]]
<1>3. m \in Asks /\ replyMsg[w] = Prepared(foreignEncode(m))
    BY <1>2, AtHand
<1>4. ~InFile(m.ques[1])
  <2>1. Knows(w)
      BY DEF Content
  <2>. QED
      BY <1>1, <2>1 DEF Knows, Question
<1>. HIDE DEF m
<1>. DEFINE none == <<>>
            rcode == SERVER_FAILURE
<1>5. Failed(w) = ReplyTo(m, rcode, none) /\ Right(m.ques[1], rcode, none)
    BY <1>3, <1>4, FailedRight DEF CodecReads
<1>6. rcode \in {NO_ERR, SERVER_FAILURE, NAME_ERR}
    OBVIOUS
<1>. HIDE DEF none, rcode
<1>7. ReplyOK(m, Apply(Read, encode(ReplyTo(m, rcode, none))), Passings)
    BY <1>3, <1>5, <1>6, ReplyRight
<1>. DEFINE msg == Failed(w)
<1>8. Send(w, msg) /\ ReplyOK(ask[req[w]], Apply(Read, encode(msg)), Passings)
    BY <1>1, <1>5, <1>7 DEF m
<1>. HIDE DEF msg
<1>. QED
    BY <1>1, <1>2, <1>8, EndContent

(* ... or passes on the answer of the upstream server. *)
LEMMA RecvAnswerContent ==
    ASSUME CodecReads, Inv, Content, NEW w \in Workers, RecvAnswer(w)
    PROVE  Content'
<1>1. /\ pc[w] = "wait" /\ Goto(w, "put")
      /\ UNCHANGED <<crew, req, ask, items, ttl, cache, now>>
      /\ sys' # "starting"
    BY DEF RecvAnswer, At, setupVars, poolVars
<1>. DEFINE m == ask[req[w]]
<1>2. PICK said \in Said(m) :
         /\ Deliver(w, Apply(Passed, foreignEncode(said)))
         /\ todo' = [todo EXCEPT ![w] = ItemsOf(decode(foreignEncode(said)).rr[ANSWER])]
    BY DEF RecvAnswer
<1>3. pc[w] # "idle" /\ ~Relayed(w) /\ items[w] = <<>>
    BY <1>1 DEF Relayed, Inv, AtWork, InHandler
<1>4. m \in Asks
    BY <1>3, AtHand
<1>5. ~InFile(m.ques[1])
  <2>1. Knows(w)
      BY DEF Content
  <2>. QED
      BY <1>1, <2>1 DEF Knows, Question
<1>. HIDE DEF m
<1>. DEFINE a   == Apply(Passed, foreignEncode(said))
            its == ItemsOf(decode(foreignEncode(said)).rr[ANSWER])
<1>6. /\ ReplyOK(m, a, Passings) /\ a.passed /\ a.at = now
      /\ Answers(a) = decode(foreignEncode(said)).rr[ANSWER]
    BY <1>4, <1>5, SaidReplyOK DEF CodecReads
<1>. HIDE DEF a, its
<1>7. Replies' /\ Passings \subseteq Passings' /\ a \in Passings'
  <2>1. Deliver(w, a) /\ ReplyOK(ask[req[w]], a, Passings)
      BY <1>2, <1>6 DEF a, m
  <2>. QED
      BY <1>1, <1>3, <1>6, <2>1, RepliesSent DEF Content
<1>8. Stock'
  <2>1. todo' = [todo EXCEPT ![w] = its] /\ now' = now /\ now \in Int
      BY <1>1, <1>2 DEF its, Inv, RestOK
  <2>. DEFINE past == Passings'
  <2>2. its \in Seq(SoundIn(past, now))
    <3>1. a \in past /\ RestOK /\ AnswersRead
        BY <1>7 DEF Inv, CodecReads
    <3>. HIDE DEF past
    <3>. QED
        BY <1>4, <1>6, <3>1, AnswerSound DEF its
  <2>3. its \in Seq(Sound')
      BY <2>1, <2>2 DEF Sound
  <2>4. Sound \subseteq Sound' /\ Seq(Sound) \subseteq Seq(Sound') /\ Stored' = Stored
      BY <1>1, <1>7, <2>1, SoundLater DEF Stored
  <2>5. todo' \in [Workers -> Seq(Sound')] /\ items' \in [Workers -> Seq(Sound')]
      BY <1>1, <2>1, <2>3, <2>4 DEF Content, Stock
  <2>. QED
      BY <1>1, <2>4, <2>5 DEF Content, Stock
<1>9. /\ pc'[w] = "put" /\ items'[w] = <<>>
      /\ \A v \in Workers \ {w} : pc'[v] = pc[v] /\ req'[v] = req[v] /\ items'[v] = items[v]
    BY <1>1, <1>3 DEF Goto, Inv, RestOK
<1>10. Knows(w)'
    BY <1>9 DEF Knows
<1>11. w \in crew /\ Crew
    BY <1>3 DEF Content, Crew
<1>12. \A v \in Workers : Knows(v)'
    BY <1>1, <1>9, <1>10, <1>11, StepKnows DEF Content
<1>13. Crew'
    BY <1>1, <1>9, <1>11, CrewKept
<1>. QED
    BY <1>7, <1>8, <1>12, <1>13 DEF Content

LEMMA PutDoneContent ==
    ASSUME Inv, Content, NEW w \in Workers, PutDone(w)
    PROVE  Content'
<1>1. /\ pc[w] = "put" /\ Return(w)
      /\ UNCHANGED <<crew, ask, sent, items, todo, ttl, cache, now, sys>>
    BY DEF PutDone, At, setupVars, memVars, ownVars
<1>2. /\ pc'[w] = "idle"
      /\ \A v \in Workers \ {w} : pc'[v] = pc[v] /\ req'[v] = req[v] /\ items'[v] = items[v]
    BY <1>1 DEF Return, Goto, Inv, RestOK
<1>3. Knows(w)'
    BY <1>2 DEF Knows
<1>4. w \in crew /\ Crew
    BY <1>1 DEF Content, Crew
<1>5. \A v \in Workers : Knows(v)'
    BY <1>1, <1>2, <1>3, <1>4, StepKnows DEF Content
<1>6. Crew' /\ Stock' /\ Replies'
    BY <1>1, <1>2, <1>4, CrewKept, StockKept, RepliesKept DEF Content
<1>. QED
    BY <1>5, <1>6 DEF Content

LEMMA ContentStep ==
    ASSUME CodecReads
    PROVE  Inv /\ HeapInv /\ Content /\ [Next]_vars => Content'
<1>. SUFFICES ASSUME Inv, HeapInv, Content, [Next]_vars PROVE Content'
    OBVIOUS
<1>1. CASE \/ UNCHANGED vars \/ StartFails \/ ReceiveFails \/ Tick
           \/ \E w \in Workers : ShowRequest(w) \/ SocketFails(w)
  <2>1. /\ UNCHANGED <<crew, poolVars, ask, sent, pc, ownVars, cache, pos>>
        /\ sys' = "starting" => sys = "starting"
      BY <1>1 DEF StartFails, ReceiveFails, Tick, ShowRequest, SocketFails, vars, At,
                  setupVars, memVars
  <2>2. now' = now \/ now' = now + 1
      BY <1>1 DEF StartFails, ReceiveFails, Tick, ShowRequest, SocketFails, vars
  <2>3. now' \in Int /\ now <= now'
      BY <2>2 DEF Inv, RestOK
  <2>. QED
      BY <2>1, <2>3, OutsideContent
<1>. QED
    BY <1>1, StartContent, ReceiveContent, TakeContent, GetItemContent, GetCnameContent,
       GetAliasContent, SeekContent, ScanContent, SendQueryContent, PutItemContent,
       CachePutContent, FoundContent, FailedContent, RecvAnswerContent, PutDoneContent
       DEF Next, Work

LEMMA ContentHolds ==
    ASSUME CodecReads
    PROVE  Spec => [](Inv /\ Content)
<1>1. Init => Content
  <2>. SUFFICES ASSUME Init PROVE Content
      OBVIOUS
  <2>1. Stored = {}
      BY DEF Init, Stored
  <2>2. Stock
      BY <2>1 DEF Init, Stock
  <2>3. Crew
      BY DEF Init, Crew
  <2>4. \A w \in Workers : Knows(w)
      BY DEF Init, Knows
  <2>5. Replies
      BY DEF Init, Replies, Sent, ToSet
  <2>. QED
      BY <2>2, <2>3, <2>4, <2>5 DEF Content
<1>2. Inv /\ HeapInv /\ Content /\ [Next]_vars => Content'
    BY ContentStep
<1>3. Inv /\ HeapInv /\ [Next]_vars => HeapInv'
    BY HeapStep DEF CodecReads
<1>. QED
    BY <1>1, <1>2, <1>3, HeapInit, Invariance, PTL DEF Spec

(* If encode and decode carry single messages (CodecReads), then for any   *)
(* number of workers, and however long an item has been in the cache, the  *)
(* TTL of a record that a client reads is, as an uint32_t, what is left of *)
(* the life of the last record of its type in one answer of the upstream   *)
(* server, an answer that was passed on before and had a record of this    *)
(* type and value, or what is left of LocalTTL since the file was read     *)
(* (server.c:104 to 109 and :84).                                          *)
THEOREM TtlBound ==
    ASSUME CodecReads
    PROVE  Spec => []TtlLeft
<1>1. Content => TtlLeft
  <2>. SUFFICES ASSUME Content, NEW r \in Answered, NEW m \in Sent(r),
                       NEW rr \in ToSet(Answers(m)), ~m.passed
                PROVE  \/ \E q \in Answered : \E a \in Sent(q) : OutOf(a, rr, m.at)
                       \/ OutOfFile(rr, m.at)
      BY DEF TtlLeft
  <2>1. ReplyOK(ask[r], m, Passings)
      BY DEF Content, Replies, Answered
  <2>2. Traced(rr, m.at, Passings)
      BY <2>1 DEF ReplyOK
  <2>3. ASSUME NEW a \in Passings PROVE \E q \in Answered : a \in Sent(q)
    <3>1. PICK q \in Requests : a \in Sent(q)
        BY DEF Passings
    <3>2. sent[q] # <<>>
        BY <3>1 DEF Sent, ToSet
    <3>. QED
        BY <3>1, <3>2 DEF Answered
  <2>. QED
      BY <2>2, <2>3 DEF Traced
<1>. QED
    BY <1>1, ContentHolds, PTL

(* If the upstream server answers what it is asked, so does this server,   *)
(* from the cache too: in every interleaving a reply repeats its question, *)
(* and each record is about the name asked for or about the target of a    *)
(* CNAME record before it.                                                 *)
THEOREM AnswersFit ==
    ASSUME CodecReads, UpstreamAsked
    PROVE  Spec => []AnswersAsked
<1>1. Content => AnswersAsked
  <2>. SUFFICES ASSUME Content, NEW r \in Answered, NEW m \in Sent(r)
                PROVE  /\ m.msg.ques = ask[r].ques
                       /\ OnTopic(ask[r].ques[1].name, Answers(m))
      BY DEF AnswersAsked
  <2>1. ReplyOK(ask[r], m, Passings)
      BY DEF Content, Replies, Answered
  <2>. QED
      BY <2>1 DEF ReplyOK
<1>. QED
    BY <1>1, ContentHolds, PTL

(* The server invents nothing, if no answer of the upstream server has     *)
(* records of a type for two names, which server.c:104 mixes up, and if    *)
(* nobody moves the position in the file between fseek and fscanf: with    *)
(* any number of workers and no file, or one worker and any file.          *)
THEOREM NothingInvented ==
    ASSUME CodecReads, OneNameEach, OneThread \/ File = <<>>
    PROVE  Spec => []AnswersBacked
<1>1. Content => AnswersBacked
  <2>. SUFFICES ASSUME Content, NEW r \in Answered, NEW m \in Sent(r),
                       NEW rr \in ToSet(Answers(m))
                PROVE  \E k \in KnownRR : rr = [k EXCEPT !.ttl = rr.ttl]
      BY DEF AnswersBacked
  <2>1. ReplyOK(ask[r], m, Passings)
      BY DEF Content, Replies, Answered
  <2>2. RecordOK(rr)
      BY <2>1 DEF ReplyOK
  <2>3. NotMixed
      BY DEF NotMixed
  <2>. QED
      BY <2>2, <2>3 DEF RecordOK
<1>. QED
    BY <1>1, ContentHolds, PTL

(* The local file is obeyed for every question it has a line for, whatever *)
(* the order of requests and however the cache throws out entries, as long *)
(* as one worker reads it (the race of two is in the run ServerFileRace)   *)
(* and no answer of the upstream server is about a name of the file, which *)
(* the cache, asked first, would prefer (server.c:192).                    *)
THEOREM FileObeyed ==
    ASSUME CodecReads, OneThread, FileApart
    PROVE  Spec => []LocalFileObeyed
<1>1. Content => LocalFileObeyed
  <2>. SUFFICES ASSUME Content, NEW r \in Answered, InFile(ask[r].ques[1]), NEW m \in Sent(r)
                PROVE  AsFile(ask[r].ques[1].name, m)
      BY DEF LocalFileObeyed, InFile, AsFile, FileIp
  <2>1. ReplyOK(ask[r], m, Passings)
      BY DEF Content, Replies, Answered
  <2>2. FileRules
      BY DEF FileRules
  <2>. QED
      BY <2>1, <2>2 DEF ReplyOK
<1>. QED
    BY <1>1, ContentHolds, PTL
=============================================================================
