---------------------------- MODULE RelayerProofs ----------------------------
(***************************************************************************)
(* Theorems about Relayer for any number of workers and clients, any       *)
(* questions and any upstream server.                                      *)
(***************************************************************************)
EXTENDS Relayer, Lemmas

(* TypeOK without the bound below on sockets, which follows from Costs. *)
Types ==
    /\ DOMAIN asked = Clients /\ DOMAIN got = Clients /\ DOMAIN msgs = Clients
    /\ DOMAIN query = Workers
    /\ \A c \in Clients : asked[c] \in Asks[c] \cup {NoMsg}
    /\ cpc \in [Clients -> {"start", "wait", "shown", "crashed", "failed"}]
    /\ net \subseteq Clients
    /\ queue \in Seq(Clients)
    /\ req \in [Workers -> Clients \cup {NoClient}]
    /\ done \subseteq Clients
    /\ \A r \in replies : r.of \in Clients /\ r.to \in [host : Hosts, port : Nat]
    /\ stackHost \in Hosts
    /\ sys \in {"up", "exited"}

(* A request that has been made is in at most one place: on its way, in    *)
(* the queue once, with one worker, or done.                               *)
OnePlace ==
    /\ \A c \in Clients : cpc[c] = "start" =>
          c \notin net \cup Elements(queue) \cup Waiting \cup done
    /\ net \cap (Elements(queue) \cup Waiting \cup done) = {}
    /\ Elements(queue) \cap (Waiting \cup done) = {}
    /\ Waiting \cap done = {}
    /\ NoRepeat(queue)
    /\ \A v, w \in Workers : req[v] # NoClient /\ req[v] = req[w] => v = w
    /\ Answered \subseteq done

(* What a request costs: sockets and messages. *)
Unanswered == done \ Answered
SocketCost == sockets = Cardinality(Waiting) + Cardinality(Unanswered) /\ sockets <= FdLimit
MessageCost ==
    \A c \in Clients : msgs[c] # NoMsg <=> c \in Elements(queue) \cup Waiting \cup Unanswered

(* What the relayer makes of a request, and what it is told. *)
Forwarded(c) == Relayed(c, asked[c])
Carried ==
    /\ \A c \in Clients : cpc[c] # "start" => asked[c] \in Asks[c]
    /\ \A c \in Elements(queue) : msgs[c] = decode(Wire(c, asked[c]))
    /\ \A w \in Workers : req[w] # NoClient => query[w] = Forwarded(req[w])
    /\ \A r \in replies : r.said \in Said(Forwarded(r.of)) /\ r.to.port = Addr[r.of].port
    /\ \A c \in Clients : got[c] # NoMsg =>
          /\ cpc[c] # "start"
          /\ \E r \in replies : r.to = Addr[c] /\ r.said = got[c].said
          /\ got[c].read = decode(foreignEncode(got[c].said))

Inv == Types /\ OnePlace /\ SocketCost /\ MessageCost /\ Carried

-----------------------------------------------------------------------------
(* The queue as a set. *)

LEMMA ToSetIsElements ==
    ASSUME NEW S, NEW q \in Seq(S)
    PROVE  ToSet(q) = Elements(q)
BY LenProperties DEF ToSet, Elements

LEMMA ElementsInSet ==
    ASSUME NEW S, NEW q \in Seq(S)
    PROVE  Elements(q) \subseteq S
BY LenProperties, ElementOfSeq DEF Elements

LEMMA FiniteParts ==
    ASSUME Types
    PROVE  /\ Waiting \subseteq Clients /\ IsFiniteSet(Waiting)
           /\ IsFiniteSet(Unanswered) /\ Unanswered \subseteq Clients
           /\ Cardinality(Waiting) \in Nat /\ Cardinality(Unanswered) \in Nat
<1>1. Waiting \subseteq Clients
    BY DEF Types, Waiting
<1>2. Unanswered \subseteq Clients
    BY DEF Types, Unanswered
<1>3. IsFiniteSet(Clients)
    BY RelayerAssumption
<1>. QED
    BY <1>1, <1>2, <1>3, FS_Subset, FS_CardinalityType

LEMMA WaitingAfterTake ==
    ASSUME Types, NEW w \in Workers, req[w] = NoClient, NEW c \in Clients,
           req' = [req EXCEPT ![w] = c]
    PROVE  Waiting' = Waiting \cup {c}
<1>1. c # NoClient
    BY RelayerAssumption
<1>2. \A v \in Workers : req'[v] = IF v = w THEN c ELSE req[v]
    BY DEF Types
<1>3. Waiting' = {req'[v] : v \in Workers} \ {NoClient}
    BY DEF Waiting
<1>. QED
    BY <1>1, <1>2, <1>3 DEF Waiting

LEMMA WaitingAfterReturn ==
    ASSUME Types, OnePlace, NEW w \in Workers, req[w] # NoClient,
           req' = [req EXCEPT ![w] = NoClient]
    PROVE  /\ Waiting' = Waiting \ {req[w]}
           /\ req[w] \in Waiting /\ req[w] \in Clients
<1>1. \A v \in Workers : req'[v] = IF v = w THEN NoClient ELSE req[v]
    BY DEF Types
<1>2. Waiting' = {req'[v] : v \in Workers} \ {NoClient}
    BY DEF Waiting
<1>3. \A v \in Workers : req[v] = req[w] => v = w
    BY DEF OnePlace
<1>4. req[w] \in Waiting /\ req[w] \in Clients
    BY DEF Waiting, Types
<1>. QED
    BY <1>1, <1>2, <1>3, <1>4 DEF Waiting

LEMMA AnsweredAfterReply ==
    ASSUME NEW c, NEW a, NEW s, replies' = replies \cup {[of |-> c, to |-> a, said |-> s]}
    PROVE  Answered' = Answered \cup {c}
<1>. DEFINE new == [of |-> c, to |-> a, said |-> s]
<1>1. Answered' = {r.of : r \in replies'}
    BY DEF Answered
<1>2. new.of = c /\ replies' = replies \cup {new}
    OBVIOUS
<1>. HIDE DEF new
<1>. QED
    BY <1>1, <1>2 DEF Answered

-----------------------------------------------------------------------------
(* The invariant holds in the beginning, and no step ends it. *)

LEMMA InitInv == Init => Inv
<1>. SUFFICES ASSUME Init
              PROVE  Inv
    OBVIOUS
<1>1. Elements(queue) = {} /\ NoRepeat(queue)
    BY DEF Init, Elements, NoRepeat
<1>2. Waiting = {} /\ Answered = {} /\ Unanswered = {}
    BY DEF Init, Waiting, Answered, Unanswered
<1>3. Types
    BY DEF Init, Types
<1>4. OnePlace
    BY <1>1, <1>2, RelayerAssumption DEF Init, OnePlace
<1>5. SocketCost
    BY <1>2, FS_EmptySet, RelayerAssumption DEF Init, SocketCost
<1>6. MessageCost
    BY <1>1, <1>2 DEF Init, MessageCost
<1>7. Carried
    BY <1>1, RelayerAssumption DEF Init, Carried
<1>. QED
    BY <1>3, <1>4, <1>5, <1>6, <1>7 DEF Inv

(* A step that leaves the relayer alone. *)
LEMMA RelayerIdle ==
    ASSUME UNCHANGED relayVars
    PROVE  /\ Waiting' = Waiting /\ Answered' = Answered /\ Unanswered' = Unanswered
           /\ Elements(queue)' = Elements(queue) /\ NoRepeat(queue)' = NoRepeat(queue)
           /\ SocketCost' = SocketCost
BY DEF relayVars, Waiting, Answered, Unanswered, Elements, NoRepeat, SocketCost

LEMMA AskKeeps ==
    ASSUME Inv, NEW c \in Clients, Ask(c)
    PROVE  Inv'
<1>1. PICK m \in Asks[c] : asked' = [asked EXCEPT ![c] = m]
    BY DEF Ask
<1>2. /\ cpc[c] = "start" /\ cpc' = [cpc EXCEPT ![c] = "wait"] /\ net' = net \cup {c}
      /\ UNCHANGED relayVars /\ UNCHANGED <<got, stackHost, sys, msgs, queue, req, query, done, replies>>
    BY DEF Ask, relayVars
<1>3. /\ Waiting' = Waiting /\ Answered' = Answered /\ Unanswered' = Unanswered
      /\ Elements(queue)' = Elements(queue) /\ NoRepeat(queue)' = NoRepeat(queue)
      /\ SocketCost' = SocketCost
    BY <1>2, RelayerIdle
<1>4. /\ asked'[c] = m /\ \A d \in Clients \ {c} : asked'[d] = asked[d]
      /\ cpc'[c] = "wait" /\ \A d \in Clients \ {c} : cpc'[d] = cpc[d]
  <2>1. asked'[c] = m /\ \A d \in Clients \ {c} : asked'[d] = asked[d]
      BY <1>1 DEF Inv, Types
  <2>2. cpc'[c] = "wait" /\ \A d \in Clients \ {c} : cpc'[d] = cpc[d]
      BY <1>2 DEF Inv, Types
  <2>. QED
      BY <2>1, <2>2
<1>5. c \notin net \cup Elements(queue) \cup Waiting \cup done
    BY <1>2 DEF Inv, OnePlace
<1>6. Types'
    BY <1>1, <1>2, <1>4 DEF Inv, Types
<1>7. OnePlace'
    BY <1>2, <1>3, <1>4, <1>5 DEF Inv, OnePlace
<1>8. MessageCost'
    BY <1>2, <1>3 DEF Inv, MessageCost
<1>9. Carried'
  <2>1. \A d \in Clients : d # c => Forwarded(d)' = Forwarded(d) /\ asked'[d] = asked[d]
      BY <1>4 DEF Forwarded
  <2>2. \A d \in Elements(queue) : d \in Clients /\ d # c
      BY <1>5, ElementsInSet DEF Inv, Types
  <2>3. \A w \in Workers : req[w] # NoClient => req[w] \in Clients /\ req[w] # c
      BY <1>5 DEF Inv, Types, Waiting
  <2>4. \A r \in replies : r.of \in Clients /\ r.of # c
      BY <1>5 DEF Inv, Types, OnePlace, Answered
  <2>5. \A d \in Clients : cpc'[d] # "start" => asked'[d] \in Asks[d]
      BY <1>1, <1>4 DEF Inv, Carried
  <2>6. \A d \in Elements(queue) : msgs[d] = decode(Wire(d, asked'[d]))
      BY <2>1, <2>2 DEF Inv, Carried
  <2>7. \A w \in Workers : req[w] # NoClient => query[w] = Forwarded(req[w])'
      BY <1>2, <2>1, <2>3 DEF Inv, Carried
  <2>8. \A r \in replies : r.said \in Said(Forwarded(r.of)')
      BY <2>1, <2>4 DEF Inv, Carried
  <2>. QED
      BY <1>2, <1>3, <1>4, <2>5, <2>6, <2>7, <2>8 DEF Inv, Carried
<1>. QED
    BY <1>3, <1>6, <1>7, <1>8, <1>9 DEF Inv

(* Where no client asks, what is forwarded for each stays the same. *)
LEMMA ForwardedStays ==
    ASSUME asked' = asked, NEW c
    PROVE  Forwarded(c)' = Forwarded(c)
BY DEF Forwarded

LEMMA ShowKeeps ==
    ASSUME Inv, NEW c \in Clients, Show(c)
    PROVE  Inv'
<1>1. PICK r \in replies :
        /\ r.to = Addr[c]
        /\ got' = [got EXCEPT ![c] = [said |-> r.said,
                                      read |-> decode(foreignEncode(r.said))]]
    BY DEF Show
<1>2. PICK end \in {"shown", "crashed"} : cpc' = [cpc EXCEPT ![c] = end]
  <2>1. PICK end \in IF c \in Cli THEN ShowMsg(got'[c].read) ELSE {"shown"} :
            cpc' = [cpc EXCEPT ![c] = end]
      BY DEF Show
  <2>2. end \in {"shown", "crashed"}
      BY <2>1 DEF ShowMsg
  <2>. QED
      BY <2>1, <2>2
<1>3. /\ cpc[c] = "wait"
      /\ UNCHANGED relayVars
      /\ UNCHANGED <<asked, net, stackHost, sys, msgs, queue, req, query, done, replies>>
    BY DEF Show, relayVars
<1>4. /\ Waiting' = Waiting /\ Answered' = Answered /\ Unanswered' = Unanswered
      /\ Elements(queue)' = Elements(queue) /\ NoRepeat(queue)' = NoRepeat(queue)
      /\ SocketCost' = SocketCost
    BY <1>3, RelayerIdle
<1>5. cpc'[c] # "start" /\ \A d \in Clients \ {c} : cpc'[d] = cpc[d]
    BY <1>2 DEF Inv, Types
<1>6. /\ got'[c].said = r.said /\ got'[c].read = decode(foreignEncode(r.said))
      /\ \A d \in Clients \ {c} : got'[d] = got[d]
    BY <1>1 DEF Inv, Types
<1>7. Types'
    BY <1>1, <1>2, <1>3 DEF Inv, Types
<1>8. OnePlace'
    BY <1>3, <1>4, <1>5 DEF Inv, OnePlace
<1>9. MessageCost'
    BY <1>3, <1>4 DEF Inv, MessageCost
<1>10. Carried'
  <2>1. \A d \in Clients : got'[d] # NoMsg =>
          /\ cpc'[d] # "start"
          /\ \E q \in replies : q.to = Addr[d] /\ q.said = got'[d].said
          /\ got'[d].read = decode(foreignEncode(got'[d].said))
      BY <1>1, <1>5, <1>6 DEF Inv, Carried
  <2>2. \A d \in Clients : cpc'[d] # "start" => asked[d] \in Asks[d]
      BY <1>3, <1>5 DEF Inv, Carried
  <2>3. \A d : Forwarded(d)' = Forwarded(d)
      BY <1>3, ForwardedStays
  <2>. QED
      BY <1>3, <1>4, <2>1, <2>2, <2>3 DEF Inv, Carried
<1>. QED
    BY <1>4, <1>7, <1>8, <1>9, <1>10 DEF Inv

(* GiveUp, LoseRequest, ReceiveFails and SendFails: the relayer stays as   *)
(* it is, no client asks or starts again, nothing new is under way.        *)
LEMMA NothingNewKeeps ==
    ASSUME Inv, UNCHANGED relayVars, UNCHANGED <<asked, got, stackHost>>,
           net' \subseteq net, sys' \in {"up", "exited"},
           cpc' \in [Clients -> {"start", "wait", "shown", "crashed", "failed"}],
           \A c \in Clients : cpc'[c] = "start" <=> cpc[c] = "start"
    PROVE  Inv'
<1>1. UNCHANGED <<msgs, queue, req, query, done, replies>>
    BY DEF relayVars
<1>2. /\ Waiting' = Waiting /\ Answered' = Answered /\ Unanswered' = Unanswered
      /\ Elements(queue)' = Elements(queue) /\ NoRepeat(queue)' = NoRepeat(queue)
      /\ SocketCost' = SocketCost
    BY RelayerIdle
<1>3. Types'
    BY <1>1 DEF Inv, Types
<1>4. OnePlace'
    BY <1>1, <1>2 DEF Inv, OnePlace
<1>5. MessageCost'
    BY <1>1, <1>2 DEF Inv, MessageCost
<1>6. Carried'
  <2>1. \A d : Forwarded(d)' = Forwarded(d)
      BY ForwardedStays
  <2>. QED
      BY <1>1, <1>2, <2>1 DEF Inv, Carried
<1>. QED
    BY <1>2, <1>3, <1>4, <1>5, <1>6 DEF Inv

LEMMA ReceiveKeeps ==
    ASSUME Inv, NEW c \in Clients, Receive(c)
    PROVE  Inv'
<1>1. /\ c \in net /\ net' = net \ {c}
      /\ msgs' = [msgs EXCEPT ![c] = decode(Wire(c, asked[c]))]
      /\ queue' = Append(queue, c)
      /\ UNCHANGED <<asked, got, cpc, req, query, done, replies, sockets, stackHost, sys>>
    BY DEF Receive, cliVars
<1>2. /\ c \notin Elements(queue) \cup Waiting \cup done
      /\ cpc[c] # "start" /\ asked[c] \in Asks[c]
    BY <1>1 DEF Inv, OnePlace, Carried
<1>3. /\ queue' \in Seq(Clients) /\ Elements(queue)' = Elements(queue) \cup {c}
      /\ NoRepeat(queue)'
    BY <1>1, <1>2, ElementsOfAppend DEF Inv, Types, OnePlace
<1>4. Waiting' = Waiting /\ Answered' = Answered /\ Unanswered' = Unanswered
    BY <1>1 DEF Waiting, Answered, Unanswered
<1>5. msgs'[c] = decode(Wire(c, asked[c])) /\ \A d \in Clients \ {c} : msgs'[d] = msgs[d]
    BY <1>1 DEF Inv, Types
<1>6. Types'
    BY <1>1, <1>3 DEF Inv, Types
<1>7. OnePlace'
    BY <1>1, <1>2, <1>3, <1>4 DEF Inv, OnePlace
<1>8. SocketCost'
    BY <1>1, <1>4 DEF Inv, SocketCost
<1>9. MessageCost'
  <2>1. msgs'[c] # NoMsg
      BY <1>2, <1>5, RelayerAssumption
  <2>. QED
      BY <1>3, <1>4, <1>5, <2>1 DEF Inv, MessageCost
<1>10. Carried'
  <2>1. \A d : Forwarded(d)' = Forwarded(d)
      BY <1>1, ForwardedStays
  <2>2. \A d \in Elements(queue) \cup {c} : msgs'[d] = decode(Wire(d, asked[d]))
      BY <1>2, <1>5, ElementsInSet DEF Inv, Carried, Types
  <2>. QED
      BY <1>1, <1>3, <2>1, <2>2 DEF Inv, Carried
<1>. QED
    BY <1>6, <1>7, <1>8, <1>9, <1>10 DEF Inv

LEMMA SendQueryKeeps ==
    ASSUME Inv, NEW w \in Workers, SendQuery(w)
    PROVE  Inv'
<1>. DEFINE c == Head(queue)
<1>1. /\ req[w] = NoClient /\ queue # <<>> /\ sockets < FdLimit
      /\ req' = [req EXCEPT ![w] = c] /\ queue' = Tail(queue)
      /\ sockets' = sockets + 1 /\ query' = [query EXCEPT ![w] = encode(msgs[c])]
      /\ UNCHANGED <<asked, got, cpc, net, msgs, done, replies, stackHost, sys>>
    BY DEF SendQuery, cliVars
<1>2. /\ c \in Clients /\ queue' \in Seq(Clients)
      /\ Elements(queue) = Elements(queue)' \cup {c}
      /\ NoRepeat(queue)' /\ c \notin Elements(queue)'
    BY <1>1, ElementsOfTail DEF Inv, Types, OnePlace
<1>. HIDE DEF c
<1>3. Waiting' = Waiting \cup {c}
    BY <1>1, <1>2, WaitingAfterTake DEF Inv
<1>4. Answered' = Answered /\ Unanswered' = Unanswered
    BY <1>1 DEF Answered, Unanswered
<1>5. /\ c \notin Waiting \cup done \cup net /\ cpc[c] # "start"
      /\ msgs[c] = decode(Wire(c, asked[c]))
    BY <1>2 DEF Inv, OnePlace, Carried
<1>6. /\ req'[w] = c /\ \A v \in Workers \ {w} : req'[v] = req[v]
      /\ query'[w] = Forwarded(c) /\ \A v \in Workers \ {w} : query'[v] = query[v]
    BY <1>1, <1>5 DEF Inv, Types, Forwarded, Relayed
<1>7. Types'
    BY <1>1, <1>2 DEF Inv, Types
<1>8. OnePlace'
  <2>1. \A v \in Workers : req[v] # c
      BY <1>2, <1>5, RelayerAssumption DEF Waiting
  <2>2. \A u, v \in Workers : req'[u] # NoClient /\ req'[u] = req'[v] => u = v
      BY <1>6, <2>1 DEF Inv, OnePlace
  <2>. QED
      BY <1>1, <1>2, <1>3, <1>4, <1>5, <2>2 DEF Inv, OnePlace
<1>9. SocketCost'
  <2>1. Cardinality(Waiting') = Cardinality(Waiting) + 1
      BY <1>3, <1>5, FiniteParts, FS_AddElement DEF Inv
  <2>2. /\ sockets = Cardinality(Waiting) + Cardinality(Unanswered)
        /\ Cardinality(Waiting) \in Nat /\ Cardinality(Unanswered) \in Nat
      BY FiniteParts DEF Inv, SocketCost
  <2>3. /\ sockets' = Cardinality(Waiting') + Cardinality(Unanswered)
        /\ sockets' <= FdLimit
      BY <1>1, <2>1, <2>2, RelayerAssumption
  <2>. QED
      BY <1>4, <2>3 DEF SocketCost
<1>10. MessageCost'
    BY <1>1, <1>2, <1>3, <1>4 DEF Inv, MessageCost
<1>11. Carried'
  <2>1. \A d : Forwarded(d)' = Forwarded(d)
      BY <1>1, ForwardedStays
  <2>2. \A v \in Workers : req'[v] # NoClient => query'[v] = Forwarded(req'[v])
      BY <1>6 DEF Inv, Carried
  <2>. QED
      BY <1>1, <1>2, <2>1, <2>2 DEF Inv, Carried
<1>. QED
    BY <1>7, <1>8, <1>9, <1>10, <1>11 DEF Inv

(* Both ends of handler: what they have in common. *)
LEMMA ReturnFacts ==
    ASSUME Inv, NEW w \in Workers, Waits(w), Return(w), asked' = asked
    PROVE  /\ Waiting' = Waiting \ {req[w]} /\ done' = done \cup {req[w]}
           /\ req[w] \in Waiting /\ req[w] \in Clients /\ cpc[req[w]] # "start"
           /\ req[w] \notin Elements(queue) \cup done \cup net \cup Answered
           /\ req' \in [Workers -> Clients \cup {NoClient}] /\ DOMAIN query' = Workers
           /\ \A u, v \in Workers : req'[u] # NoClient /\ req'[u] = req'[v] => u = v
           /\ \A v \in Workers : req'[v] # NoClient => query'[v] = Forwarded(req'[v])
           /\ \A d : Forwarded(d)' = Forwarded(d)
           /\ Cardinality(Waiting') = Cardinality(Waiting) - 1
<1>1. /\ req[w] # NoClient /\ done' = done \cup {req[w]}
      /\ req' = [req EXCEPT ![w] = NoClient] /\ query' = [query EXCEPT ![w] = NoMsg]
    BY DEF Waits, Return
<1>2. Waiting' = Waiting \ {req[w]} /\ req[w] \in Waiting /\ req[w] \in Clients
    BY <1>1, WaitingAfterReturn DEF Inv
<1>3. /\ cpc[req[w]] # "start"
      /\ req[w] \notin Elements(queue) \cup done \cup net \cup Answered
    BY <1>2 DEF Inv, OnePlace
<1>4. /\ req'[w] = NoClient /\ \A v \in Workers \ {w} : req'[v] = req[v]
      /\ \A v \in Workers \ {w} : query'[v] = query[v]
    BY <1>1 DEF Inv, Types
<1>5. req' \in [Workers -> Clients \cup {NoClient}] /\ DOMAIN query' = Workers
    BY <1>1 DEF Inv, Types
<1>6. \A u, v \in Workers : req'[u] # NoClient /\ req'[u] = req'[v] => u = v
    BY <1>4 DEF Inv, OnePlace
<1>7. \A v \in Workers : req'[v] # NoClient => query'[v] = Forwarded(req'[v])
    BY <1>4 DEF Inv, Carried
<1>8. \A d : Forwarded(d)' = Forwarded(d)
    BY ForwardedStays
<1>9. Cardinality(Waiting') = Cardinality(Waiting) - 1
    BY <1>2, FiniteParts, FS_RemoveElement DEF Inv
<1>. QED
    BY <1>1, <1>2, <1>3, <1>5, <1>6, <1>7, <1>8, <1>9

LEMMA RecvTimeoutKeeps ==
    ASSUME Inv, NEW w \in Workers, RecvTimeout(w)
    PROVE  Inv'
<1>. DEFINE c == req[w]
<1>1. /\ Waits(w) /\ Return(w)
      /\ UNCHANGED <<asked, got, cpc, net, msgs, queue, replies, sockets, stackHost, sys>>
    BY DEF RecvTimeout, cliVars
<1>2. /\ Waiting' = Waiting \ {c} /\ done' = done \cup {c}
      /\ c \in Waiting /\ c \in Clients /\ cpc[c] # "start"
      /\ c \notin Elements(queue) \cup done \cup net \cup Answered
      /\ req' \in [Workers -> Clients \cup {NoClient}] /\ DOMAIN query' = Workers
      /\ \A u, v \in Workers : req'[u] # NoClient /\ req'[u] = req'[v] => u = v
      /\ \A v \in Workers : req'[v] # NoClient => query'[v] = Forwarded(req'[v])
      /\ \A d : Forwarded(d)' = Forwarded(d)
      /\ Cardinality(Waiting') = Cardinality(Waiting) - 1
    BY <1>1, ReturnFacts
<1>. HIDE DEF c
<1>3. /\ Answered' = Answered /\ Elements(queue)' = Elements(queue)
      /\ NoRepeat(queue)' = NoRepeat(queue)
    BY <1>1 DEF Answered, Elements, NoRepeat
<1>4. Unanswered' = Unanswered \cup {c} /\ c \notin Unanswered
    BY <1>2, <1>3 DEF Unanswered
<1>5. Types'
    BY <1>1, <1>2 DEF Inv, Types
<1>6. OnePlace'
    BY <1>1, <1>2, <1>3 DEF Inv, OnePlace
<1>7. SocketCost'
  <2>1. Cardinality(Unanswered') = Cardinality(Unanswered) + 1
      BY <1>4, FiniteParts, FS_AddElement DEF Inv
  <2>2. /\ sockets = Cardinality(Waiting) + Cardinality(Unanswered) /\ sockets <= FdLimit
        /\ Cardinality(Waiting) \in Nat /\ Cardinality(Unanswered) \in Nat
      BY FiniteParts DEF Inv, SocketCost
  <2>3. sockets = Cardinality(Waiting') + Cardinality(Unanswered')
      BY <1>2, <2>1, <2>2
  <2>. QED
      BY <1>1, <2>2, <2>3 DEF SocketCost
<1>8. MessageCost'
    BY <1>1, <1>2, <1>3, <1>4 DEF Inv, MessageCost
<1>9. Carried'
    BY <1>1, <1>2, <1>3 DEF Inv, Carried
<1>. QED
    BY <1>5, <1>6, <1>7, <1>8, <1>9 DEF Inv

LEMMA RecvAnswerKeeps ==
    ASSUME Inv, NEW w \in Workers, RecvAnswer(w)
    PROVE  Inv'
<1>. DEFINE c == req[w]
<1>1. /\ Waits(w) /\ Return(w) /\ Reply(w)
      /\ msgs' = [msgs EXCEPT ![c] = NoMsg] /\ sockets' = sockets - 1
      /\ UNCHANGED <<asked, got, cpc, net, queue, stackHost, sys>>
    BY DEF RecvAnswer, cliVars, destroyMsg, Close
<1>2. PICK said \in Said(query[w]) :
        replies' = replies \cup {[of |-> c, to |-> cliAddr(c), said |-> said]}
    BY <1>1 DEF Reply
<1>3. /\ Waiting' = Waiting \ {c} /\ done' = done \cup {c}
      /\ c \in Waiting /\ c \in Clients /\ cpc[c] # "start"
      /\ c \notin Elements(queue) \cup done \cup net \cup Answered
      /\ req' \in [Workers -> Clients \cup {NoClient}] /\ DOMAIN query' = Workers
      /\ \A u, v \in Workers : req'[u] # NoClient /\ req'[u] = req'[v] => u = v
      /\ \A v \in Workers : req'[v] # NoClient => query'[v] = Forwarded(req'[v])
      /\ \A d : Forwarded(d)' = Forwarded(d)
      /\ Cardinality(Waiting') = Cardinality(Waiting) - 1
    BY <1>1, ReturnFacts
<1>4. query[w] = Forwarded(c)
    BY <1>1 DEF Waits, Inv, Carried
<1>. HIDE DEF c
<1>5. /\ Elements(queue)' = Elements(queue) /\ NoRepeat(queue)' = NoRepeat(queue)
    BY <1>1 DEF Elements, NoRepeat
<1>6. Answered' = Answered \cup {c}
    BY <1>2, AnsweredAfterReply
<1>7. Unanswered' = Unanswered
    BY <1>3, <1>6 DEF Unanswered
<1>8. msgs'[c] = NoMsg /\ \A d \in Clients \ {c} : msgs'[d] = msgs[d]
    BY <1>1, <1>3 DEF Inv, Types
<1>. DEFINE new == [of |-> c, to |-> cliAddr(c), said |-> said]
<1>9. /\ replies' = replies \cup {new} /\ new.of = c /\ new.said = said
      /\ new.to \in [host : Hosts, port : Nat] /\ new.to.port = Addr[c].port
    BY <1>2, <1>3, RelayerAssumption DEF cliAddr, Inv, Types
<1>. HIDE DEF new
<1>10. Types'
    BY <1>1, <1>3, <1>9 DEF Inv, Types
<1>11. OnePlace'
    BY <1>1, <1>3, <1>5, <1>6 DEF Inv, OnePlace
<1>12. SocketCost'
  <2>1. /\ sockets = Cardinality(Waiting) + Cardinality(Unanswered) /\ sockets <= FdLimit
        /\ Cardinality(Waiting) \in Nat /\ Cardinality(Unanswered) \in Nat
      BY FiniteParts DEF Inv, SocketCost
  <2>2. sockets' = Cardinality(Waiting') + Cardinality(Unanswered) /\ sockets' <= FdLimit
      BY <1>1, <1>3, <2>1, RelayerAssumption
  <2>. QED
      BY <1>7, <2>2 DEF SocketCost
<1>13. MessageCost'
    BY <1>3, <1>5, <1>7, <1>8 DEF Inv, MessageCost, Unanswered
<1>14. Carried'
  <2>1. \A r \in replies' : r.said \in Said(Forwarded(r.of)) /\ r.to.port = Addr[r.of].port
      BY <1>2, <1>4, <1>9 DEF Inv, Carried
  <2>2. \A d \in Elements(queue) : msgs'[d] = decode(Wire(d, asked[d]))
      BY <1>3, <1>8, ElementsInSet DEF Inv, Carried, Types
  <2>3. \A d \in Clients : got[d] # NoMsg =>
          \E r \in replies' : r.to = Addr[d] /\ r.said = got[d].said
      BY <1>9 DEF Inv, Carried
  <2>. QED
      BY <1>1, <1>3, <1>5, <2>1, <2>2, <2>3 DEF Inv, Carried
<1>. QED
    BY <1>10, <1>11, <1>12, <1>13, <1>14 DEF Inv

LEMMA NextInv == Inv /\ [Next]_vars => Inv'
<1>. SUFFICES ASSUME Inv, [Next]_vars
              PROVE  Inv'
    OBVIOUS
<1>1. ASSUME NEW c \in Clients, Ask(c)
      PROVE  Inv'
    BY <1>1, AskKeeps
<1>2. ASSUME NEW c \in Clients, Show(c)
      PROVE  Inv'
    BY <1>2, ShowKeeps
<1>3. ASSUME NEW c \in Clients, GiveUp(c)
      PROVE  Inv'
  <2>1. /\ cpc[c] = "wait" /\ cpc' = [cpc EXCEPT ![c] = "failed"]
        /\ UNCHANGED relayVars /\ UNCHANGED <<asked, got, stackHost>>
        /\ net' = net /\ sys' = sys
      BY <1>3 DEF GiveUp
  <2>2. /\ cpc' \in [Clients -> {"start", "wait", "shown", "crashed", "failed"}]
        /\ \A d \in Clients : cpc'[d] = "start" <=> cpc[d] = "start"
        /\ net' \subseteq net /\ sys' \in {"up", "exited"}
      BY <2>1 DEF Inv, Types
  <2>. QED
      BY <2>1, <2>2, NothingNewKeeps
<1>4. ASSUME NEW c \in Clients, LoseRequest(c)
      PROVE  Inv'
  <2>1. /\ UNCHANGED relayVars /\ UNCHANGED <<asked, got, stackHost>>
        /\ cpc' = cpc /\ net' \subseteq net /\ sys' = sys
      BY <1>4 DEF LoseRequest, cliVars
  <2>2. /\ cpc' \in [Clients -> {"start", "wait", "shown", "crashed", "failed"}]
        /\ \A d \in Clients : cpc'[d] = "start" <=> cpc[d] = "start"
        /\ sys' \in {"up", "exited"}
      BY <2>1 DEF Inv, Types
  <2>. QED
      BY <2>1, <2>2, NothingNewKeeps
<1>5. ASSUME NEW c \in Clients, Receive(c)
      PROVE  Inv'
    BY <1>5, ReceiveKeeps
<1>6. ASSUME ReceiveFails \/ \E w \in Workers : SendFails(w)
      PROVE  Inv'
  <2>1. /\ UNCHANGED relayVars /\ UNCHANGED <<asked, got, stackHost>>
        /\ cpc' = cpc /\ net' \subseteq net /\ sys' \in {"up", "exited"}
      BY <1>6 DEF ReceiveFails, SendFails, cliVars
  <2>2. /\ cpc' \in [Clients -> {"start", "wait", "shown", "crashed", "failed"}]
        /\ \A d \in Clients : cpc'[d] = "start" <=> cpc[d] = "start"
      BY <2>1 DEF Inv, Types
  <2>. QED
      BY <2>1, <2>2, NothingNewKeeps
<1>7. ASSUME NEW w \in Workers, SendQuery(w)
      PROVE  Inv'
    BY <1>7, SendQueryKeeps
<1>8. ASSUME NEW w \in Workers, RecvTimeout(w)
      PROVE  Inv'
    BY <1>8, RecvTimeoutKeeps
<1>9. ASSUME NEW w \in Workers, RecvAnswer(w)
      PROVE  Inv'
    BY <1>9, RecvAnswerKeeps
<1>10. ASSUME UNCHANGED vars
       PROVE  Inv'
  <2>1. /\ UNCHANGED relayVars /\ UNCHANGED <<asked, got, stackHost>>
        /\ cpc' = cpc /\ net' \subseteq net /\ sys' = sys
      BY <1>10 DEF vars, cliVars
  <2>2. /\ cpc' \in [Clients -> {"start", "wait", "shown", "crashed", "failed"}]
        /\ \A d \in Clients : cpc'[d] = "start" <=> cpc[d] = "start"
        /\ sys' \in {"up", "exited"}
      BY <2>1 DEF Inv, Types
  <2>. QED
      BY <2>1, <2>2, NothingNewKeeps
<1>. QED
    BY <1>1, <1>2, <1>3, <1>4, <1>5, <1>6, <1>7, <1>8, <1>9, <1>10 DEF Next, Client, Work

-----------------------------------------------------------------------------
(* The invariant holds in every behaviour. *)
THEOREM Invariance == Spec => []Inv
<1>1. Init => Inv
    BY InitInv
<1>2. Inv /\ [Next]_vars => Inv'
    BY NextInv
<1>. QED
    BY <1>1, <1>2, PTL DEF Spec

(* The variables keep their types; handler never closes more sockets than  *)
(* it has opened, nor opens more than the process may have.                *)
THEOREM TypeCorrect == Spec => []TypeOK
<1>1. Inv => TypeOK
  <2>. SUFFICES ASSUME Inv
                PROVE  TypeOK
      OBVIOUS
  <2>1. sockets \in 0..FdLimit
    <3>1. /\ sockets = Cardinality(Waiting) + Cardinality(Unanswered) /\ sockets <= FdLimit
          /\ Cardinality(Waiting) \in Nat /\ Cardinality(Unanswered) \in Nat
        BY FiniteParts DEF Inv, SocketCost
    <3>. QED
        BY <3>1, RelayerAssumption
  <2>. QED
      BY <2>1 DEF Inv, Types, TypeOK
<1>. QED
    BY <1>1, Invariance, PTL

(* A socket and a message stay behind for every request whose answer did   *)
(* not come within the second (relayer.c:70), and for no other.            *)
THEOREM LeakCount == Spec => []LeaksAccounted
<1>1. Inv => LeaksAccounted
  <2>. SUFFICES ASSUME Inv
                PROVE  LeaksAccounted
      OBVIOUS
  <2>1. ToSet(queue) = Elements(queue) /\ Elements(queue) \subseteq Clients
      BY ToSetIsElements, ElementsInSet DEF Inv, Types
  <2>2. Waiting \subseteq Clients /\ Unanswered \subseteq Clients
      BY FiniteParts DEF Inv
  <2>3. {c \in Clients : msgs[c] # NoMsg} = ToSet(queue) \cup Waiting \cup Unanswered
      BY <2>1, <2>2 DEF Inv, MessageCost
  <2>. QED
      BY <2>3 DEF Inv, SocketCost, LeaksAccounted, Unanswered
<1>. QED
    BY <1>1, Invariance, PTL

(* If decode and encode do to single questions what QueryRead says, then   *)
(* handlers that run side by side and end in any order (relayer.c) do      *)
(* nothing else to them: each asks the upstream server what its own client *)
(* asked, up to the empty labels that QueryRead names.                     *)
THEOREM QuestionsKept ==
    ASSUME QueryRead
    PROVE  Spec => []QueryIntact
<1>1. Inv => QueryIntact
  <2>. SUFFICES ASSUME Inv, NEW w \in Workers, req[w] # NoClient
                PROVE  decode(query[w]) = asked[req[w]] <=> ~EmptyLabelMisplaced(asked[req[w]])
      BY DEF QueryIntact
  <2>1. /\ req[w] \in Clients /\ cpc[req[w]] # "start"
        /\ query[w] = Relayed(req[w], asked[req[w]])
      BY DEF Inv, Types, OnePlace, Carried, Waiting, Forwarded
  <2>2. asked[req[w]] \in Asks[req[w]]
      BY <2>1 DEF Inv, Carried
  <2>. QED
      BY <2>1, <2>2 DEF QueryRead
<1>. QED
    BY <1>1, Invariance, PTL

(* From end to end, for clients with different ports: if decode reads      *)
(* single answers (AnswerRead), what a client has read is an answer to its *)
(* own message as the relayer sent it on, whichever handlers, timeouts and *)
(* losses came in between.                                                 *)
THEOREM AnswersKept ==
    ASSUME AnswerRead, PortsDiffer
    PROVE  Spec => []ReadAsSaid
<1>1. Inv => ReadAsSaid
  <2>. SUFFICES ASSUME Inv, NEW c \in Clients, got[c] # NoMsg
                PROVE  got[c].read \in Said(Relayed(c, asked[c]))
      BY DEF ReadAsSaid
  <2>1. PICK r \in replies : r.to = Addr[c] /\ r.said = got[c].said
      BY DEF Inv, Carried
  <2>2. r.of \in Clients /\ r.to.port = Addr[r.of].port
      BY DEF Inv, Types, Carried
  <2>3. r.of = c
      BY <2>1, <2>2 DEF PortsDiffer
  <2>4. asked[c] \in Asks[c] /\ r.said \in Said(Relayed(c, asked[c]))
      BY <2>3 DEF Inv, Carried, Forwarded
  <2>5. decode(foreignEncode(r.said)) = r.said
      BY <2>4 DEF AnswerRead
  <2>6. got[c].read = decode(foreignEncode(got[c].said))
      BY DEF Inv, Carried
  <2>. QED
      BY <2>1, <2>4, <2>5, <2>6
<1>. QED
    BY <1>1, Invariance, PTL

(* Clients with different ports get the answers to their own questions,    *)
(* though all queries carry the ID of their client unchanged and main      *)
(* never learns a host.                                                    *)
THEOREM AnswersOwned ==
    ASSUME QuestionEchoed, PortsDiffer
    PROVE  Spec => []OwnAnswer
<1>1. Inv => OwnAnswer
  <2>. SUFFICES ASSUME Inv, NEW c \in Clients, got[c] # NoMsg
                PROVE  got[c].said.ques \in {asked[c].ques, <<>>}
      BY DEF OwnAnswer
  <2>1. PICK r \in replies : r.to = Addr[c] /\ r.said = got[c].said
      BY DEF Inv, Carried
  <2>2. r.of \in Clients /\ r.to.port = Addr[r.of].port
      BY DEF Inv, Types, Carried
  <2>3. r.of = c
      BY <2>1, <2>2 DEF PortsDiffer
  <2>4. asked[c] \in Asks[c] /\ r.said \in Said(Relayed(c, asked[c]))
      BY <2>3 DEF Inv, Carried, Forwarded
  <2>5. r.said.ques \in {asked[c].ques, <<>>}
      BY <2>4 DEF QuestionEchoed
  <2>. QED
      BY <2>1, <2>5
<1>. QED
    BY <1>1, Invariance, PTL
=============================================================================
