------------------------------- MODULE Relayer -------------------------------
(***************************************************************************)
(* The plain relayer (relayer.c) between its clients and an upstream       *)
(* server, all of them exchanging encoded messages (Codec).                *)
(*                                                                         *)
(* A client asks once: it is the lookup tool of the repository (cli.c), or *)
(* another program such as dig, which adds an EDNS record to its question. *)
(* cli.c sends to port 53 and relayer.c binds 8080: something between them *)
(* forwards the one to the other, and changes nothing else.                *)
(* The relayer's main thread decodes a request and gives it to the pool;   *)
(* handler encodes it again for the upstream server, waits a second, and   *)
(* passes the answer on as it came.  A request is named by its client.     *)
(***************************************************************************)
EXTENDS Codec, FiniteSets

CONSTANTS Workers,    \* the threads of the pool
          Clients,    \* the programs that ask
          Addr,       \* the address of each client, [host, port]
          Hosts,      \* hosts, among them those of the clients
          Asks,       \* what each client may ask: messages
          Cli,        \* the clients that are cli.c
          Answers,    \* the three sections of the answers to a question
          FdLimit,    \* how many sockets the process may have for relaying
          Faults,     \* what may fail: "recv", "send", "lost"
          NoClient,   \* what an idle worker handles
          NoMsg       \* no message

(* cli.c up to encode, for a host name typed by the user. *)
cliMsg(hostName) ==
    addQuestion([newMsg EXCEPT
                    !.ID = 4660,
                    !.flag = setFlag(setOpcode(setQuery(@), QUERY), RD)],
                [name |-> hostName, type |-> "A"])

(* The message m of client c on the wire. *)
Wire(c, m) == IF c \in Cli THEN encode(m) ELSE foreignEncode(m)

ASSUME RelayerAssumption ==
    /\ IsFiniteSet(Clients) /\ Cli \subseteq Clients /\ NoClient \notin Clients
    /\ \A c \in Clients : Addr[c] \in [host : Hosts, port : Nat]
    /\ \A c, d \in Clients : Addr[c] = Addr[d] => c = d
    /\ \A c \in Cli : \A m \in Asks[c] : m = cliMsg(m.ques[1].name)
    /\ \A c \in Clients : \A m \in Asks[c] : NoMsg \notin {m, decode(Wire(c, m))}
    /\ FdLimit \in Nat

VARIABLES asked,     \* the message each client has built
          got,       \* what a client was sent and what it made of it
          cpc,       \* "start", "wait", "shown", "crashed" or "failed"
          net,       \* the clients whose request is under way
          msgs,      \* pa->msg of each request, until destroyMsg
          queue,     \* the requests the pool has not started
          req,       \* the request each worker handles
          query,     \* what each worker has sent to the upstream server
          done,      \* the requests whose handler has returned
          replies,   \* what has been sent to clients: [of, to, said]
          sockets,   \* how many sockets opened by handler are open
          stackHost, \* what stands in cliAddr.sin_addr, which main never sets
          sys        \* "up" or "exited"

cliVars   == <<asked, got, cpc>>
relayVars == <<msgs, queue, req, query, done, replies, sockets>>
vars == <<cliVars, net, relayVars, stackHost, sys>>

Init ==
    /\ asked = [c \in Clients |-> NoMsg]
    /\ got = [c \in Clients |-> NoMsg]
    /\ cpc = [c \in Clients |-> "start"]
    /\ net = {}
    /\ msgs = [c \in Clients |-> NoMsg]
    /\ queue = <<>>
    /\ req = [w \in Workers |-> NoClient]
    /\ query = [w \in Workers |-> NoMsg]
    /\ done = {}
    /\ replies = {}
    /\ sockets = 0
    /\ stackHost \in Hosts
    /\ sys = "up"

-----------------------------------------------------------------------------
(* The client. *)

Ask(c) ==
    /\ cpc[c] = "start"
    /\ \E m \in Asks[c] : asked' = [asked EXCEPT ![c] = m]
    /\ cpc' = [cpc EXCEPT ![c] = "wait"]
    /\ net' = net \cup {c}
    /\ UNCHANGED <<got, relayVars, stackHost, sys>>

(* showMsg has the names of these types; what the pointer it prints for    *)
(* another one points to is undefined.                                     *)
ShownTypes == {"A", "NS", "CNAME", "AAAA"}

ShowMsg(msg) ==
    IF \A rr \in ToSet(msg.ques) \cup ToSet(Records(msg)) : rr.type \in ShownTypes
    THEN {"shown"} ELSE {"shown", "crashed"}

(* recvfrom returns the first datagram sent to this address; it is decoded *)
(* and shown.                                                              *)
Show(c) ==
    /\ cpc[c] = "wait"
    /\ \E r \in replies :
          /\ r.to = Addr[c]
          /\ got' = [got EXCEPT ![c] = [said |-> r.said,
                                        read |-> decode(foreignEncode(r.said))]]
    /\ \E end \in IF c \in Cli THEN ShowMsg(got'[c].read) ELSE {"shown"} :
          cpc' = [cpc EXCEPT ![c] = end]
    /\ UNCHANGED <<asked, net, relayVars, stackHost, sys>>

(* Nothing for 5 s: perr_exit. *)
GiveUp(c) ==
    /\ cpc[c] = "wait"
    /\ cpc' = [cpc EXCEPT ![c] = "failed"]
    /\ UNCHANGED <<asked, got, net, relayVars, stackHost, sys>>

LoseRequest(c) ==
    /\ c \in net /\ "lost" \in Faults
    /\ net' = net \ {c}
    /\ UNCHANGED <<cliVars, relayVars, stackHost, sys>>

-----------------------------------------------------------------------------
(* The loop of main: recvfrom, decode and AddTask. *)
Receive(c) ==
    /\ sys = "up" /\ c \in net
    /\ net' = net \ {c}
    /\ msgs' = [msgs EXCEPT ![c] = decode(Wire(c, asked[c]))]
    /\ queue' = Append(queue, c)
    /\ UNCHANGED <<cliVars, req, query, done, replies, sockets, stackHost, sys>>

ReceiveFails ==
    /\ sys = "up" /\ "recv" \in Faults
    /\ sys' = "exited"
    /\ UNCHANGED <<cliVars, net, relayVars, stackHost>>

(* cliLen is the size of itself, 4 bytes: recvfrom stores the family and   *)
(* the port of the client's address and leaves the host as it was.         *)
cliAddr(c) == [host |-> stackHost, port |-> Addr[c].port]

(* A worker takes a request up: encode, Socket, sendto. *)
SendQuery(w) ==
    /\ sys = "up" /\ req[w] = NoClient /\ queue # <<>> /\ sockets < FdLimit
    /\ req' = [req EXCEPT ![w] = Head(queue)]
    /\ queue' = Tail(queue)
    /\ sockets' = sockets + 1
    /\ UNCHANGED <<cliVars, net, msgs, done, replies, stackHost, sys>>
    /\ query' = [query EXCEPT ![w] = encode(msgs[Head(queue)])]

(* Slip: Socket is called until it succeeds. *)
SendFailsRetries(w) ==
    /\ sys = "up" /\ req[w] = NoClient /\ queue # <<>>
    /\ sockets >= FdLimit \/ "send" \in Faults
    /\ UNCHANGED vars

(* Socket or sendto fails: perr_exit. *)
SendFails(w) ==
    /\ sys = "up" /\ req[w] = NoClient /\ queue # <<>>
    /\ sockets >= FdLimit \/ "send" \in Faults
    /\ sys' = "exited"
    /\ UNCHANGED <<cliVars, net, relayVars, stackHost>>

Waits(w) == sys = "up" /\ req[w] # NoClient

Return(w) ==
    /\ done' = done \cup {req[w]}
    /\ req' = [req EXCEPT ![w] = NoClient]
    /\ query' = [query EXCEPT ![w] = NoMsg]

(* Nothing for 1 s: handler returns at once.  The client hears nothing,    *)
(* and the socket, the message and the argument stay.                      *)
RecvTimeout(w) ==
    /\ Waits(w) /\ "lost" \in Faults
    /\ Return(w)
    /\ UNCHANGED <<cliVars, net, msgs, queue, replies, sockets, stackHost, sys>>

(* The upstream server: it answers a question it knows, and complains of a *)
(* message it cannot read.                                                 *)
Said(wire) ==
    LET m    == decode(wire)
        resp == setFlag(setResp(m.flag), RA)
        read == /\ \A i \in DOMAIN m.ques : m.ques[i] \in DOMAIN Answers
                /\ \A rr \in ToSet(Records(m)) : rr.type # Unreadable
    IN  IF ~read
        THEN {[newMsg EXCEPT !.ID = m.ID, !.flag = setRCODE(resp, FMT_ERR)]}
        ELSE {[m EXCEPT !.flag = resp, !.rr = [s EXCEPT ![ADDITIONAL] = @ \o m.rr[ADDITIONAL]]]
                : s \in Answers[m.ques[1]]}

(* Slip: one socket for the queries of all workers. *)
ReplyShared(w) ==
    \E v \in {u \in Workers : req[u] # NoClient} : \E said \in Said(query[v]) :
        replies' = replies \cup {[of |-> req[w], to |-> cliAddr(req[w]), said |-> said]}

(* The answer that has come is sent to the client. *)
Reply(w) ==
    \E said \in Said(query[w]) :
        replies' = replies \cup {[of |-> req[w], to |-> cliAddr(req[w]), said |-> said]}

(* Slip: the socket is closed twice. *)
CloseTwice == sockets' = sockets - 2

Close == sockets' = sockets - 1

(* Slip: the message is not freed. *)
destroyNot(c) == UNCHANGED msgs

destroyMsg(c) == msgs' = [msgs EXCEPT ![c] = NoMsg]

(* The answer is passed on, everything is freed. *)
RecvAnswer(w) ==
    /\ Waits(w) /\ Return(w)
    /\ destroyMsg(req[w])
    /\ Close
    /\ UNCHANGED <<cliVars, net, queue, stackHost, sys>>
    /\ Reply(w)

-----------------------------------------------------------------------------
Client(c) == Ask(c) \/ Show(c) \/ GiveUp(c)
Work(w)   == SendQuery(w) \/ SendFails(w) \/ RecvTimeout(w) \/ RecvAnswer(w)

Next ==
    \/ \E c \in Clients : Client(c) \/ LoseRequest(c) \/ Receive(c)
    \/ ReceiveFails
    \/ \E w \in Workers : Work(w)

(* The scheduler runs every worker, and recvfrom returns within a second. *)
Spec == Init /\ [][Next]_vars /\ \A w \in Workers : WF_vars(Work(w))

-----------------------------------------------------------------------------
Answered == {r.of : r \in replies}
Waiting  == {req[w] : w \in Workers} \ {NoClient}

TypeOK ==
    /\ \A c \in Clients : asked[c] \in Asks[c] \cup {NoMsg}
    /\ cpc \in [Clients -> {"start", "wait", "shown", "crashed", "failed"}]
    /\ net \subseteq Clients
    /\ queue \in Seq(Clients)
    /\ req \in [Workers -> Clients \cup {NoClient}]
    /\ done \subseteq Clients
    /\ \A r \in replies : r.of \in Clients /\ r.to \in [host : Hosts, port : Nat]
    /\ sockets \in 0..FdLimit
    /\ sys \in {"up", "exited"}

(* The message m of client c as handler sends it to the upstream server. *)
Relayed(c, m) == encode(decode(Wire(c, m)))

(* encode after decode: the upstream server is asked what the client       *)
(* asked, flags and EDNS record included, unless a name of a question or   *)
(* record ends with the empty label (message.c:190 and :191 write two      *)
(* bytes for it); then, and only then, it reads something else.            *)
QueryIntact ==
    \A w \in Workers : req[w] # NoClient =>
        (decode(query[w]) = asked[req[w]] <=> ~EmptyLabelMisplaced(asked[req[w]]))

(* From end to end: what a client has read at last, after decode has       *)
(* followed the pointers and stepped over the records, is an answer of the *)
(* upstream server to what the relayer has made of this client's message,  *)
(* not of another one's that was under way with it.                        *)
ReadAsSaid ==
    \A c \in Clients : got[c] # NoMsg => got[c].read \in Said(Relayed(c, asked[c]))

(* Two clients of one host get the answers to their own questions, though  *)
(* clients may use the same ID (cli.c has no other than 0x1234) and none   *)
(* looks at what comes back.                                               *)
OwnAnswer ==
    \A c \in Clients : got[c] # NoMsg => got[c].said.ques \in {asked[c].ques, <<>>}

(* Each request the relayer has given up on (relayer.c:70) costs a socket  *)
(* and a message for good; every other handler cleans up.                  *)
LeaksAccounted ==
    /\ sockets = Cardinality(Waiting) + Cardinality(done \ Answered)
    /\ {c \in Clients : msgs[c] # NoMsg} = ToSet(queue) \cup Waiting \cup (done \ Answered)

(* What the codec has to do for QueryIntact, ReadAsSaid and OwnAnswer, one *)
(* message at a time: the question of a client as the upstream server      *)
(* reads it, the answer as the client reads it, and the question in it.    *)
QueryRead ==
    \A c \in Clients : \A m \in Asks[c] :
        decode(Relayed(c, m)) = m <=> ~EmptyLabelMisplaced(m)
AnswerRead ==
    \A c \in Clients : \A m \in Asks[c] : \A s \in Said(Relayed(c, m)) :
        decode(foreignEncode(s)) = s
QuestionEchoed ==
    \A c \in Clients : \A m \in Asks[c] : \A s \in Said(Relayed(c, m)) :
        s.ques \in {m.ques, <<>>}

(* The replies to two clients go to different addresses, though main does  *)
(* not know their hosts.                                                   *)
PortsDiffer == \A c, d \in Clients : Addr[c].port = Addr[d].port => c = d

(* No request stays in the pool: handler returns, or the process ends. *)
EveryRequestHandled ==
    \A c \in Clients : c \in ToSet(queue) ~> c \in done \/ sys = "exited"

-----------------------------------------------------------------------------
(* A statement of the repository that the code does not keep. *)

(* relayer.c:72: the user is sent the reply. *)
ReplyToAsker == \A r \in replies : r.to = Addr[r.of]
=============================================================================
