------------------------------- MODULE MCServer -------------------------------
(* Instances of Server for TLC. *)
EXTENDS Server

CONSTANTS ip1, ip2   \* addresses

MCLabelLen  == ("w" :> 1) @@ ("c" :> 1) @@ ("ad" :> 2) @@ ("x" :> 1) @@ (Root :> 0)
MCBinaryLen == ("A" :> 4) @@ ("other" :> 16) @@ ("high" :> 16) @@ ("OPT" :> 12)

www == <<"w", "x">>
cdn == <<"c", "x">>
ad  == <<"ad", "x">>

AllNames     == {www, cdn, ad}
AllAddresses == {ip1, ip2, Zero, Garbage}

Q(name, type)              == [name |-> name, type |-> type]
Rec(name, type, val, ttl_) == [name |-> name, type |-> type, ttl |-> ttl_, val |-> val]

(* A message with one question; with the record dig adds. *)
Ask(id, flag, name, type) ==
    addQuestion([newMsg EXCEPT !.ID = id, !.flag = flag], Q(name, type))
Edns(msg) == addRR(msg, Rec(<<Root>>, "OPT", ip1, 0), ADDITIONAL)

(* www is an alias of cdn, or has an address of its own. *)
RelayAsks     == {Ask(1, {RD}, www, "A"), Ask(2, {}, cdn, "A"), Ask(3, {RD}, www, "NS"),
                  Ask(4, {RD}, www, "high")}
RelayUpstream ==
    (Q(www, "A") :> {<<Rec(www, "CNAME", cdn, 1), Rec(cdn, "A", ip1, 0)>>,
                     <<Rec(www, "A", ip2, 0)>>})
 @@ (Q(cdn, "A") :> {<<Rec(cdn, "A", ip1, 0), Rec(cdn, "A", ip2, 1)>>})
 @@ (Q(www, "NS") :> {<<Rec(www, "NS", cdn, 1)>>, <<>>})
 @@ (Q(www, "high") :> {<<Rec(www, "high", cdn, 1)>>})

NoFile == <<>>

(* www is in the file twice, ad is blocked, cdn is not in the file. *)
LocalAsks     == {Ask(1, {RD}, www, "A"), Ask(2, {}, ad, "A"),
                  Edns(Ask(3, {RD, AD}, cdn, "A"))}
LocalUpstream ==
    [q \in {Q(www, "A"), Q(ad, "A"), Q(cdn, "A")} |->
        IF q.name = cdn THEN {<<Rec(cdn, "A", ip1, 0)>>} ELSE {}]
LocalFile     == <<[ip |-> ip2, domain |-> www], [ip |-> Zero, domain |-> ad],
                   [ip |-> ip1, domain |-> www]>>

(* One question, whose answer has two aliases in a row. *)
ChainAsks     == {Ask(1, {RD}, www, "A"), Ask(2, {RD}, cdn, "CNAME")}
ChainUpstream ==
    (Q(www, "A") :> {<<Rec(www, "CNAME", cdn, 1), Rec(cdn, "CNAME", ad, 1),
                       Rec(ad, "A", ip1, 1)>>})
 @@ (Q(cdn, "CNAME") :> {<<Rec(cdn, "CNAME", ad, 1)>>})

(* What is needed, with options after it. *)
MCAtoi  == ("-1" :> -1) @@ ("1" :> 1) @@ ("2" :> 2) @@ ("99" :> 99) @@ ("many" :> 0)
With(words) == <<<<"localfile", "hosts">>, <<"dns", "8.8.8.8">>>> \o words

TwoThreads  == {With(<<<<"poolsize", "99">>, <<"cachesize", "2">>>>)}
ThreeCached == {With(<<>>)}
AnyLine     == {With(<<<<"poolsize", "2">>, <<"poolsize", "1">>, <<"cachesize", "-1">>>>),
                With(<<<<"poolsize", "many">>, <<"cachesize", "2">>>>),
                With(<<<<"poolsize", "-1">>>>), With(<<<<"--help">>>>),
                With(<<<<"localfile", "nosuch">>>>), <<<<"localfile", "hosts">>>>}

(* The hypotheses of the theorems about the codec: all requests and        *)
(* answers of the instance, and replies of up to three of its own records  *)
(* or two of any records with the TTL of the file (the codec copies TTLs). *)
ASSUME MessagesAreRead ==
    /\ AsksRead /\ AnswersRead
    /\ RepliesRead(BoundedSeq(KnownRR \cap CachedRR, 3))
    /\ RepliesRead(BoundedSeq({rr \in CachedRR : rr.ttl = LocalTTL}, 2))

(* Those about the set-up; two instances are there to show what becomes of *)
(* the server without one of them.                                         *)
ASSUME SetUp ==
    /\ UpstreamAsked /\ FileApart
    /\ OneNameEach \/ Upstream = ChainUpstream
    /\ OneThread \/ File = NoFile \/ CommandLines = TwoThreads

WorkerSymmetry == Permutations(Workers)
=============================================================================
