------------------------------ MODULE MCRelayer ------------------------------
(* Instances of Relayer for TLC. *)
EXTENDS Relayer

CONSTANTS c1, c2, c3,  \* clients
          h1, h2,      \* hosts
          ip1, ip2     \* addresses

MCLabelLen  == ("w" :> 1) @@ ("c" :> 1) @@ ("x" :> 2) @@ ("long" :> 5) @@ ("tail" :> 5) @@ (Root :> 0)
MCBinaryLen == ("A" :> 4) @@ ("OPT" :> 12) @@ ("SOA" :> 20)

www  == <<"w", "x">>
cdn  == <<"c", "x">>
x    == <<"x">>
long == <<"long", "x">>        \* as long as the table keeps; and longer
tail == <<"tail", "x">>
deep == <<"w", "long", "x">>
root == <<Root>>

MCZeroAfter == {long}   \* and not tail

Rec(name, type, val) == [name |-> name, type |-> type, ttl |-> 1, val |-> val]
Edns == Rec(root, "OPT", ip1)

(* Other programs: one asks for an A record, with EDNS and AD, or for the  *)
(* servers of the root, another for those of x.                            *)
Dig(name, type, flag) ==
    addQuestion([newMsg EXCEPT !.ID = 7, !.flag = flag], [name |-> name, type |-> type])

MCAsks ==
    (c1 :> {cliMsg(www), cliMsg(deep), cliMsg(<<"x", Root>>)})
 @@ (c2 :> {addRR(Dig(www, "A", {RD, AD}), Edns, ADDITIONAL), Dig(root, "NS", {})})
 @@ (c3 :> {Dig(x, "NS", {RD, CD})})

(* A chain with glue, no such record, names too long for the table, two    *)
(* servers of which one is the root, the root as name and as data.         *)
MCAnswers ==
    ([name |-> www, type |-> "A"] :>
        {<<(<<Rec(www, "CNAME", cdn), Rec(cdn, "CNAME", x), Rec(x, "A", ip1)>>),
           (<<Rec(x, "NS", www)>>), (<<Rec(www, "A", ip2)>>)>>,
         <<(<<>>), (<<Rec(x, "SOA", ip1)>>), (<<>>)>>})
 @@ ([name |-> deep, type |-> "A"] :>
        {<<(<<Rec(deep, "CNAME", tail), Rec(tail, "CNAME", long), Rec(long, "A", ip1)>>),
           (<<Rec(tail, "NS", deep)>>), (<<>>)>>})
 @@ ([name |-> x, type |-> "NS"] :>
        {<<(<<Rec(x, "NS", cdn), Rec(x, "NS", root)>>), (<<Rec(root, "NS", x)>>), (<<>>)>>})
 @@ ([name |-> root, type |-> "NS"] :> {<<(<<Rec(root, "NS", cdn)>>), (<<>>), (<<>>)>>})

(* All clients on one host; two on their own, with the same port. *)
OneHost  == (c1 :> [host |-> h1, port |-> 1]) @@ (c2 :> [host |-> h1, port |-> 2])
         @@ (c3 :> [host |-> h1, port |-> 3])
TwoHosts == (c1 :> [host |-> h1, port |-> 1]) @@ (c2 :> [host |-> h2, port |-> 1])
=============================================================================
