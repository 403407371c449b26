-------------------------------- MODULE Codec --------------------------------
(***************************************************************************)
(* The message structure of message/message.c, encode and decode.          *)
(*                                                                         *)
(* A name is the sequence of the labels between the dots of the C string,  *)
(* of which there is at least one: the name of the root, "", is <<Root>>,  *)
(* and Root is the label without characters.  An encoded message has its   *)
(* header and a body, which maps the offset of each item to the item: a    *)
(* label with its count, a pointer, a zero byte, the fields of a record.   *)
(* What is read where no such item begins is not what was written.  Bytes  *)
(* of a label, the class of a record and its binary data stay abstract.    *)
(***************************************************************************)
EXTENDS Flags, SequencesExt

CONSTANTS LabelLen,       \* the number of characters of each label
          Root,           \* the empty label
          BinaryLen,      \* data_length of each type with binary data
          HashKeyMaxLen,  \* HASH_KEY_MAX_LEN
          ZeroAfter,      \* the names of that length after which malloc left a 0
          MaxSize,        \* MAX_SIZE
          Unreadable      \* what decode makes of bytes it misreads

ASSUME CodecAssumption ==
    /\ LabelLen[Root] = 0
    /\ \A l \in DOMAIN LabelLen \ {Root} : LabelLen[l] \in 1..63
    /\ \A t \in DOMAIN BinaryLen : BinaryLen[t] \in Nat \ {0}
    /\ HashKeyMaxLen \in Nat /\ MaxSize \in Nat

HeaderLen == 12

StringTypes == {"NS", "CNAME"}    \* the types whose data decode reads as a name

(* newMsg, addQuestion, addRR (sections are 1, 2, 3) and releaseAdditionalRR. *)
newMsg == [ID |-> 0, flag |-> {}, ques |-> <<>>, rr |-> <<(<<>>), (<<>>), (<<>>)>>]

ANSWER     == 1
AUTHORITY  == 2
ADDITIONAL == 3

addQuestion(msg, q) ==
    IF Len(msg.ques) >= MaxSize THEN msg ELSE [msg EXCEPT !.ques = Append(@, q)]

addRR(msg, rr, section) ==
    IF Len(msg.rr[section]) >= MaxSize THEN msg
    ELSE [msg EXCEPT !.rr[section] = Append(@, rr)]

releaseAdditionalRR(msg) == [msg EXCEPT !.rr[ADDITIONAL] = <<>>]

-----------------------------------------------------------------------------
(* F(v), and F over a sequence from left to right; TLC computes v once. *)
Apply(F(_), v) == CHOOSE y \in {F(x) : x \in {v}} : TRUE

Steps(F(_, _), base, seq) ==
    FoldLeft(LAMBDA acc, e : Apply(LAMBDA v : F(v, e), acc), base, seq)

-----------------------------------------------------------------------------
(* Writing.  A writer is the offset of the next byte, the items written so *)
(* far and the hash table ht of the names written, with their offsets.     *)

Item(kind, val) == [kind |-> kind, val |-> val]

Put(wr, item, size) ==
    Apply(LAMBDA v : [v EXCEPT !.at = @ + size, !.body = (v.at :> item) @@ @], wr)

Suffix(name, i) == SubSeq(name, i, Len(name))

(* The bytes of the first n labels with their counts. *)
LabelsLen(name, n) == FoldLeft(LAMBDA sum, l : sum + 1 + LabelLen[l], 0, SubSeq(name, 1, n))

(* A longer name than HashKeyMaxLen is cut in the table and not found      *)
(* again (no name of a message is the beginning of another).  One of just  *)
(* that length is copied without its terminator, and found if the byte     *)
(* behind it, which nobody writes, is 0 (hash.c:38).                       *)
InTable(name) ==
    LET len == LabelsLen(name, Len(name)) - 1
    IN  len < HashKeyMaxLen \/ (len = HashKeyMaxLen /\ name \in ZeroAfter)

(* The zero byte is the count of the empty label as well as the end. *)
Zero8    == Item("zero", 0)
Label(l) == IF LabelLen[l] = 0 THEN Zero8 ELSE Item("label", l)

(* Where label i of a name goes, and the suffixes that begin with one of   *)
(* the first n labels, as they are put into the table.                     *)
LabelAt(wr, name, i) == wr.at + LabelsLen(name, i - 1)

NewEntries(wr, name, n) ==
    [s \in {Suffix(name, i) : i \in {j \in 1..n : InTable(Suffix(name, j))}} |->
        LabelAt(wr, name, Len(name) - Len(s) + 1)]

(* encodeName: labels up to the first suffix the table knows, which a      *)
(* pointer stands for; without one, all labels and a zero byte.            *)
encodeName(wr, name) ==
    LET known  == {i \in DOMAIN name : Suffix(name, i) \in DOMAIN wr.ht}
        n      == IF known = {} THEN Len(name) ELSE Min(known) - 1
        labels == [o \in {LabelAt(wr, name, i) : i \in 1..n} |->
                      Label(name[CHOOSE i \in 1..n : LabelAt(wr, name, i) = o])]
        body   == [at |-> LabelAt(wr, name, n + 1), body |-> labels @@ wr.body,
                   ht |-> NewEntries(wr, name, n) @@ wr.ht]
    IN  IF known = {} THEN Put(body, Zero8, 1)
        ELSE Put(body, Item("ptr", wr.ht[Suffix(name, n + 1)]), 2)

(* Another program encodes a name: RFC 1035 has one byte for the root. *)
foreignName(wr, name) ==
    IF name = <<Root>> THEN Put(wr, Zero8, 1) ELSE encodeName(wr, name)

(* From here on who says which program encodes, "own" or "foreign". *)
NameBy(who, wr, name) == IF who = "own" THEN encodeName(wr, name) ELSE foreignName(wr, name)

(* encodeQues and encodeRR; type and class are one item.  data_length of a *)
(* name is what encodeName returns.                                        *)
encodeQues(who, wr, q) == Put(NameBy(who, wr, q.name), Item("type", q.type), 4)

encodeRR(who, wr, rr) ==
    LET Binary(v) == Put(Put(v, Item("len", BinaryLen[rr.type]), 2),
                         Item("data", rr.val), BinaryLen[rr.type])
        String(v) == Apply(LAMBDA d : [d EXCEPT !.body =
                                          (v.at :> Item("len", d.at - v.at - 2)) @@ @],
                           NameBy(who, [v EXCEPT !.at = @ + 2], rr.val))
        head      == Put(encodeQues(who, wr, rr), Item("ttl", rr.ttl), 4)
    IN  IF rr.type \in StringTypes THEN Apply(String, head) ELSE Binary(head)

Records(msg) == msg.rr[ANSWER] \o msg.rr[AUTHORITY] \o msg.rr[ADDITIONAL]

EncodeBy(who, msg) ==
    LET ques == Steps(LAMBDA wr, q : encodeQues(who, wr, q),
                      [at |-> HeaderLen, body |-> <<>>, ht |-> <<>>], msg.ques)
        end  == Steps(LAMBDA wr, rr : encodeRR(who, wr, rr), ques, Records(msg))
    IN  Apply(LAMBDA e : [ID |-> msg.ID, flag |-> encodeFlag(msg.flag),
                          q_count |-> Len(msg.ques),
                          RR_count |-> [s \in 1..3 |-> Len(msg.rr[s])], body |-> e.body], end)

encode(msg) == Apply(LAMBDA m : EncodeBy("own", m), msg)

foreignEncode(msg) == Apply(LAMBDA m : EncodeBy("foreign", m), msg)

-----------------------------------------------------------------------------
(* Reading. *)

(* decodeName: the name that begins at an offset, and where to go on.  The *)
(* zero byte after a label ends the name, anywhere else it is the root's.  *)
decodeName(body, at) ==
    LET read[o \in Nat] ==
            IF o \notin DOMAIN body THEN [name |-> <<Unreadable>>, next |-> o]
            ELSE CASE body[o].kind = "zero"  -> [name |-> <<Root>>, next |-> o + 1]
                   [] body[o].kind = "ptr"   -> [name |-> read[body[o].val].name,
                                                 next |-> o + 2]
                   [] body[o].kind = "label" ->
                        LET next == o + 1 + LabelLen[body[o].val]
                            rest == read[next]
                        IN  [name |-> <<body[o].val>> \o
                                      IF next \in DOMAIN body /\ body[next].kind = "zero"
                                      THEN <<>> ELSE rest.name,
                             next |-> rest.next]
                   [] OTHER -> [name |-> <<Unreadable>>, next |-> o]
    IN  read[at]

(* The item of a kind at an offset. *)
Get(body, at, kind) ==
    IF at \in DOMAIN body /\ body[at].kind = kind THEN body[at].val ELSE Unreadable

(* A reader is the offset of the next byte and what has been read. *)
GetQues(body, rd) ==
    LET n == decodeName(body, rd.at)
    IN  [at |-> n.next + 4,
         seen |-> Append(rd.seen, [name |-> n.name, type |-> Get(body, n.next, "type")])]

(* Slip: the length the name would have without pointers. *)
DataLenRewritten(body, at, type) ==
    LET val == decodeName(body, at + 2).name
    IN  IF type \in StringTypes /\ Unreadable \notin ToSet(val)
        THEN LabelsLen(val, Len(val)) + 1
        ELSE IF Get(body, at, "len") = Unreadable THEN 0 ELSE Get(body, at, "len")

(* offset in decode: data_length says where the next record begins. *)
DataLen(body, at, type) ==
    IF Get(body, at, "len") = Unreadable THEN 0 ELSE Get(body, at, "len")

(* A resource record. *)
GetRR(body, rd) ==
    LET n    == decodeName(body, rd.at)
        type == Get(body, n.next, "type")
        at   == n.next + 10
    IN  [at |-> at + DataLen(body, n.next + 8, type),
         seen |-> Append(rd.seen,
            [name |-> n.name, type |-> type, ttl |-> Get(body, n.next + 4, "ttl"),
             val |-> IF type \in StringTypes THEN decodeName(body, at).name
                     ELSE Get(body, at, "data")])]

Times(n) == [i \in 1..n |-> i]

DecodeWire(wire) ==
    LET count   == wire.RR_count
        ques    == Steps(LAMBDA rd, i : GetQues(wire.body, rd),
                         [at |-> HeaderLen, seen |-> <<>>], Times(wire.q_count))
        RRs(qs) == Steps(LAMBDA rd, i : GetRR(wire.body, rd), [at |-> qs.at, seen |-> <<>>],
                         Times(count[ANSWER] + count[AUTHORITY] + count[ADDITIONAL])).seen
        Sections(rrs) ==
            <<SubSeq(rrs, 1, count[ANSWER]),
              SubSeq(rrs, count[ANSWER] + 1, count[ANSWER] + count[AUTHORITY]),
              SubSeq(rrs, count[ANSWER] + count[AUTHORITY] + 1, Len(rrs))>>
    IN  Apply(LAMBDA qs : [ID |-> wire.ID, flag |-> decodeFlag(wire.flag), ques |-> qs.seen,
                           rr |-> Apply(Sections, RRs(qs))], ques)

(* decode of a message whose counts fit MaxSize. *)
decode(wire) == Apply(DecodeWire, wire)

-----------------------------------------------------------------------------
(* The names of a message in the order of encode, and whether they are data. *)
NamesIn(msg) ==
    [i \in DOMAIN msg.ques |-> [name |-> msg.ques[i].name, data |-> FALSE]]
    \o FlattenSeq([i \in DOMAIN Records(msg) |->
         LET rr == Records(msg)[i]
         IN  <<[name |-> rr.name, data |-> FALSE]>>
             \o IF rr.type \in StringTypes THEN <<[name |-> rr.val, data |-> TRUE]>> ELSE <<>>])

(* encodeName gives the empty label at the end of a name (the root, or a   *)
(* name that ends in a dot) a count and an end; decodeName takes one byte. *)
(* In the data of a record data_length makes up for the root (though not   *)
(* for a name that loses its dot), and a second such name is a pointer.    *)
EmptyLabelMisplaced(msg) ==
    \E i \in DOMAIN NamesIn(msg) :
        /\ Last(NamesIn(msg)[i].name) = Root
        /\ ~(NamesIn(msg)[i].data /\ NamesIn(msg)[i].name = <<Root>>)
        /\ \A j \in 1..(i - 1) : Last(NamesIn(msg)[j].name) # Root
=============================================================================
