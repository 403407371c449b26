----------------------------- MODULE FlagsProofs -----------------------------
(* Theorems about the flag field: what the setters of message/message.c     *)
(* put into it is what a peer reads, in spite of the order of its bits.     *)
EXTENDS Flags, TLAPS

(* Bit i of the reversed byte is bit 7 - i of the byte. *)
LEMMA InReverse ==
    ASSUME NEW b
    PROVE  \A i : i \in reverse8(b) <=> i \in Byte /\ 7 - i \in b
BY DEF reverse8, Byte

(* Bit i of a byte shifted into the upper half is bit i - 8 of the byte. *)
LEMMA InShift ==
    ASSUME NEW b \in SUBSET Byte
    PROVE  \A i : i \in Shl(b, 8) <=> i \in 8..15 /\ i - 8 \in b
<1>1. \A i : i \in Shl(b, 8) <=> i \in 0..15 /\ \E j \in b : i = j + 8
  BY DEF Shl, FlagBits
<1>2. \A j \in b : j \in 0..7
  BY DEF Byte
<1>3. \A i \in Int : \A j \in b : i = j + 8 <=> j = i - 8
  BY <1>2
<1> QED
  BY <1>1, <1>2, <1>3

(* The two bytes of the field: bit i of the field is bit 7 - i of its byte. *)
LEMMA Bytes ==
    ASSUME NEW f \in SUBSET FlagBits
    PROVE  /\ \A i : i \in encodeFlag(f)[1] <=> i \in Byte /\ 7 - i \in f
           /\ \A i : i \in encodeFlag(f)[2] <=> i \in Byte /\ 15 - i \in f
<1>1. encodeFlag(f)[1] = reverse8(f)
  BY DEF encodeFlag
<1>2. encodeFlag(f)[2] = reverse8({i - 8 : i \in f \cap 8..15})
  BY DEF encodeFlag
<1>3. \A k \in Byte : k \in {i - 8 : i \in f \cap 8..15} <=> k + 8 \in f
  BY DEF Byte, FlagBits
<1>4. \A i \in Byte : 7 - i \in Byte /\ (7 - i) + 8 = 15 - i
  BY DEF Byte
<1> QED
  BY <1>1, <1>2, <1>3, <1>4, InReverse

(* decode gives back the flags that encode has written (message.c:128 and  *)
(* :285).                                                                  *)
THEOREM FlagRoundTrip ==
    ASSUME NEW f \in SUBSET FlagBits
    PROVE  decodeFlag(encodeFlag(f)) = f
<1> DEFINE low  == encodeFlag(f)[1]
           high == encodeFlag(f)[2]
<1>1. decodeFlag(encodeFlag(f)) = reverse8(low) \cup Shl(reverse8(high), 8)
  BY DEF decodeFlag
<1>2. \A i : i \in reverse8(low) <=> i \in Byte /\ 7 - i \in low
  BY InReverse
<1>3. \A i : i \in reverse8(high) <=> i \in Byte /\ 7 - i \in high
  BY InReverse
<1>4. \A i : i \in reverse8(low) <=> i \in Byte /\ i \in f
  BY <1>2, Bytes DEF Byte
<1>5. \A i : i \in reverse8(high) <=> i \in Byte /\ i + 8 \in f
  BY <1>3, Bytes DEF Byte
<1>6. \A i : i \in Shl(reverse8(high), 8) <=> i \in 8..15 /\ i \in f
  <2> reverse8(high) \in SUBSET Byte
    BY <1>5
  <2>1. \A i : i \in Shl(reverse8(high), 8) <=> i \in 8..15 /\ i - 8 \in reverse8(high)
    BY InShift
  <2>2. \A i \in 8..15 : i - 8 \in Byte /\ (i - 8) + 8 = i
    BY DEF Byte
  <2> QED
    BY <1>5, <2>1, <2>2
<1>7. \A i \in FlagBits : i \in Byte \/ i \in 8..15
  BY DEF FlagBits, Byte
<1>8. \A i : i \in f <=> i \in reverse8(low) \/ i \in Shl(reverse8(high), 8)
  BY <1>4, <1>6, <1>7
<1> QED
  BY <1>1, <1>8

(* handler prepares its reply with setResp and setFlag(RA): a peer sees a   *)
(* response with RA, and opcode and RD of the request.                     *)
THEOREM ResponseHeader ==
    ASSUME NEW f \in SUBSET FlagBits
    PROVE  LET sent == encodeFlag(setFlag(setResp(f), RA))
               came == encodeFlag(f)
           IN  /\ IsResponse(sent) /\ RecursionAvailable(sent)
               /\ RecursionDesired(sent) <=> RecursionDesired(came)
               /\ OpcodeBits(sent) = OpcodeBits(came)
               /\ RcodeBits(sent) = RcodeBits(came)
<1> DEFINE g    == setFlag(setResp(f), RA)
           sent == encodeFlag(g)
           came == encodeFlag(f)
<1>1. g = f \cup {0, 8}
  BY DEF setFlag, setResp, RA
<1>2. g \in SUBSET FlagBits
  BY <1>1 DEF FlagBits
<1>3. /\ \A i : i \in sent[1] <=> i \in Byte /\ 7 - i \in g
      /\ \A i : i \in sent[2] <=> i \in Byte /\ 15 - i \in g
  BY <1>2, Bytes
<1>4. /\ \A i : i \in came[1] <=> i \in Byte /\ 7 - i \in f
      /\ \A i : i \in came[2] <=> i \in Byte /\ 15 - i \in f
  BY Bytes
<1> HIDE DEF g, sent, came
<1>5. 7 \in sent[1] /\ 7 \in sent[2]
  BY <1>1, <1>3 DEF Byte
<1>6. 0 \in sent[1] <=> 0 \in came[1]
  BY <1>1, <1>3, <1>4 DEF Byte
<1>7. \A i \in 3..6 : i \in sent[1] <=> i \in came[1]
  BY <1>1, <1>3, <1>4 DEF Byte
<1>8. \A i \in 0..3 : i \in sent[2] <=> i \in came[2]
  BY <1>1, <1>3, <1>4 DEF Byte
<1>9. sent[1] \cap 3..6 = came[1] \cap 3..6
  BY <1>7
<1>10. OpcodeBits(sent) = OpcodeBits(came)
  BY <1>9 DEF OpcodeBits
<1>11. RcodeBits(sent) = RcodeBits(came)
  BY <1>8 DEF RcodeBits
<1>12. IsResponse(sent) /\ RecursionAvailable(sent)
  BY <1>5 DEF IsResponse, RecursionAvailable
<1>13. RecursionDesired(sent) <=> RecursionDesired(came)
  BY <1>6 DEF RecursionDesired
<1> QED
  BY <1>10, <1>11, <1>12, <1>13 DEF sent, came, g

(* setRCODE (message.c:51): the code a peer reads is the one given, if     *)
(* none was set before, and nothing else of the header changes; on top of  *)
(* another code the two are ORed.                                          *)
THEOREM RcodeRead ==
    ASSUME NEW f \in SUBSET FlagBits, NEW rcode, Bits(rcode) \subseteq 0..3
    PROVE  LET sent == encodeFlag(setRCODE(f, rcode))
               came == encodeFlag(f)
           IN  /\ RcodeBits(sent) = RcodeBits(came) \cup Bits(rcode)
               /\ sent[1] = came[1]
               /\ sent[2] \ (0..3) = came[2] \ (0..3)
<1> DEFINE g    == setRCODE(f, rcode)
           sent == encodeFlag(g)
           came == encodeFlag(f)
           c    == Bits(rcode)
<1>1. \A i : i \in reverse8(c) <=> i \in Byte /\ 7 - i \in c
  BY InReverse
<1>2. \A i : i \in Shl(reverse8(c), 8) <=> i \in 12..15 /\ 15 - i \in c
  BY <1>1 DEF Shl, Byte, FlagBits
<1>3. \A i : i \in g <=> i \in f \/ (i \in 12..15 /\ 15 - i \in c)
  BY <1>2 DEF setRCODE
<1>4. g \in SUBSET FlagBits
  <2> HIDE DEF g
  <2>1. 12..15 \subseteq FlagBits
    BY DEF FlagBits
  <2> QED
    BY <1>3, <2>1
<1>5. /\ \A i : i \in sent[1] <=> i \in Byte /\ 7 - i \in g
      /\ \A i : i \in sent[2] <=> i \in Byte /\ 15 - i \in g
  BY <1>4, Bytes
<1>6. /\ \A i : i \in came[1] <=> i \in Byte /\ 7 - i \in f
      /\ \A i : i \in came[2] <=> i \in Byte /\ 15 - i \in f
  BY Bytes
<1> HIDE DEF g, sent, came, c
<1>7. sent[1] = came[1]
  <2>1. \A i \in Byte : 7 - i \notin 12..15
    BY DEF Byte
  <2>2. \A i : i \in sent[1] <=> i \in came[1]
    BY <1>3, <1>5, <1>6, <2>1
  <2> QED
    BY <1>5, <1>6, <2>2 DEF sent, came, encodeFlag, reverse8
<1>8. \A i : i \in sent[2] <=> i \in came[2] \/ (i \in 0..3 /\ i \in c)
  BY <1>3, <1>5, <1>6 DEF Byte
<1>9. RcodeBits(sent) = RcodeBits(came) \cup c
  BY <1>8 DEF RcodeBits, c
<1>10. sent[2] \ (0..3) = came[2] \ (0..3)
  BY <1>8
<1> QED
  BY <1>7, <1>9, <1>10 DEF sent, came, g, c

(* The bits of a code that fits two bits. *)
LEMMA TwoBits ==
    ASSUME NEW n \in 0..3
    PROVE  Bits(n) = (IF n \in {1, 3} THEN {0} ELSE {}) \cup (IF n \in {2, 3} THEN {1} ELSE {})
<1> DEFINE weight(i) == 2^i
<1>1. /\ weight(0) = 1 /\ weight(1) = 2 /\ weight(2) = 4 /\ weight(3) = 8
      /\ weight(4) = 16 /\ weight(5) = 32 /\ weight(6) = 64 /\ weight(7) = 128
      /\ weight(8) = 256 /\ weight(9) = 512 /\ weight(10) = 1024 /\ weight(11) = 2048
      /\ weight(12) = 4096 /\ weight(13) = 8192 /\ weight(14) = 16384
      /\ weight(15) = 32768
  OBVIOUS
<1>2. Bits(n) = {i \in 0..15 : (n \div weight(i)) % 2 = 1}
  BY DEF Bits, FlagBits
<1> HIDE DEF weight
<1>3. \A i \in 2..15 : weight(i) \in Nat /\ weight(i) > 3
  <2> TAKE i \in 2..15
  <2>1. i \in {2, 3, 4, 5, 6, 7, 8, 9, 10, 11, 12, 13, 14, 15}
    OBVIOUS
  <2> QED
    BY <1>1, <2>1
<1>4. \A d \in Nat : d > 3 => (n \div d) % 2 # 1
  <2> TAKE d \in Nat
  <2> HAVE d > 3
  <2>1. n = 0 * d + n /\ 0 <= n /\ n < d
    OBVIOUS
  <2>2. n \div d = 0
    BY <2>1
  <2> QED
    BY <2>2
<1>5. \A i \in 2..15 : (n \div weight(i)) % 2 # 1
  BY <1>3, <1>4
<1>6. /\ (n \div weight(0)) % 2 = 1 <=> n \in {1, 3}
      /\ (n \div weight(1)) % 2 = 1 <=> n \in {2, 3}
  <2>1. n = 0 \/ n = 1 \/ n = 2 \/ n = 3
    OBVIOUS
  <2> QED
    BY <1>1, <2>1
<1> DEFINE p(i) == (n \div weight(i)) % 2 = 1
<1>7. /\ p(0) <=> n \in {1, 3}
      /\ p(1) <=> n \in {2, 3}
      /\ \A i \in 2..15 : ~p(i)
      /\ Bits(n) = {i \in 0..15 : p(i)}
  BY <1>2, <1>5, <1>6
<1> HIDE DEF p
<1>8. \A i \in 0..15 : i = 0 \/ i = 1 \/ i \in 2..15
  OBVIOUS
<1> QED
  BY <1>7, <1>8

(* The flags of a reply: whatever the flags of the question, if it has no  *)
(* response code, a peer reads a response with RA, with opcode and RD of   *)
(* the question and with the code that was set (NO_ERR is the same as no   *)
(* call of setRCODE).                                                      *)
THEOREM ReplyFlags ==
    ASSUME NEW f \in SUBSET (0..11), NEW rcode \in 0..3
    PROVE  LET g    == setFlag(setResp(f), RA)
               sent == encodeFlag(setRCODE(g, rcode))
               came == encodeFlag(f)
           IN  /\ IsResponse(sent) /\ RecursionAvailable(sent)
               /\ RecursionDesired(sent) <=> RecursionDesired(came)
               /\ OpcodeBits(sent) = OpcodeBits(came)
               /\ RcodeBits(sent) = Bits(rcode)
               /\ setRCODE(g, NO_ERR) = g /\ setResp(g) = g
               /\ setRCODE(setRCODE(g, rcode), rcode) = setRCODE(g, rcode)
<1> DEFINE g    == setFlag(setResp(f), RA)
           sent == encodeFlag(setRCODE(g, rcode))
           resp == encodeFlag(g)
           came == encodeFlag(f)
<1>1. f \in SUBSET FlagBits
  BY DEF FlagBits
<1>2. g = f \cup {0, 8}
  BY DEF setFlag, setResp, RA
<1>3. g \in SUBSET FlagBits
  BY <1>1, <1>2 DEF FlagBits
<1>4. Bits(rcode) \subseteq 0..3
  BY TwoBits
<1>5. /\ IsResponse(resp) /\ RecursionAvailable(resp)
      /\ RecursionDesired(resp) <=> RecursionDesired(came)
      /\ OpcodeBits(resp) = OpcodeBits(came)
      /\ RcodeBits(resp) = RcodeBits(came)
  BY <1>1, ResponseHeader
<1>6. /\ RcodeBits(sent) = RcodeBits(resp) \cup Bits(rcode)
      /\ sent[1] = resp[1]
      /\ sent[2] \ (0..3) = resp[2] \ (0..3)
  BY <1>3, <1>4, RcodeRead
<1>7. RcodeBits(came) = {}
  <2>1. \A i \in 0..3 : 15 - i \notin f
    OBVIOUS
  <2> QED
    BY <1>1, <2>1, Bytes DEF RcodeBits
<1>8. setRCODE(g, NO_ERR) = g
  <2>1. Bits(NO_ERR) = {}
    BY TwoBits DEF NO_ERR
  <2> QED
    BY <2>1 DEF setRCODE, Shl, reverse8
<1>9. setResp(g) = g
  BY <1>2 DEF setResp
<1>10. setRCODE(setRCODE(g, rcode), rcode) = setRCODE(g, rcode)
  BY DEF setRCODE
<1> HIDE DEF g, sent, resp, came
<1>11. /\ IsResponse(sent) <=> IsResponse(resp)
       /\ RecursionDesired(sent) <=> RecursionDesired(resp)
       /\ OpcodeBits(sent) = OpcodeBits(resp)
  BY <1>6 DEF IsResponse, RecursionDesired, OpcodeBits
<1>12. RecursionAvailable(sent) <=> RecursionAvailable(resp)
  BY <1>6 DEF RecursionAvailable
<1> QED
  BY <1>5, <1>6, <1>7, <1>8, <1>9, <1>10, <1>11, <1>12 DEF g, sent, resp, came
=============================================================================
