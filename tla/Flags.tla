-------------------------------- MODULE Flags --------------------------------
(***************************************************************************)
(* The flag field of a DNS message as message/message.c keeps it, and the  *)
(* two bytes it becomes.  A field or a byte is the set of the numbers of   *)
(* the bits that are set; bit 0 is the least significant one.  In the      *)
(* field the bits are in the order of transmission, the reverse of their   *)
(* order in a byte.                                                        *)
(***************************************************************************)
EXTENDS Integers

FlagBits == 0..15
Byte     == 0..7

(* The bits of a uint16_t, and x << n for one. *)
Bits(n)   == {i \in FlagBits : (n \div 2^i) % 2 = 1}
Shl(x, n) == {i + n : i \in x} \cap FlagBits

AA == 5
TC == 6
RD == 7
RA == 8
AD == 10
CD == 11

QUERY          == 0
NO_ERR         == 0
FMT_ERR        == 1
SERVER_FAILURE == 2
NAME_ERR       == 3

reverse8(b) == {7 - i : i \in b \cap Byte}

setQuery(flag)      == flag \ {0}
setResp(flag)       == flag \cup {0}
setOpcode(flag, op) == (flag \ (1..4)) \cup Shl(Bits(op), 1)
setFlag(flag, b)    == flag \cup {b}

(* Slip: the code as it was before the order of the bits was noticed. *)
setRCODEShifted(flag, rcode) == flag \cup Shl(Bits(rcode), 12)

setRCODE(flag, rcode) == flag \cup Shl(reverse8(Bits(rcode)), 8)

(* The flags in encodeHeader and in decode. *)
encodeFlag(flag) == <<reverse8(flag), reverse8({i - 8 : i \in flag \cap 8..15})>>

(* Slip: the second byte is not moved to its place. *)
decodeFlagLow(bytes) == reverse8(bytes[1]) \cup reverse8(bytes[2])

decodeFlag(bytes) == reverse8(bytes[1]) \cup Shl(reverse8(bytes[2]), 8)

-----------------------------------------------------------------------------
(* How a peer reads the two bytes (RFC 1035, 4.1.1). *)
OpcodeBits(bytes) == {i - 3 : i \in bytes[1] \cap 3..6}
RcodeBits(bytes)  == bytes[2] \cap 0..3
IsResponse(bytes) == 7 \in bytes[1]
RecursionDesired(bytes)   == 0 \in bytes[1]
RecursionAvailable(bytes) == 7 \in bytes[2]
=============================================================================
