------------------------------- MODULE MCCache -------------------------------
(* Instances of Cache for TLC, with keys shorter than HASH_KEY_MAX_LEN. *)
EXTENDS Cache, TLC

CONSTANTS x, y, z

ShortKeys   == {x, y, z}
ShortHash   == (x :> 0) @@ (y :> 4) @@ (z :> 1)
ShortStored == [n \in ShortKeys |-> {n}]

(* Addresses and threads are interchangeable; keys differ in their hash. *)
AddrThreadSymmetry == Permutations(Addr) \cup Permutations(Threads)
=============================================================================
