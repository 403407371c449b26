------------------------------- MODULE MCHashTab -------------------------------
(* Instances of HashTab for TLC: four names, two of which share every slot. *)
EXTENDS HashTab, TLC

CONSTANTS a, b, c, d

MCNames  == {a, b, c, d}
MCHash   == (a :> 0) @@ (b :> 4) @@ (c :> 1) @@ (d :> 3)
MCStored == [n \in MCNames |-> {n}]
=============================================================================
