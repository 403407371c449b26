------------------------------- MODULE HashOps -------------------------------
(***************************************************************************)
(* The chained hash table of cache/hash.c, as operators on its state.      *)
(*                                                                         *)
(* A table is a record: the nodes that hang off its slots, len (the number *)
(* of slots) and num (what the table takes for its number of nodes).  Both *)
(* are unsigned int.  The order of a chain only shows between two nodes of *)
(* the same name; where a call meets several it may find any of them, so   *)
(* insert and delete are given by the set of their possible results.       *)
(***************************************************************************)
EXTENDS Integers, FiniteSets

CONSTANTS Names,     \* the strings used as keys
          Hash,      \* hash(): Names -> Nat
          Stored,    \* what newNode may leave in t->name, for each name
          InitSize,  \* INIT_SIZE, 1024 in hash.c
          UintMod    \* 2^32, the width of len and num

ASSUME TableAssumption ==
    /\ IsFiniteSet(Names)
    /\ Hash \in [Names -> Nat]
    /\ Stored \in [Names -> (SUBSET Names) \ {{}}]
    /\ InitSize \in Nat \ {0}
    /\ UintMod \in Nat
    /\ 4 * InitSize < UintMod
    /\ 4 * Cardinality(Names) < UintMod

(* strncpy(t->name, name, 50) copies a name of up to 49 characters whole.  *)
(* From 50 on it writes no terminator, and name[50] stays as malloc left   *)
(* it: the name that is read back is one of several.                       *)
ShortNames == \A n \in Names : Stored[n] = {n}

NewHashTab == [nodes |-> {}, len |-> InitSize, num |-> 0]

Slot(name, len) == Hash[name] % len

(* The nodes of the chain of name that strcmp finds equal to it. *)
Found(ht, name) ==
    {n \in ht.nodes : n.slot = Slot(name, ht.len) /\ n.name = name}

(* Slip: the nodes are hung off the new slots without hashing again. *)
RescaleKeepsSlots(ht, size) == [ht EXCEPT !.len = size]

(* Slip: the slots are computed with the length the table still has. *)
RescaleOldLen(ht, size) ==
    [nodes |-> {[n EXCEPT !.slot = Slot(n.name, ht.len)] : n \in ht.nodes},
     len   |-> size,
     num   |-> ht.num]

(* rescale: every node moves to the slot of the name it holds.  With size  *)
(* 0 the first node to be moved would divide by zero.                      *)
Rescale(ht, size) ==
    [nodes |-> IF size = 0 THEN ht.nodes
               ELSE {[n EXCEPT !.slot = Slot(n.name, size)] : n \in ht.nodes},
     len   |-> size,
     num   |-> ht.num]

(* What rescale to no slots at all ends in, when there are nodes to move. *)
DividedByZero(ht) == ht.len = 0 /\ ht.nodes # {}

(* search: the data pointer of a node, no node for NULL. *)
Search(ht, name) == {n.data : n \in Found(ht, name)}

(* Slip: one node too late. *)
GrowLate(ht) == IF ht.num > (2 * ht.len) % UintMod
                THEN Rescale(ht, (2 * ht.len) % UintMod) ELSE ht

(* The end of insert, after a node was linked in. *)
Grow(ht) == IF ht.num >= (2 * ht.len) % UintMod
            THEN Rescale(ht, (2 * ht.len) % UintMod) ELSE ht

(* Slip: replacing the data of a name counts as another node. *)
InsertCountsTwice(ht, name, data) ==
    IF Found(ht, name) # {}
    THEN {[nodes |-> (ht.nodes \ {n}) \cup {[n EXCEPT !.data = data]},
           len   |-> ht.len,
           num   |-> (ht.num + 1) % UintMod] : n \in Found(ht, name)}
    ELSE {Grow([nodes |-> ht.nodes \cup {[name |-> s, data |-> data,
                                          slot |-> Slot(name, ht.len)]},
                len   |-> ht.len,
                num   |-> (ht.num + 1) % UintMod]) : s \in Stored[name]}

(* A name already there gets the new data, any other a node of its own. *)
Insert(ht, name, data) ==
    IF Found(ht, name) # {}
    THEN {[nodes |-> (ht.nodes \ {n}) \cup {[n EXCEPT !.data = data]},
           len   |-> ht.len,
           num   |-> ht.num] : n \in Found(ht, name)}
    ELSE {Grow([nodes |-> ht.nodes \cup {[name |-> s, data |-> data,
                                          slot |-> Slot(name, ht.len)]},
                len   |-> ht.len,
                num   |-> (ht.num + 1) % UintMod]) : s \in Stored[name]}

(* The end of delete. *)
Shrink(ht) == IF (2 * ht.num) % UintMod < ht.len
              THEN Rescale(ht, ht.len \div 2) ELSE ht

(* num is decremented whether or not deleteNode finds the name. *)
Delete(ht, name) ==
    {Shrink([nodes |-> rest, len |-> ht.len,
             num   |-> (ht.num - 1) % UintMod])
        : rest \in IF Found(ht, name) = {} THEN {ht.nodes}
                   ELSE {ht.nodes \ {n} : n \in Found(ht, name)}}
=============================================================================
