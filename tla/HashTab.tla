------------------------------- MODULE HashTab -------------------------------
(***************************************************************************)
(* A program that uses one hash table of cache/hash.c through its          *)
(* interface (include/hash.h), in any order, from one thread.  Each insert *)
(* passes data of its own; the table keeps a copy of it on the heap.       *)
(***************************************************************************)
EXTENDS HashOps

CONSTANTS MaxInserts,     \* bound: how often insert is called
          NoData,         \* NULL, as the data of a name
          AbsentDeletes   \* names delete is also called on when search is NULL

ASSUME UseAssumption ==
    /\ MaxInserts \in Nat /\ NoData \notin 1..MaxInserts
    /\ AbsentDeletes \subseteq Names

Data == 1..MaxInserts

VARIABLES ht,        \* the table
          heap,      \* the copies of data that are allocated
          nextData,  \* the data of the next insert
          state,     \* "live", "destroyed" or "crashed" (division by zero)
          content    \* history: what the calls so far make of each name

vars == <<ht, heap, nextData, state, content>>

Init ==
    /\ ht = NewHashTab
    /\ heap = {}
    /\ nextData = 1
    /\ state = "live"
    /\ content = [n \in Names |-> NoData]

Outcome(tab) == IF DividedByZero(tab) THEN "crashed" ELSE "live"

(* Slip: the data that is replaced is not freed. *)
CallInsertLeaks(name) ==
    /\ state = "live" /\ ht.len # 0
    /\ nextData \in Data
    /\ ht' \in Insert(ht, name, nextData)
    /\ heap' = heap \cup {nextData}
    /\ state' = Outcome(ht')
    /\ content' = [content EXCEPT ![name] = nextData]
    /\ nextData' = nextData + 1

(* insert: the table keeps a copy and frees the data it replaces. *)
CallInsert(name) ==
    /\ state = "live" /\ ht.len # 0
    /\ nextData \in Data
    /\ ht' \in Insert(ht, name, nextData)
    /\ heap' = (heap \ (Search(ht, name) \ {n.data : n \in ht'.nodes})) \cup {nextData}
    /\ state' = Outcome(ht')
    /\ content' = [content EXCEPT ![name] = nextData]
    /\ nextData' = nextData + 1

CallDelete(name) ==
    /\ state = "live" /\ ht.len # 0
    /\ Search(ht, name) # {} \/ name \in AbsentDeletes
    /\ ht' \in Delete(ht, name)
    /\ heap' = heap \ (Search(ht, name) \ {n.data : n \in ht'.nodes})
    /\ state' = Outcome(ht')
    /\ content' = [content EXCEPT ![name] = NoData]
    /\ UNCHANGED nextData

(* search, insert or delete on a table without slots: hash(name) % 0.      *)
(* Where there are slots search changes nothing.                           *)
CallOnNoSlots ==
    /\ state = "live" /\ ht.len = 0
    /\ state' = "crashed"
    /\ UNCHANGED <<ht, heap, nextData, content>>

(* DestroyHashTab walks the slots and frees what hangs off them. *)
DestroyHashTab ==
    /\ state = "live"
    /\ heap' = heap \ {n.data : n \in {m \in ht.nodes : m.slot < ht.len}}
    /\ state' = "destroyed"
    /\ UNCHANGED <<ht, nextData, content>>

Next ==
    \/ \E name \in Names : CallInsert(name) \/ CallDelete(name)
    \/ CallOnNoSlots
    \/ DestroyHashTab

Spec == Init /\ [][Next]_vars

-----------------------------------------------------------------------------
(* Among the rest: every node hangs off a slot that ht->h has. *)
TypeOK ==
    /\ ht.nodes \subseteq [name : Names, data : Data, slot : Nat]
    /\ ht.len # 0 => \A n \in ht.nodes : n.slot < ht.len
    /\ ht.len \in 0..(UintMod - 1)
    /\ ht.num \in 0..(UintMod - 1)
    /\ heap \subseteq Data
    /\ nextData \in 1..(MaxInserts + 1)
    /\ state \in {"live", "destroyed", "crashed"}
    /\ content \in [Names -> Data \cup {NoData}]

(* Whatever rescale did in between, search finds for each name the data    *)
(* last inserted under it and nothing for a name never inserted or deleted *)
(* since (hash.c:70-71, 94, 122).                                          *)
SearchFindsLatest ==
    state = "live" /\ ht.len # 0 =>
        \A name \in Names :
            Search(ht, name) = {content[name]} \ {NoData}

(* num is the number of nodes (hash.h:21), so the decisions to rescale are *)
(* made on the real load.                                                  *)
NumExact == state = "live" => ht.num = Cardinality(ht.nodes)

(* insert and delete rescale early enough: fewer than two nodes per slot   *)
(* on average, however insertions and deletions alternate (hash.c:89).     *)
LoadBounded == state = "live" /\ ht.len # 0 => Cardinality(ht.nodes) < 2 * ht.len

(* Neither rescale nor a replaced or deleted node loses or keeps a copy of *)
(* data: what is allocated is what the nodes point to, and after           *)
(* DestroyHashTab nothing is.                                              *)
HeapIsNodes ==
    /\ state = "live" => heap = {n.data : n \in ht.nodes}
    /\ state = "destroyed" => heap = {}

-----------------------------------------------------------------------------
(* A statement of the repository that the code does not keep. *)

(* hash.h:34: search returns NULL when there is no such name; it returns.  *)
SearchReturns == state # "crashed"
=============================================================================
