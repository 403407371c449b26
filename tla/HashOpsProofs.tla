---------------------------- MODULE HashOpsProofs ----------------------------
(***************************************************************************)
(* What the operations of HashOps do to a table, for any names, any hash   *)
(* function, any initial size and any kind of data.                        *)
(***************************************************************************)
EXTENDS HashOps, FiniteSetTheorems, FunctionTheorems, TLAPS

(* The tables whose nodes point to members of D. *)
Node(D)   == [name : Names, data : D, slot : Nat]
Uint      == 0..(UintMod - 1)
Tables(D) == [nodes : SUBSET Node(D), len : Uint, num : Uint]

(* The table holds exactly con: one node for each name con knows, that is, *)
(* for which it does not give none.                                        *)
Holds(tab, con, none) ==
    /\ \A n \in tab.nodes : con[n.name] = n.data
    /\ \A name \in Names : con[name] # none => \E n \in tab.nodes : n.name = name
    /\ \A m, n \in tab.nodes : m.name = n.name \/ m.data = n.data => m = n

(* Every node hangs off the slot of the name it holds. *)
SlotsRight(tab) ==
    tab.len # 0 => \A n \in tab.nodes : n.slot = Slot(n.name, tab.len)

(* Weaker, and kept even for names that do not fit a node: every node      *)
(* hangs off a slot that the table has.                                    *)
SlotsFit(tab) == tab.len # 0 => \A n \in tab.nodes : n.slot < tab.len

(* A table in working order that holds con, whose values are in D. *)
Stores(tab, con, D, none) ==
    /\ tab \in Tables(D) /\ SlotsRight(tab)
    /\ none \notin D /\ con \in [Names -> D \cup {none}]
    /\ Holds(tab, con, none)

DataOf(tab) == {n.data : n \in tab.nodes}

(* The data in the table when k has been inserted under name. *)
DataWith(tab, name, k) == (DataOf(tab) \ Search(tab, name)) \cup {k}

-----------------------------------------------------------------------------
(* Facts about % that the unsigned counters and the slots rest on. *)
LEMMA ModRange ==
    ASSUME NEW i \in Int, NEW m \in Nat \ {0}
    PROVE  i % m \in 0..(m - 1)
OBVIOUS

LEMMA ModSmall ==
    ASSUME NEW m \in Nat, NEW i \in 0..(m - 1)
    PROVE  i % m = i
OBVIOUS

LEMMA UintModPositive == UintMod \in Nat \ {0} /\ InitSize \in Uint
BY TableAssumption DEF Uint

LEMMA ModUint ==
    ASSUME NEW i \in Int
    PROVE  i % UintMod \in Uint
BY ModRange, UintModPositive DEF Uint

LEMMA SlotType ==
    ASSUME NEW name \in Names, NEW len \in Nat \ {0}
    PROVE  Slot(name, len) \in 0..(len - 1)
<1>1. Hash[name] \in Int
    BY TableAssumption
<1>. QED
    BY <1>1, ModRange DEF Slot

-----------------------------------------------------------------------------
(* What the operations of HashOps do to a table. *)

(* search walks the chain of one slot, but that is where the name is. *)
LEMMA FoundByName ==
    ASSUME NEW D, NEW tab \in Tables(D), SlotsRight(tab), tab.len # 0, NEW name \in Names
    PROVE  Found(tab, name) = {n \in tab.nodes : n.name = name}
BY DEF Found, SlotsRight, Tables

(* rescale moves nodes and changes nothing else. *)
LEMMA RescaleKeeps ==
    ASSUME NEW D, NEW tab \in Tables(D), NEW size \in Uint
    PROVE  /\ Rescale(tab, size) \in Tables(D)
           /\ SlotsRight(Rescale(tab, size))
           /\ Rescale(tab, size).len = size
           /\ Rescale(tab, size).num = tab.num
           /\ DataOf(Rescale(tab, size)) = DataOf(tab)
           /\ \A con, none : Holds(tab, con, none) => Holds(Rescale(tab, size), con, none)
<1>. DEFINE r == Rescale(tab, size)
            mv(n) == [n EXCEPT !.slot = Slot(n.name, size)]
<1>1. CASE size = 0
  <2>1. r = [nodes |-> tab.nodes, len |-> 0, num |-> tab.num]
      BY <1>1 DEF Rescale, Tables
  <2>2. r.nodes = tab.nodes /\ r.len = 0 /\ r.num = tab.num /\ r \in Tables(D)
      BY <2>1, UintModPositive DEF Tables, Uint
  <2>. QED
      BY <1>1, <2>2 DEF SlotsRight, DataOf, Holds
<1>2. CASE size # 0
  <2>0. size \in Nat \ {0}
      BY <1>2, UintModPositive DEF Uint
  <2>1. /\ r.nodes = {mv(n) : n \in tab.nodes}
        /\ r.len = size
        /\ r.num = tab.num
        /\ r = [nodes |-> r.nodes, len |-> size, num |-> tab.num]
      BY <1>2 DEF Rescale
  <2>2. ASSUME NEW n \in tab.nodes
        PROVE  /\ mv(n) \in Node(D) /\ mv(n).name = n.name /\ mv(n).data = n.data
               /\ mv(n).slot = Slot(n.name, size)
    <3>1. n \in Node(D)
        BY DEF Tables
    <3>2. Slot(n.name, size) \in Nat
        BY <3>1, <2>0, SlotType DEF Node
    <3>. QED
        BY <3>1, <3>2 DEF Node
  <2>. HIDE DEF r, mv
  <2>3. r \in Tables(D)
      BY <2>1, <2>2 DEF Tables
  <2>4. SlotsRight(r)
      BY <2>1, <2>2 DEF SlotsRight
  <2>5. DataOf(r) = DataOf(tab)
      BY <2>1, <2>2 DEF DataOf
  <2>6. ASSUME NEW con, NEW none, Holds(tab, con, none) PROVE Holds(r, con, none)
    <3>1. \A n \in r.nodes : con[n.name] = n.data
        BY <2>1, <2>2, <2>6 DEF Holds
    <3>2. \A name \in Names : con[name] # none => \E n \in r.nodes : n.name = name
        BY <2>1, <2>2, <2>6 DEF Holds
    <3>3. \A m, n \in r.nodes : m.name = n.name \/ m.data = n.data => m = n
        BY <2>1, <2>2, <2>6 DEF Holds
    <3>. QED
        BY <3>1, <3>2, <3>3 DEF Holds
  <2>. QED
      BY <2>1, <2>3, <2>4, <2>5, <2>6 DEF r
<1>. QED
    BY <1>1, <1>2

LEMMA GrowKeeps ==
    ASSUME NEW D, NEW tab \in Tables(D), SlotsRight(tab)
    PROVE  /\ Grow(tab) \in Tables(D) /\ SlotsRight(Grow(tab))
           /\ DataOf(Grow(tab)) = DataOf(tab)
           /\ Grow(tab).num = tab.num
           /\ \A con, none : Holds(tab, con, none) => Holds(Grow(tab), con, none)
<1>1. 2 * tab.len \in Int
    BY UintModPositive DEF Tables, Uint
<1>2. (2 * tab.len) % UintMod \in Uint
    BY <1>1, ModUint
<1>. QED
    BY <1>2, RescaleKeeps DEF Grow

LEMMA ShrinkKeeps ==
    ASSUME NEW D, NEW tab \in Tables(D), SlotsRight(tab)
    PROVE  /\ Shrink(tab) \in Tables(D) /\ SlotsRight(Shrink(tab))
           /\ DataOf(Shrink(tab)) = DataOf(tab)
           /\ Shrink(tab).num = tab.num
           /\ \A con, none : Holds(tab, con, none) => Holds(Shrink(tab), con, none)
<1>1. tab.len \div 2 \in Uint
    BY UintModPositive DEF Tables, Uint
<1>. QED
    BY <1>1, RescaleKeeps DEF Shrink

(* search finds what the table holds. *)
LEMMA SearchIsContent ==
    ASSUME NEW D, NEW none, NEW tab, NEW con, Stores(tab, con, D, none),
           tab.len # 0, NEW name \in Names
    PROVE  Search(tab, name) = {con[name]} \ {none}
<1>. tab \in Tables(D) /\ SlotsRight(tab) /\ none \notin D /\ Holds(tab, con, none)
    BY DEF Stores
<1>1. Found(tab, name) = {n \in tab.nodes : n.name = name}
    BY FoundByName
<1>2. Search(tab, name) = {n.data : n \in {m \in tab.nodes : m.name = name}}
    BY <1>1 DEF Search
<1>3. \A n \in tab.nodes : n.data \in D /\ n.data # none
    BY DEF Tables, Node
<1>. QED
    BY <1>2, <1>3 DEF Holds

LEMMA InsertHolds ==
    ASSUME ShortNames, NEW D, NEW none, NEW tab, NEW con, Stores(tab, con, D, none),
           tab.len # 0, NEW name \in Names, NEW k \in D, k \notin DataOf(tab),
           NEW h \in Insert(tab, name, k)
    PROVE  /\ Stores(h, [con EXCEPT ![name] = k], D, none)
           /\ DataOf(h) = DataWith(tab, name, k)
<1>. DEFINE con2 == [con EXCEPT ![name] = k]
<1>. /\ tab \in Tables(D) /\ SlotsRight(tab) /\ none \notin D
     /\ con \in [Names -> D \cup {none}] /\ Holds(tab, con, none)
    BY DEF Stores
<1>0. Found(tab, name) = {n \in tab.nodes : n.name = name}
    BY FoundByName
<1>1. tab.nodes \subseteq Node(D) /\ tab.len \in Nat \ {0} /\ k # none
    BY UintModPositive DEF Tables, Uint
<1>2. CASE Found(tab, name) # {}
  <2>1. PICK n \in Found(tab, name) :
           h = [nodes |-> (tab.nodes \ {n}) \cup {[n EXCEPT !.data = k]},
                len |-> tab.len, num |-> tab.num]
      BY <1>2 DEF Insert
  <2>. DEFINE new == [n EXCEPT !.data = k]
  <2>2. n \in tab.nodes /\ n.name = name /\ n \in Node(D)
      BY <1>0, <1>1, <2>1
  <2>3. new \in Node(D) /\ new.name = name /\ new.data = k /\ new.slot = n.slot
      BY <2>2 DEF Node
  <2>4. h.nodes = (tab.nodes \ {n}) \cup {new} /\ h.len = tab.len
      BY <2>1
  <2>. HIDE DEF new
  <2>5. \A m \in tab.nodes : m # n => m.name # name /\ m.data # n.data
      BY <2>2 DEF Holds
  <2>6. h \in Tables(D)
      BY <2>1, <2>3, <1>1 DEF Tables, new
  <2>7. SlotsRight(h)
      BY <2>2, <2>3, <2>4 DEF SlotsRight
  <2>8. Search(tab, name) = {n.data}
      BY <2>2, <2>5, <1>0 DEF Search
  <2>9. DataOf(h) = (DataOf(tab) \ {n.data}) \cup {k}
      BY <2>2, <2>3, <2>4, <2>5 DEF DataOf
  <2>10. Holds(h, con2, none)
    <3>1. \A m \in h.nodes : con2[m.name] = m.data
        BY <2>3, <2>4, <2>5, <1>1 DEF Holds, Node
    <3>2. \A x \in Names : con2[x] # none => \E m \in h.nodes : m.name = x
        BY <2>2, <2>3, <2>4 DEF Holds
    <3>3. \A l, m \in h.nodes : l.name = m.name \/ l.data = m.data => l = m
        BY <2>3, <2>4, <2>5 DEF Holds, DataOf
    <3>. QED
        BY <3>1, <3>2, <3>3 DEF Holds
  <2>11. con2 \in [Names -> D \cup {none}]
      OBVIOUS
  <2>. HIDE DEF con2
  <2>13. Stores(h, con2, D, none)
      BY <2>6, <2>7, <2>10, <2>11 DEF Stores
  <2>14. DataOf(h) = DataWith(tab, name, k)
      BY <2>8, <2>9 DEF DataWith
  <2>. QED
      BY <2>13, <2>14 DEF con2
<1>3. CASE Found(tab, name) = {}
  <2>. DEFINE new == [name |-> name, data |-> k, slot |-> Slot(name, tab.len)]
              mid == [nodes |-> tab.nodes \cup {new}, len |-> tab.len,
                      num |-> (tab.num + 1) % UintMod]
  <2>1. h = Grow(mid)
      BY <1>3 DEF Insert, ShortNames
  <2>2. Slot(name, tab.len) \in Nat
      BY <1>1, SlotType
  <2>3. new \in Node(D) /\ new.name = name /\ new.data = k /\ new.slot = Slot(name, tab.len)
      BY <2>2 DEF Node
  <2>a. tab.num + 1 \in Int
      BY UintModPositive DEF Tables, Uint
  <2>4. (tab.num + 1) % UintMod \in Uint
      BY <2>a, ModUint
  <2>5. mid.nodes = tab.nodes \cup {new} /\ mid.len = tab.len
      OBVIOUS
  <2>6. \A m \in tab.nodes : m.name # name
      BY <1>0, <1>3
  <2>7. mid \in Tables(D)
      BY <2>3, <2>4, <1>1 DEF Tables
  <2>. HIDE DEF new, mid
  <2>8. SlotsRight(mid)
      BY <2>3, <2>5 DEF SlotsRight
  <2>9. DataOf(mid) = DataOf(tab) \cup {k} /\ Search(tab, name) = {}
      BY <2>3, <2>5, <1>3 DEF DataOf, Search
  <2>10. Holds(mid, con2, none)
    <3>1. \A m \in mid.nodes : con2[m.name] = m.data
        BY <2>3, <2>5, <2>6, <1>1 DEF Holds, Node
    <3>2. \A x \in Names : con2[x] # none => \E m \in mid.nodes : m.name = x
        BY <2>3, <2>5 DEF Holds
    <3>3. \A l, m \in mid.nodes : l.name = m.name \/ l.data = m.data => l = m
        BY <2>3, <2>5, <2>6 DEF Holds, DataOf
    <3>. QED
        BY <3>1, <3>2, <3>3 DEF Holds
  <2>11. con2 \in [Names -> D \cup {none}]
      OBVIOUS
  <2>. HIDE DEF con2
  <2>12. /\ h \in Tables(D) /\ SlotsRight(h) /\ DataOf(h) = DataOf(mid)
         /\ Holds(h, con2, none)
      BY <2>1, <2>7, <2>8, <2>10, GrowKeeps
  <2>13. Stores(h, con2, D, none)
      BY <2>11, <2>12 DEF Stores
  <2>14. DataOf(h) = DataWith(tab, name, k)
      BY <2>9, <2>12 DEF DataWith
  <2>. QED
      BY <2>13, <2>14 DEF con2
<1>. QED
    BY <1>2, <1>3

LEMMA DeleteHolds ==
    ASSUME NEW D, NEW none, NEW tab, NEW con, Stores(tab, con, D, none),
           tab.len # 0, NEW name \in Names, NEW h \in Delete(tab, name)
    PROVE  /\ Stores(h, [con EXCEPT ![name] = none], D, none)
           /\ DataOf(h) = DataOf(tab) \ Search(tab, name)
<1>. DEFINE con2 == [con EXCEPT ![name] = none]
<1>. /\ tab \in Tables(D) /\ SlotsRight(tab) /\ none \notin D
     /\ con \in [Names -> D \cup {none}] /\ Holds(tab, con, none)
    BY DEF Stores
<1>0. Found(tab, name) = {n \in tab.nodes : n.name = name}
    BY FoundByName
<1>1. tab.nodes \subseteq Node(D)
    BY DEF Tables
<1>2. PICK rest \in {tab.nodes \ {n} : n \in Found(tab, name)} \cup {tab.nodes} :
        /\ h = Shrink([nodes |-> rest, len |-> tab.len, num |-> (tab.num - 1) % UintMod])
        /\ Found(tab, name) # {} => rest \in {tab.nodes \ {n} : n \in Found(tab, name)}
    BY DEF Delete
<1>. DEFINE mid == [nodes |-> rest, len |-> tab.len, num |-> (tab.num - 1) % UintMod]
<1>3. rest = {m \in tab.nodes : m.name # name}
  <2>1. CASE Found(tab, name) = {}
      BY <2>1, <1>0, <1>2
  <2>2. CASE Found(tab, name) # {}
    <3>1. PICK n \in Found(tab, name) : rest = tab.nodes \ {n}
        BY <2>2, <1>2
    <3>2. n \in tab.nodes /\ n.name = name
        BY <3>1, <1>0
    <3>. QED
        BY <3>1, <3>2 DEF Holds
  <2>. QED
      BY <2>1, <2>2
<1>a. tab.num - 1 \in Int
    BY UintModPositive DEF Tables, Uint
<1>4. (tab.num - 1) % UintMod \in Uint
    BY <1>a, ModUint
<1>5. mid.nodes = rest /\ mid.len = tab.len /\ mid \in Tables(D)
    BY <1>1, <1>3, <1>4 DEF Tables
<1>6. h = Shrink(mid)
    BY <1>2
<1>. HIDE DEF mid
<1>7. SlotsRight(mid)
    BY <1>3, <1>5 DEF SlotsRight
<1>8. DataOf(mid) = DataOf(tab) \ Search(tab, name)
    BY <1>0, <1>3, <1>5 DEF DataOf, Search, Holds
<1>9. Holds(mid, con2, none)
  <2>1. \A m \in mid.nodes : con2[m.name] = m.data
      BY <1>1, <1>3, <1>5 DEF Holds, Node
  <2>2. \A x \in Names : con2[x] # none => \E m \in mid.nodes : m.name = x
      BY <1>3, <1>5 DEF Holds
  <2>3. \A l, m \in mid.nodes : l.name = m.name \/ l.data = m.data => l = m
      BY <1>3, <1>5 DEF Holds
  <2>. QED
      BY <2>1, <2>2, <2>3 DEF Holds
<1>10. con2 \in [Names -> D \cup {none}]
    OBVIOUS
<1>. HIDE DEF con2
<1>11. /\ h \in Tables(D) /\ SlotsRight(h) /\ DataOf(h) = DataOf(mid)
       /\ Holds(h, con2, none)
    BY <1>5, <1>6, <1>7, <1>9, ShrinkKeeps
<1>12. Stores(h, con2, D, none)
    BY <1>10, <1>11 DEF Stores
<1>13. DataOf(h) = DataOf(tab) \ Search(tab, name)
    BY <1>8, <1>11
<1>. QED
    BY <1>12, <1>13 DEF con2
(* rescale leaves num alone, so insert adds one for a new name and delete  *)
(* takes one away.                                                         *)
LEMMA InsertNum ==
    ASSUME NEW tab, NEW name, NEW k, NEW h \in Insert(tab, name, k)
    PROVE  h.num = IF Search(tab, name) = {} THEN (tab.num + 1) % UintMod ELSE tab.num
<1>1. Search(tab, name) = {} <=> Found(tab, name) = {}
    BY DEF Search
<1>2. CASE Found(tab, name) # {}
    BY <1>1, <1>2 DEF Insert
<1>3. CASE Found(tab, name) = {}
  <2>. DEFINE m == (tab.num + 1) % UintMod
  <2>1. PICK nodes : h = Grow([nodes |-> nodes, len |-> tab.len, num |-> m])
      BY <1>3 DEF Insert
  <2>. HIDE DEF m
  <2>2. h.num = m
      BY <2>1 DEF Grow, Rescale
  <2>. QED
      BY <1>1, <1>3, <2>2 DEF m
<1>. QED
    BY <1>2, <1>3

LEMMA DeleteNum ==
    ASSUME NEW tab, NEW name, NEW h \in Delete(tab, name)
    PROVE  h.num = (tab.num - 1) % UintMod
<1>. DEFINE m == (tab.num - 1) % UintMod
<1>1. PICK nodes : h = Shrink([nodes |-> nodes, len |-> tab.len, num |-> m])
    BY DEF Delete
<1>. HIDE DEF m
<1>2. h.num = m
    BY <1>1 DEF Shrink, Rescale
<1>. QED
    BY <1>2 DEF m
(* Names of any length. *)
LEMMA RescaleFits ==
    ASSUME NEW D, NEW tab \in Tables(D), NEW size \in Uint
    PROVE  Rescale(tab, size) \in Tables(D) /\ SlotsFit(Rescale(tab, size))
<1>. DEFINE r == Rescale(tab, size)
<1>1. r \in Tables(D) /\ SlotsRight(r) /\ r.len = size
    BY RescaleKeeps
<1>. HIDE DEF r
<1>2. ASSUME r.len # 0, NEW n \in r.nodes
      PROVE  n.slot < r.len
  <2>1. r.len \in Nat \ {0} /\ n.name \in Names /\ n.slot = Slot(n.name, r.len)
      BY <1>1, <1>2, UintModPositive DEF Tables, Node, SlotsRight, Uint
  <2>. QED
      BY <2>1, SlotType
<1>. QED
    BY <1>1, <1>2 DEF SlotsFit, r

LEMMA InsertFits ==
    ASSUME NEW D, NEW tab \in Tables(D), SlotsFit(tab), tab.len # 0,
           NEW name \in Names, NEW k \in D, NEW h \in Insert(tab, name, k)
    PROVE  h \in Tables(D) /\ SlotsFit(h)
<1>1. tab.nodes \subseteq Node(D) /\ tab.len \in Nat \ {0} /\ tab.len \in Uint /\ tab.num \in Uint
    BY UintModPositive DEF Tables, Uint
<1>2. CASE Found(tab, name) # {}
  <2>1. PICK n \in Found(tab, name) :
           h = [nodes |-> (tab.nodes \ {n}) \cup {[n EXCEPT !.data = k]},
                len |-> tab.len, num |-> tab.num]
      BY <1>2 DEF Insert
  <2>. DEFINE new == [n EXCEPT !.data = k]
  <2>2. n \in tab.nodes /\ n \in Node(D)
      BY <1>1 DEF Found
  <2>3. new \in Node(D) /\ new.slot = n.slot
      BY <2>2 DEF Node
  <2>4. /\ h.nodes = (tab.nodes \ {n}) \cup {new} /\ h.len = tab.len
        /\ h = [nodes |-> h.nodes, len |-> tab.len, num |-> tab.num]
      BY <2>1
  <2>. HIDE DEF new
  <2>. QED
      BY <1>1, <2>2, <2>3, <2>4 DEF Tables, SlotsFit
<1>3. CASE Found(tab, name) = {}
  <2>1. PICK s \in Stored[name] :
          h = Grow([nodes |-> tab.nodes \cup {[name |-> s, data |-> k,
                                               slot |-> Slot(name, tab.len)]},
                    len |-> tab.len, num |-> (tab.num + 1) % UintMod])
      BY <1>3 DEF Insert
  <2>. DEFINE new == [name |-> s, data |-> k, slot |-> Slot(name, tab.len)]
              mid == [nodes |-> tab.nodes \cup {new}, len |-> tab.len,
                      num |-> (tab.num + 1) % UintMod]
  <2>2. s \in Names /\ Slot(name, tab.len) \in 0..(tab.len - 1)
      BY <1>1, SlotType, TableAssumption
  <2>3. new \in Node(D) /\ new.slot < tab.len
      BY <1>1, <2>2 DEF Node
  <2>4. tab.num + 1 \in Int
      BY <1>1 DEF Uint
  <2>5. (tab.num + 1) % UintMod \in Uint
      BY <2>4, ModUint
  <2>6. h = Grow(mid)
      BY <2>1
  <2>. HIDE DEF new
  <2>7. mid \in Tables(D) /\ mid.nodes = tab.nodes \cup {new} /\ mid.len = tab.len
      BY <1>1, <2>3, <2>5 DEF Tables
  <2>. HIDE DEF mid
  <2>8. SlotsFit(mid)
      BY <2>3, <2>7 DEF SlotsFit
  <2>9. 2 * mid.len \in Int
      BY <1>1, <2>7
  <2>10. (2 * mid.len) % UintMod \in Uint
      BY <2>9, ModUint
  <2>. QED
      BY <2>6, <2>7, <2>8, <2>10, RescaleFits DEF Grow
<1>. QED
    BY <1>2, <1>3

LEMMA DeleteFits ==
    ASSUME NEW D, NEW tab \in Tables(D), SlotsFit(tab), tab.len # 0,
           NEW name \in Names, NEW h \in Delete(tab, name)
    PROVE  h \in Tables(D) /\ SlotsFit(h)
<1>1. tab.nodes \subseteq Node(D) /\ tab.len \in Nat \ {0} /\ tab.len \in Uint /\ tab.num \in Uint
    BY UintModPositive DEF Tables, Uint
<1>2. PICK rest \in SUBSET tab.nodes :
        h = Shrink([nodes |-> rest, len |-> tab.len, num |-> (tab.num - 1) % UintMod])
    BY DEF Delete
<1>. DEFINE mid == [nodes |-> rest, len |-> tab.len, num |-> (tab.num - 1) % UintMod]
<1>3. tab.num - 1 \in Int
    BY <1>1 DEF Uint
<1>4. (tab.num - 1) % UintMod \in Uint
    BY <1>3, ModUint
<1>5. mid \in Tables(D) /\ mid.nodes = rest /\ mid.len = tab.len /\ h = Shrink(mid)
    BY <1>1, <1>2, <1>4 DEF Tables
<1>. HIDE DEF mid
<1>6. SlotsFit(mid)
    BY <1>5 DEF SlotsFit
<1>7. mid.len \div 2 \in Uint
    BY <1>1, <1>5, UintModPositive DEF Uint
<1>. QED
    BY <1>5, <1>6, <1>7, RescaleFits DEF Shrink
=============================================================================
