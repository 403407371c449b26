---------------------------- MODULE HashTabProofs ----------------------------
(***************************************************************************)
(* Theorems about HashTab for any names (up to 49 characters), any hash    *)
(* function, any initial size and any number of calls.                     *)
(***************************************************************************)
EXTENDS HashTab, HashOpsProofs

Inv ==
    /\ ht \in Tables(Data)
    /\ nextData \in 1..(MaxInserts + 1)
    /\ content \in [Names -> Data \cup {NoData}]
    /\ state \in {"live", "destroyed", "crashed"}
    /\ heap \subseteq Data
    /\ \A k \in DataOf(ht) : k < nextData
    /\ SlotsRight(ht)
    /\ state = "live" => Holds(ht, content, NoData) /\ ~DividedByZero(ht)
    /\ HeapIsNodes

-----------------------------------------------------------------------------
LEMMA NoDataIsNone == NoData \notin Data
BY UseAssumption DEF Data

(* A live table is in working order. *)
LEMMA LiveStores ==
    ASSUME Inv, state = "live"
    PROVE  Stores(ht, content, Data, NoData)
BY NoDataIsNone DEF Inv, Stores

LEMMA InitInv == Init => Inv
<1>. SUFFICES ASSUME Init PROVE Inv
    OBVIOUS
<1>1. ht = [nodes |-> {}, len |-> InitSize, num |-> 0]
    BY DEF Init, NewHashTab
<1>2. ht \in Tables(Data) /\ ht.nodes = {}
    BY <1>1, UintModPositive DEF Tables, Uint
<1>3. SlotsRight(ht) /\ DataOf(ht) = {} /\ Holds(ht, content, NoData) /\ ~DividedByZero(ht)
    BY <1>2 DEF SlotsRight, DataOf, Holds, DividedByZero, Init
<1>4. HeapIsNodes
    BY <1>2 DEF Init, HeapIsNodes
<1>5. nextData \in 1..(MaxInserts + 1)
    BY UseAssumption DEF Init
<1>. QED
    BY <1>2, <1>3, <1>4, <1>5 DEF Init, Inv

LEMMA InsertInv ==
    ASSUME ShortNames, Inv, NEW name \in Names, CallInsert(name)
    PROVE  Inv'
<1>1. /\ ht \in Tables(Data) /\ SlotsRight(ht) /\ ht.len # 0 /\ Holds(ht, content, NoData)
      /\ content \in [Names -> Data \cup {NoData}] /\ state = "live"
    BY DEF Inv, CallInsert
<1>2. nextData \in Data /\ nextData \notin DataOf(ht)
    BY DEF CallInsert, Inv, Data
<1>3. ht' \in Insert(ht, name, nextData)
    BY DEF CallInsert
<1>4. /\ ht' \in Tables(Data) /\ SlotsRight(ht')
      /\ Holds(ht', [content EXCEPT ![name] = nextData], NoData)
      /\ DataOf(ht') = DataWith(ht, name, nextData)
  <2>1. Stores(ht, content, Data, NoData)
      BY <1>1, LiveStores
  <2>2. /\ Stores(ht', [content EXCEPT ![name] = nextData], Data, NoData)
        /\ DataOf(ht') = DataWith(ht, name, nextData)
    <3>1. ht.len # 0
        BY <1>1
    <3>2. nextData \in Data
        BY <1>2
    <3>3. nextData \notin DataOf(ht)
        BY <1>2
    <3>. QED
        BY <1>3, <2>1, <3>1, <3>2, <3>3, InsertHolds
  <2>. QED
      BY <2>2 DEF Stores
<1>a. nextData' = nextData + 1 /\ nextData \in 1..MaxInserts /\ MaxInserts \in Nat
    BY UseAssumption DEF CallInsert, Data
<1>b. \A k \in DataOf(ht) : k \in Int /\ k < nextData
    BY <1>1 DEF Inv, DataOf, Tables, Node, Data
<1>5. nextData' \in 1..(MaxInserts + 1) /\ \A k \in DataOf(ht') : k < nextData'
    BY <1>4, <1>a, <1>b DEF DataWith
<1>6. state' = "live" => ~DividedByZero(ht')
    BY DEF CallInsert, Outcome
<1>7. heap = DataOf(ht)
    BY <1>1 DEF Inv, HeapIsNodes, DataOf
<1>8. heap' = (heap \ (Search(ht, name) \ DataOf(ht'))) \cup {nextData}
    BY DEF CallInsert, DataOf
<1>9. Search(ht, name) \subseteq DataOf(ht)
    BY DEF Search, Found, DataOf
<1>10. heap' = DataOf(ht')
    BY <1>2, <1>4, <1>7, <1>8, <1>9 DEF DataWith
<1>11. HeapIsNodes'
    BY <1>10 DEF HeapIsNodes, DataOf, CallInsert, Outcome
<1>12. heap' \subseteq Data /\ content' = [content EXCEPT ![name] = nextData]
    BY <1>2, <1>8 DEF CallInsert, Inv
<1>. QED
    BY <1>1, <1>2, <1>4, <1>5, <1>6, <1>11, <1>12 DEF Inv, CallInsert, Outcome

LEMMA DeleteInv ==
    ASSUME Inv, NEW name \in Names, CallDelete(name)
    PROVE  Inv'
<1>1. /\ ht \in Tables(Data) /\ SlotsRight(ht) /\ ht.len # 0 /\ Holds(ht, content, NoData)
      /\ content \in [Names -> Data \cup {NoData}] /\ state = "live"
    BY DEF Inv, CallDelete
<1>3. ht' \in Delete(ht, name)
    BY DEF CallDelete
<1>4. /\ ht' \in Tables(Data) /\ SlotsRight(ht')
      /\ Holds(ht', [content EXCEPT ![name] = NoData], NoData)
      /\ DataOf(ht') = DataOf(ht) \ Search(ht, name)
  <2>1. Stores(ht, content, Data, NoData)
      BY <1>1, LiveStores
  <2>2. /\ Stores(ht', [content EXCEPT ![name] = NoData], Data, NoData)
        /\ DataOf(ht') = DataOf(ht) \ Search(ht, name)
    <3>1. ht.len # 0
        BY <1>1
    <3>. QED
        BY <1>3, <2>1, <3>1, DeleteHolds
  <2>. QED
      BY <2>2 DEF Stores
<1>5. \A k \in DataOf(ht') : k < nextData'
    BY <1>4 DEF CallDelete, Inv
<1>6. state' = "live" => ~DividedByZero(ht')
    BY DEF CallDelete, Outcome
<1>7. heap = DataOf(ht)
    BY <1>1 DEF Inv, HeapIsNodes, DataOf
<1>8. heap' = heap \ (Search(ht, name) \ DataOf(ht'))
    BY DEF CallDelete, DataOf
<1>10. heap' = DataOf(ht')
    BY <1>4, <1>7, <1>8
<1>11. HeapIsNodes'
    BY <1>10 DEF HeapIsNodes, DataOf, CallDelete, Outcome
<1>12. heap' \subseteq Data /\ content' = [content EXCEPT ![name] = NoData]
    BY <1>8 DEF CallDelete, Inv
<1>. QED
    BY <1>1, <1>4, <1>5, <1>6, <1>11, <1>12 DEF Inv, CallDelete, Outcome

LEMMA DestroyInv ==
    ASSUME Inv, DestroyHashTab
    PROVE  Inv'
<1>1. ht \in Tables(Data) /\ SlotsRight(ht) /\ ~DividedByZero(ht) /\ heap = DataOf(ht)
    BY DEF Inv, DestroyHashTab, HeapIsNodes, DataOf
<1>2. \A n \in ht.nodes : n.slot < ht.len
  <2>1. SUFFICES ASSUME NEW n \in ht.nodes PROVE n.slot < ht.len
      OBVIOUS
  <2>2. ht.len \in Nat \ {0} /\ n.name \in Names
      BY <1>1, <2>1, UintModPositive DEF DividedByZero, Tables, Uint, Node
  <2>3. n.slot = Slot(n.name, ht.len)
      BY <1>1, <2>2 DEF SlotsRight
  <2>. QED
      BY <2>2, <2>3, SlotType
<1>3. {m \in ht.nodes : m.slot < ht.len} = ht.nodes
    BY <1>2
<1>4. heap' = {}
    BY <1>1, <1>3 DEF DestroyHashTab, DataOf
<1>. QED
    BY <1>4 DEF Inv, DestroyHashTab, HeapIsNodes, DataOf

LEMMA StepInv ==
    ASSUME ShortNames
    PROVE  Inv /\ [Next]_vars => Inv'
<1>. SUFFICES ASSUME Inv, [Next]_vars PROVE Inv'
    OBVIOUS
<1>1. CASE CallOnNoSlots
    BY <1>1 DEF CallOnNoSlots, Inv, HeapIsNodes
<1>2. CASE UNCHANGED vars
    BY <1>2 DEF vars, Inv, HeapIsNodes
<1>. QED
    BY <1>1, <1>2, InsertInv, DeleteInv, DestroyInv DEF Next

LEMMA Invariance ==
    ASSUME ShortNames
    PROVE  Spec => []Inv
<1>. QED
    BY InitInv, StepInv, PTL DEF Spec

(* Whatever the calls and the rescaling they cause, search returns the     *)
(* data last inserted under a name that fits a node, and NULL otherwise.   *)
THEOREM SearchCorrect ==
    ASSUME ShortNames
    PROVE  Spec => []SearchFindsLatest
<1>1. Inv => SearchFindsLatest
    BY LiveStores, SearchIsContent DEF SearchFindsLatest
<1>. QED
    BY <1>1, Invariance, PTL

(* insert, delete and DestroyHashTab free each copy of data exactly when   *)
(* its node is gone.                                                       *)
THEOREM HeapCorrect ==
    ASSUME ShortNames
    PROVE  Spec => []HeapIsNodes
<1>1. Inv => HeapIsNodes
    BY DEF Inv
<1>. QED
    BY <1>1, Invariance, PTL

-----------------------------------------------------------------------------
(* The counters, for a caller who only deletes what is there. *)

Filled == {name \in Names : content[name] # NoData}

(* num counts the names that are in, len keeps up with it, and neither     *)
(* comes near the width of an unsigned int.                                *)
CountInv ==
    state = "live" =>
        /\ ht.num = Cardinality(Filled)
        /\ ht.len # 0 \/ ht.nodes # {} => ht.num < 2 * ht.len
        /\ ht.len <= InitSize \/ ht.len <= Cardinality(Names)

LEMMA FilledFinite ==
    /\ IsFiniteSet(Filled) /\ Cardinality(Filled) \in Nat
    /\ Cardinality(Filled) <= Cardinality(Names) /\ Cardinality(Names) \in Nat
<1>1. IsFiniteSet(Names) /\ Filled \in SUBSET Names
    BY TableAssumption DEF Filled
<1>. QED
    BY <1>1, FS_Subset, FS_CardinalityType

(* One node for each name: the two ways to count agree. *)
LEMMA NodesAreFilled ==
    ASSUME ht \in Tables(Data), content \in [Names -> Data \cup {NoData}], Holds(ht, content, NoData)
    PROVE  Cardinality(ht.nodes) = Cardinality(Filled)
<1>. DEFINE f == [n \in ht.nodes |-> n.name]
<1>1. \A n \in ht.nodes : n.name \in Names /\ n.data # NoData
    BY UseAssumption DEF Tables, Node, Data
<1>2. f \in [ht.nodes -> Filled]
    BY <1>1 DEF Filled, Holds
<1>3. \A m, n \in ht.nodes : f[m] = f[n] => m = n
    BY DEF Holds
<1>4. \A name \in Filled : \E n \in ht.nodes : f[n] = name
    BY DEF Holds, Filled
<1>. HIDE DEF f
<1>5. f \in Injection(ht.nodes, Filled) /\ f \in Surjection(ht.nodes, Filled)
    BY <1>2, <1>3, <1>4, Fun_IsInj, Fun_IsSurj
<1>. QED
    BY <1>5, FilledFinite, FS_Injection

LEMMA InsertCount ==
    ASSUME ShortNames, Inv, CountInv, NEW name \in Names, CallInsert(name)
    PROVE  CountInv'
<1>1. /\ ht \in Tables(Data) /\ SlotsRight(ht) /\ ht.len # 0 /\ Holds(ht, content, NoData)
      /\ content \in [Names -> Data \cup {NoData}] /\ state = "live"
      /\ ht' \in Insert(ht, name, nextData)
      /\ content' = [content EXCEPT ![name] = nextData]
    BY DEF Inv, CallInsert
<1>2. nextData # NoData
    BY UseAssumption DEF CallInsert, Data
<1>3. Search(ht, name) = {content[name]} \ {NoData}
    BY <1>1, LiveStores, SearchIsContent
<1>4. /\ ht.num = Cardinality(Filled) /\ ht.num < 2 * ht.len
      /\ ht.len <= InitSize \/ ht.len <= Cardinality(Names)
    BY <1>1 DEF CountInv
<1>5. /\ UintMod \in Nat /\ 4 * InitSize < UintMod /\ 4 * Cardinality(Names) < UintMod
      /\ InitSize \in Nat
    BY TableAssumption
<1>6. ht.len \in Nat \ {0} /\ ht.num \in Nat
    BY <1>1, UintModPositive DEF Tables, Uint
<1>7. CASE Found(ht, name) # {}
  <2>1. ht'.num = ht.num /\ ht'.len = ht.len
      BY <1>1, <1>7 DEF Insert
  <2>2. content[name] # NoData
      BY <1>3, <1>7 DEF Search
  <2>3. Filled' = Filled
      BY <1>1, <1>2, <2>2 DEF Filled
  <2>. QED
      BY <1>4, <2>1, <2>3 DEF CountInv
<1>8. CASE Found(ht, name) = {}
  <2>1. content[name] = NoData
      BY <1>3, <1>8 DEF Search
  <2>2. Filled' = Filled \cup {name} /\ name \notin Filled
      BY <1>1, <1>2, <2>1 DEF Filled
  <2>3. Cardinality(Filled') = Cardinality(Filled) + 1
      BY <2>2, FilledFinite, FS_AddElement
  <2>4. Cardinality(Filled') <= Cardinality(Names) /\ Cardinality(Names) \in Nat
      BY <2>2, TableAssumption, FS_Subset, FS_CardinalityType DEF Filled
  <2>5. (ht.num + 1) % UintMod = ht.num + 1
      BY <1>4, <1>5, <1>6, <2>3, <2>4, ModSmall
  <2>a. 2 * ht.len \in 0..(UintMod - 1)
      BY <1>4, <1>5, <1>6, <2>4
  <2>6. (2 * ht.len) % UintMod = 2 * ht.len
      BY <1>5, <2>a, ModSmall
  <2>. DEFINE mid == [nodes |-> ht.nodes \cup {[name |-> name, data |-> nextData,
                                                slot |-> Slot(name, ht.len)]},
                      len |-> ht.len, num |-> ht.num + 1]
  <2>7. ht' = Grow(mid)
      BY <1>1, <1>8, <2>5 DEF Insert, ShortNames
  <2>8. mid.len = ht.len /\ mid.num = ht.num + 1
      OBVIOUS
  <2>. HIDE DEF mid
  <2>9. CASE ht.num + 1 >= 2 * ht.len
    <3>1. ht'.len = 2 * ht.len /\ ht'.num = ht.num + 1
        BY <2>6, <2>7, <2>8, <2>9 DEF Grow, Rescale
    <3>. QED
        BY <3>1, <1>4, <1>6, <2>3, <2>4, <2>9 DEF CountInv
  <2>10. CASE ~(ht.num + 1 >= 2 * ht.len)
    <3>1. ht'.len = ht.len /\ ht'.num = ht.num + 1
        BY <2>6, <2>7, <2>8, <2>10 DEF Grow
    <3>. QED
        BY <3>1, <1>4, <1>6, <2>3, <2>10 DEF CountInv
  <2>. QED
      BY <2>9, <2>10
<1>. QED
    BY <1>7, <1>8

LEMMA DeleteCount ==
    ASSUME Inv, Inv', CountInv, AbsentDeletes = {}, NEW name \in Names, CallDelete(name)
    PROVE  CountInv'
<1>1. /\ ht \in Tables(Data) /\ SlotsRight(ht) /\ ht.len # 0 /\ Holds(ht, content, NoData)
      /\ content \in [Names -> Data \cup {NoData}] /\ state = "live"
      /\ ht' \in Delete(ht, name) /\ Search(ht, name) # {}
      /\ content' = [content EXCEPT ![name] = NoData]
    BY DEF Inv, CallDelete
<1>2. content[name] # NoData
    BY <1>1, LiveStores, SearchIsContent
<1>3. Filled' = Filled \ {name} /\ name \in Filled
    BY <1>1, <1>2 DEF Filled
<1>4. Cardinality(Filled') = Cardinality(Filled) - 1
    BY <1>3, FilledFinite, FS_RemoveElement
<1>5. Cardinality(Filled') \in Nat
    BY <1>3, FilledFinite, FS_RemoveElement, FS_CardinalityType
<1>6. /\ ht.num = Cardinality(Filled) /\ ht.num < 2 * ht.len
      /\ ht.len <= InitSize \/ ht.len <= Cardinality(Names)
    BY <1>1 DEF CountInv
<1>7. /\ UintMod \in Nat /\ 4 * InitSize < UintMod /\ 4 * Cardinality(Names) < UintMod
      /\ InitSize \in Nat /\ Cardinality(Names) \in Nat
    BY TableAssumption, FilledFinite
<1>8. ht.len \in Nat \ {0} /\ ht.num \in Nat \ {0}
    BY <1>1, <1>4, <1>5, <1>6, UintModPositive DEF Tables, Uint
<1>a. ht.num <= Cardinality(Names)
    BY <1>6, FilledFinite
<1>b. ht.num - 1 \in 0..(UintMod - 1) /\ 2 * (ht.num - 1) \in 0..(UintMod - 1)
    BY <1>7, <1>8, <1>a
<1>9. (ht.num - 1) % UintMod = ht.num - 1
    BY <1>7, <1>b, ModSmall
<1>10. (2 * (ht.num - 1)) % UintMod = 2 * (ht.num - 1)
    BY <1>7, <1>b, ModSmall
<1>11. PICK rest : ht' = Shrink([nodes |-> rest, len |-> ht.len, num |-> ht.num - 1])
    BY <1>1, <1>9 DEF Delete
<1>12. CASE 2 * (ht.num - 1) < ht.len
  <2>1. ht'.len = ht.len \div 2 /\ ht'.num = ht.num - 1
      BY <1>10, <1>11, <1>12 DEF Shrink, Rescale
  <2>2. state' = "live" => ~DividedByZero(ht')
      BY DEF Inv
  <2>3. CASE ht.len = 1
    <3>1. ht'.len = 0
        BY <2>1, <2>3
    <3>. QED
        BY <3>1, <2>1, <2>2, <1>4, <1>6, <1>7 DEF CountInv, DividedByZero
  <2>4. CASE ht.len # 1
    <3>1. ht'.num < 2 * ht'.len /\ ht'.len <= ht.len
        BY <2>1, <2>4, <1>8, <1>12
    <3>2. ht'.len \in Nat
        BY <2>1, <1>8
    <3>. QED
        BY <3>1, <3>2, <2>1, <1>4, <1>6, <1>7, <1>8 DEF CountInv
  <2>. QED
      BY <2>3, <2>4
<1>13. CASE ~(2 * (ht.num - 1) < ht.len)
  <2>1. ht'.len = ht.len /\ ht'.num = ht.num - 1
      BY <1>10, <1>11, <1>13 DEF Shrink
  <2>. QED
      BY <2>1, <1>4, <1>6, <1>8 DEF CountInv
<1>. QED
    BY <1>12, <1>13

LEMMA CountInvariance ==
    ASSUME ShortNames, AbsentDeletes = {}
    PROVE  Spec => []CountInv
<1>1. Init => CountInv
  <2>1. SUFFICES ASSUME Init PROVE CountInv
      OBVIOUS
  <2>a. \A name \in Names : content[name] = NoData
      BY <2>1 DEF Init
  <2>b. ht.num = 0 /\ ht.len = InitSize
      BY <2>1 DEF Init, NewHashTab
  <2>2. Filled = {} /\ ht.num = 0 /\ ht.len = InitSize
      BY <2>a, <2>b DEF Filled
  <2>. QED
      BY <2>2, FS_EmptySet, TableAssumption DEF CountInv
<1>2. Inv /\ Inv' /\ CountInv /\ [Next]_vars => CountInv'
  <2>. SUFFICES ASSUME Inv, Inv', CountInv, [Next]_vars PROVE CountInv'
      OBVIOUS
  <2>1. CASE CallOnNoSlots \/ DestroyHashTab
      BY <2>1 DEF CallOnNoSlots, DestroyHashTab, CountInv
  <2>2. CASE UNCHANGED vars
      BY <2>2 DEF vars, CountInv, Filled
  <2>. QED
      BY <2>1, <2>2, InsertCount, DeleteCount DEF Next
<1>. QED
    BY <1>1, <1>2, Invariance, PTL DEF Spec

(* num is the number of nodes, as long as delete is only called on names   *)
(* that are there.                                                         *)
THEOREM NumCorrect ==
    ASSUME ShortNames, AbsentDeletes = {}
    PROVE  Spec => []NumExact
<1>1. Inv /\ CountInv => NumExact
    BY NodesAreFilled DEF Inv, CountInv, NumExact
<1>. QED
    BY <1>1, Invariance, CountInvariance, PTL

(* insert and delete keep fewer than two nodes per slot. *)
THEOREM LoadCorrect ==
    ASSUME ShortNames, AbsentDeletes = {}
    PROVE  Spec => []LoadBounded
<1>1. Inv /\ CountInv => LoadBounded
    BY NodesAreFilled DEF Inv, CountInv, LoadBounded
<1>. QED
    BY <1>1, Invariance, CountInvariance, PTL
-----------------------------------------------------------------------------
(* Types and slots, for names of any length. *)
TypeInv ==
    /\ ht \in Tables(Data) /\ SlotsFit(ht)
    /\ heap \subseteq Data
    /\ nextData \in 1..(MaxInserts + 1)
    /\ state \in {"live", "destroyed", "crashed"}
    /\ content \in [Names -> Data \cup {NoData}]

LEMMA StepTypes == TypeInv /\ [Next]_vars => TypeInv'
<1>. SUFFICES ASSUME TypeInv, [Next]_vars PROVE TypeInv'
    OBVIOUS
<1>1. ASSUME NEW name \in Names, CallInsert(name)
      PROVE  TypeInv'
  <2>1. /\ ht \in Tables(Data) /\ SlotsFit(ht) /\ ht.len # 0 /\ nextData \in Data
        /\ ht' \in Insert(ht, name, nextData)
      BY <1>1 DEF TypeInv, CallInsert
  <2>2. ht' \in Tables(Data) /\ SlotsFit(ht')
      BY <2>1, InsertFits
  <2>3. nextData' \in 1..(MaxInserts + 1)
      BY <1>1, UseAssumption DEF CallInsert, Data
  <2>4. heap' \subseteq Data /\ content' \in [Names -> Data \cup {NoData}]
      BY <1>1 DEF CallInsert, TypeInv
  <2>. QED
      BY <1>1, <2>2, <2>3, <2>4 DEF TypeInv, CallInsert, Outcome
<1>2. ASSUME NEW name \in Names, CallDelete(name)
      PROVE  TypeInv'
  <2>1. /\ ht \in Tables(Data) /\ SlotsFit(ht) /\ ht.len # 0 /\ ht' \in Delete(ht, name)
      BY <1>2 DEF TypeInv, CallDelete
  <2>2. ht' \in Tables(Data) /\ SlotsFit(ht')
      BY <2>1, DeleteFits
  <2>4. heap' \subseteq Data /\ content' \in [Names -> Data \cup {NoData}]
      BY <1>2 DEF CallDelete, TypeInv
  <2>. QED
      BY <1>2, <2>2, <2>4 DEF TypeInv, CallDelete, Outcome
<1>3. CASE CallOnNoSlots \/ DestroyHashTab \/ UNCHANGED vars
    BY <1>3 DEF CallOnNoSlots, DestroyHashTab, vars, TypeInv
<1>. QED
    BY <1>1, <1>2, <1>3 DEF Next

(* len and num keep the width of an unsigned int and every node hangs off  *)
(* a slot that ht->h has, even where a name of 50 characters or more is    *)
(* read back as another one and moves to the slot of that one in rescale.  *)
THEOREM TypeCorrect == Spec => []TypeOK
<1>1. Init => TypeInv
  <2>. SUFFICES ASSUME Init PROVE TypeInv
      OBVIOUS
  <2>1. ht = [nodes |-> {}, len |-> InitSize, num |-> 0]
      BY DEF Init, NewHashTab
  <2>2. ht \in Tables(Data) /\ SlotsFit(ht)
      BY <2>1, UintModPositive DEF Tables, Uint, SlotsFit
  <2>3. nextData \in 1..(MaxInserts + 1)
      BY UseAssumption DEF Init
  <2>. QED
      BY <2>2, <2>3 DEF Init, TypeInv
<1>2. TypeInv /\ [Next]_vars => TypeInv'
    BY StepTypes
<1>3. TypeInv => TypeOK
    BY DEF TypeInv, TypeOK, Tables, Node, Uint, SlotsFit
<1>. QED
    BY <1>1, <1>2, <1>3, PTL DEF Spec
=============================================================================
