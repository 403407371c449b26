----------------------------- MODULE CacheProofs -----------------------------
(***************************************************************************)
(* Theorems about Cache for any threads, any keys, any hash function, any  *)
(* size of the cache and of the table, and any lifetimes.                  *)
(***************************************************************************)
EXTENDS Cache, HashOpsProofs, Lemmas

-----------------------------------------------------------------------------
(* The linked list as a sequence. *)

LEMMA ListAsSet ==
    ASSUME NEW S, NEW q \in Seq(S)
    PROVE  /\ ToSet(q) = Elements(q) /\ Elements(q) \subseteq S
           /\ DOMAIN q = 1..Len(q) /\ Len(q) \in Nat
BY LenProperties DEF ToSet, Elements

(* RemoveAt closes the gap. *)
LEMMA RemoveAtShifts ==
    ASSUME NEW S, NEW q \in Seq(S), NEW i \in 1..Len(q)
    PROVE  /\ RemoveAt(q, i) \in Seq(S)
           /\ Len(RemoveAt(q, i)) = Len(q) - 1
           /\ \A j \in 1..(Len(q) - 1) : j < i => RemoveAt(q, i)[j] = q[j]
           /\ \A j \in 1..(Len(q) - 1) : j >= i => RemoveAt(q, i)[j] = q[j + 1]
<1>. DEFINE low == SubSeq(q, 1, i - 1)
            high == SubSeq(q, i + 1, Len(q))
<1>1. Len(q) \in Nat /\ \A j \in 1..Len(q) : q[j] \in S
    BY LenProperties
<1>2. /\ low \in Seq(S) /\ Len(low) = i - 1
      /\ \A j \in 1..(i - 1) : low[j] = q[j]
  <2>1. \A j \in 1..(i - 1) : q[j] \in S
      BY <1>1
  <2>2. 1 \in Int /\ i - 1 \in Int
      OBVIOUS
  <2>3. /\ low \in Seq(S) /\ Len(low) = IF 1 <= i - 1 THEN (i - 1) - 1 + 1 ELSE 0
        /\ \A j \in 1..((i - 1) - 1 + 1) : low[j] = q[1 + j - 1]
      BY <2>1, <2>2, SubSeqProperties
  <2>. HIDE DEF low
  <2>. QED
      BY <2>3
<1>3. /\ high \in Seq(S) /\ Len(high) = Len(q) - i
      /\ \A j \in 1..(Len(q) - i) : high[j] = q[i + j]
  <2>1. \A j \in (i + 1)..Len(q) : q[j] \in S
      BY <1>1
  <2>2. i + 1 \in Int /\ Len(q) \in Int
      BY <1>1
  <2>3. /\ high \in Seq(S)
        /\ Len(high) = IF i + 1 <= Len(q) THEN Len(q) - (i + 1) + 1 ELSE 0
        /\ \A j \in 1..(Len(q) - (i + 1) + 1) : high[j] = q[(i + 1) + j - 1]
      BY <2>1, <2>2, SubSeqProperties
  <2>. HIDE DEF high
  <2>. QED
      BY <1>1, <2>3
<1>4. RemoveAt(q, i) = low \o high
    BY DEF RemoveAt
<1>. HIDE DEF low, high
<1>5. /\ low \o high \in Seq(S)
      /\ Len(low \o high) = Len(low) + Len(high)
      /\ \A j \in 1..(Len(low) + Len(high)) :
            (low \o high)[j] = IF j <= Len(low) THEN low[j] ELSE high[j - Len(low)]
    BY <1>2, <1>3, ConcatProperties
<1>6. ASSUME NEW j \in 1..(Len(q) - 1), j < i PROVE (low \o high)[j] = q[j]
    BY <1>1, <1>2, <1>3, <1>5, <1>6
<1>7. ASSUME NEW j \in 1..(Len(q) - 1), j >= i PROVE (low \o high)[j] = q[j + 1]
  <2>1. j - (i - 1) \in 1..(Len(q) - i) /\ i + (j - (i - 1)) = j + 1
      BY <1>1, <1>7
  <2>2. (low \o high)[j] = high[j - (i - 1)]
      BY <1>1, <1>2, <1>3, <1>5, <1>7
  <2>. QED
      BY <1>3, <2>1, <2>2
<1>8. Len(low) + Len(high) = Len(q) - 1
    BY <1>1, <1>2, <1>3
<1>. QED
    BY <1>4, <1>5, <1>6, <1>7, <1>8

(* removeFromLinkList unlinks one node and no other. *)
LEMMA RemoveUnlinks ==
    ASSUME NEW S, NEW q \in Seq(S), NoRepeat(q), NEW a \in Elements(q)
    PROVE  /\ RemoveFromLinkList(q, a) \in Seq(S)
           /\ Len(RemoveFromLinkList(q, a)) = Len(q) - 1
           /\ Elements(RemoveFromLinkList(q, a)) = Elements(q) \ {a}
           /\ NoRepeat(RemoveFromLinkList(q, a))
           /\ \A i \in 1..Len(q) : q[i] = a => RemoveFromLinkList(q, a) = RemoveAt(q, i)
<1>1. DOMAIN q = 1..Len(q) /\ Len(q) \in Nat
    BY ListAsSet
<1>2. PICK i \in 1..Len(q) : q[i] = a
    BY DEF Elements
<1>3. (CHOOSE j \in DOMAIN q : q[j] = a) = i
    BY <1>1, <1>2 DEF NoRepeat
<1>4. RemoveFromLinkList(q, a) = RemoveAt(q, i)
    BY <1>3 DEF RemoveFromLinkList
<1>. DEFINE r == RemoveAt(q, i)
<1>5. /\ r \in Seq(S) /\ Len(r) = Len(q) - 1
      /\ \A j \in 1..(Len(q) - 1) : j < i => r[j] = q[j]
      /\ \A j \in 1..(Len(q) - 1) : j >= i => r[j] = q[j + 1]
    BY RemoveAtShifts
<1>. HIDE DEF r
<1>6. Elements(r) = Elements(q) \ {a}
  <2>1. ASSUME NEW b \in Elements(r) PROVE b \in Elements(q) \ {a}
    <3>1. PICK j \in 1..(Len(q) - 1) : r[j] = b
        BY <1>5 DEF Elements
    <3>2. CASE j < i
      <4>1. j \in 1..Len(q) /\ q[j] = b /\ j # i
          BY <1>1, <1>5, <3>1, <3>2
      <4>. QED
          BY <1>2, <4>1 DEF Elements, NoRepeat
    <3>3. CASE j >= i
      <4>1. j + 1 \in 1..Len(q) /\ q[j + 1] = b /\ j + 1 # i
          BY <1>1, <1>5, <3>1, <3>3
      <4>. QED
          BY <1>2, <4>1 DEF Elements, NoRepeat
    <3>. QED
        BY <3>2, <3>3
  <2>2. ASSUME NEW b \in Elements(q) \ {a} PROVE b \in Elements(r)
    <3>1. PICK j \in 1..Len(q) : q[j] = b
        BY DEF Elements
    <3>2. j # i
        BY <1>2, <3>1
    <3>3. CASE j < i
      <4>1. j \in 1..(Len(q) - 1) /\ r[j] = b
          BY <1>1, <1>5, <3>1, <3>3
      <4>. QED
          BY <1>5, <4>1 DEF Elements
    <3>4. CASE j > i
      <4>1. j - 1 \in 1..(Len(q) - 1) /\ j - 1 >= i /\ (j - 1) + 1 = j
          BY <1>1, <3>1, <3>4
      <4>2. r[j - 1] = b
          BY <1>5, <3>1, <4>1
      <4>. QED
          BY <1>5, <4>1, <4>2 DEF Elements
    <3>. QED
        BY <3>2, <3>3, <3>4
  <2>. QED
      BY <2>1, <2>2
<1>7. NoRepeat(r)
  <2>1. SUFFICES ASSUME NEW j \in 1..(Len(q) - 1), NEW k \in 1..(Len(q) - 1), r[j] = r[k]
                 PROVE  j = k
      BY <1>5 DEF NoRepeat
  <2>2. j \in 1..Len(q) /\ j + 1 \in 1..Len(q) /\ k \in 1..Len(q) /\ k + 1 \in 1..Len(q)
      BY <1>1
  <2>. QED
      BY <1>1, <1>5, <2>1, <2>2 DEF NoRepeat
<1>8. \A j \in 1..Len(q) : q[j] = a => j = i
    BY <1>2 DEF NoRepeat
<1>. QED
    BY <1>4, <1>5, <1>6, <1>7, <1>8 DEF r

(* putInHead links one node before all others. *)
LEMMA PutInHeadLinks ==
    ASSUME NEW S, NEW q \in Seq(S), NEW a \in S
    PROVE  /\ PutInHead(q, a) \in Seq(S)
           /\ Len(PutInHead(q, a)) = Len(q) + 1
           /\ PutInHead(q, a)[1] = a
           /\ \A j \in 2..(Len(q) + 1) : PutInHead(q, a)[j] = q[j - 1]
           /\ Elements(PutInHead(q, a)) = Elements(q) \cup {a}
           /\ NoRepeat(q) /\ a \notin Elements(q) => NoRepeat(PutInHead(q, a))
<1>. DEFINE r == PutInHead(q, a)
<1>1. Len(q) \in Nat
    BY ListAsSet
<1>2. <<a>> \in Seq(S) /\ Len(<<a>>) = 1 /\ <<a>>[1] = a
    OBVIOUS
<1>3. /\ r \in Seq(S) /\ Len(r) = 1 + Len(q)
      /\ \A j \in 1..(1 + Len(q)) : r[j] = IF j <= 1 THEN <<a>>[j] ELSE q[j - 1]
    BY <1>2, ConcatProperties DEF PutInHead
<1>. HIDE DEF r
<1>4. r[1] = a /\ \A j \in 2..(Len(q) + 1) : r[j] = q[j - 1]
    BY <1>1, <1>2, <1>3
<1>5. \A j \in 1..Len(r) : j = 1 \/ (j \in 2..(Len(q) + 1) /\ j - 1 \in 1..Len(q))
    BY <1>1, <1>3
<1>6. \A j \in 1..Len(q) : r[j + 1] = q[j] /\ j + 1 \in 1..Len(r)
  <2>1. SUFFICES ASSUME NEW j \in 1..Len(q) PROVE r[j + 1] = q[j] /\ j + 1 \in 1..Len(r)
      OBVIOUS
  <2>2. j + 1 \in 2..(Len(q) + 1) /\ (j + 1) - 1 = j /\ j + 1 \in 1..Len(r)
      BY <1>1, <1>3
  <2>. QED
      BY <1>4, <2>2
<1>7. 1 \in 1..Len(r)
    BY <1>1, <1>3
<1>8. Elements(r) = Elements(q) \cup {a}
  <2>1. Elements(r) \subseteq Elements(q) \cup {a}
      BY <1>4, <1>5 DEF Elements
  <2>2. Elements(q) \cup {a} \subseteq Elements(r)
      BY <1>4, <1>6, <1>7 DEF Elements
  <2>. QED
      BY <2>1, <2>2
<1>9. ASSUME NoRepeat(q), a \notin Elements(q) PROVE NoRepeat(r)
  <2>1. SUFFICES ASSUME NEW j \in 1..Len(r), NEW k \in 1..Len(r), r[j] = r[k] PROVE j = k
      BY DEF NoRepeat
  <2>2. CASE j = 1 \/ k = 1
      BY <1>4, <1>5, <1>9, <2>1, <2>2 DEF Elements
  <2>3. CASE j # 1 /\ k # 1
    <3>1. j - 1 = k - 1
        BY <1>4, <1>5, <1>9, <2>1, <2>3 DEF NoRepeat
    <3>. QED
        BY <3>1
  <2>. QED
      BY <2>2, <2>3
<1>. QED
    BY <1>3, <1>4, <1>8, <1>9 DEF r

-----------------------------------------------------------------------------
(* The list and the units, for keys of any length. *)

(* The units of u that are allocated are the ones linked in l, once each. *)
Owned(l, u) ==
    /\ l \in Seq(Addr) /\ NoRepeat(l)
    /\ u \in [Addr -> Unit \cup {Free}]
    /\ Elements(l) = {a \in Addr : u[a] # Free}

LEMMA OwnedMove ==
    ASSUME NEW l, NEW u, Owned(l, u), NEW a \in Addr, u[a] # Free,
           NEW v \in [Addr -> Unit \cup {Free}], v[a] # Free,
           \A b \in Addr \ {a} : v[b] = u[b]
    PROVE  /\ Owned(PutInHead(RemoveFromLinkList(l, a), a), v)
           /\ Len(PutInHead(RemoveFromLinkList(l, a), a)) = Len(l)
<1>. DEFINE r == RemoveFromLinkList(l, a)
<1>1. l \in Seq(Addr) /\ NoRepeat(l) /\ a \in Elements(l) /\ Len(l) \in Nat
    BY ListAsSet DEF Owned
<1>2. /\ r \in Seq(Addr) /\ Len(r) = Len(l) - 1 /\ NoRepeat(r)
      /\ Elements(r) = Elements(l) \ {a}
    BY <1>1, RemoveUnlinks
<1>. HIDE DEF r
<1>3. /\ PutInHead(r, a) \in Seq(Addr) /\ Len(PutInHead(r, a)) = Len(r) + 1
      /\ Elements(PutInHead(r, a)) = Elements(r) \cup {a}
      /\ NoRepeat(PutInHead(r, a))
  <2>1. r \in Seq(Addr) /\ NoRepeat(r) /\ a \notin Elements(r)
      BY <1>2
  <2>. QED
      BY <2>1, PutInHeadLinks
<1>4. Len(PutInHead(r, a)) = Len(l)
    BY <1>1, <1>2, <1>3
<1>5. Elements(PutInHead(r, a)) = {b \in Addr : v[b] # Free}
    BY <1>1, <1>2, <1>3 DEF Owned
<1>. QED
    BY <1>3, <1>4, <1>5 DEF Owned, r

LEMMA OwnedDrop ==
    ASSUME NEW l, NEW u, Owned(l, u), NEW a \in Addr, u[a] # Free
    PROVE  /\ Owned(RemoveFromLinkList(l, a), freeLinkNode(u, a))
           /\ Len(RemoveFromLinkList(l, a)) = Len(l) - 1 /\ Len(l) \in Nat \ {0}
<1>. DEFINE r == RemoveFromLinkList(l, a)
<1>1. l \in Seq(Addr) /\ NoRepeat(l) /\ a \in Elements(l) /\ Len(l) \in Nat
    BY ListAsSet DEF Owned
<1>2. Len(l) # 0
    BY <1>1 DEF Elements
<1>3. /\ r \in Seq(Addr) /\ Len(r) = Len(l) - 1 /\ NoRepeat(r)
      /\ Elements(r) = Elements(l) \ {a}
    BY <1>1, RemoveUnlinks
<1>. HIDE DEF r
<1>4. /\ freeLinkNode(u, a) \in [Addr -> Unit \cup {Free}]
      /\ freeLinkNode(u, a)[a] = Free
      /\ \A b \in Addr \ {a} : freeLinkNode(u, a)[b] = u[b]
    BY DEF Owned, freeLinkNode
<1>5. Elements(r) = {b \in Addr : freeLinkNode(u, a)[b] # Free}
    BY <1>3, <1>4 DEF Owned
<1>. QED
    BY <1>1, <1>2, <1>3, <1>4, <1>5 DEF Owned, r

LEMMA OwnedAdd ==
    ASSUME NEW l, NEW u, Owned(l, u), NEW a \in Addr, u[a] = Free, NEW v \in Unit
    PROVE  /\ Owned(PutInHead(l, a), [u EXCEPT ![a] = v])
           /\ Len(PutInHead(l, a)) = Len(l) + 1 /\ Len(l) \in Nat
<1>1. l \in Seq(Addr) /\ NoRepeat(l) /\ a \notin Elements(l) /\ Len(l) \in Nat
    BY ListAsSet DEF Owned
<1>2. /\ PutInHead(l, a) \in Seq(Addr) /\ Len(PutInHead(l, a)) = Len(l) + 1
      /\ Elements(PutInHead(l, a)) = Elements(l) \cup {a}
      /\ NoRepeat(PutInHead(l, a))
    BY <1>1, PutInHeadLinks
<1>. DEFINE w == [u EXCEPT ![a] = v]
<1>3. w \in [Addr -> Unit \cup {Free}] /\ w[a] = v /\ \A b \in Addr \ {a} : w[b] = u[b]
    BY DEF Owned
<1>4. v # Free
    BY CacheAssumption
<1>. HIDE DEF w
<1>5. Elements(PutInHead(l, a)) = {b \in Addr : w[b] # Free}
    BY <1>2, <1>3, <1>4 DEF Owned
<1>. QED
    BY <1>1, <1>2, <1>3, <1>5 DEF Owned, w

(* What holds whatever the keys: a table in which every node has a slot,   *)
(* a list that owns the units, and a counter that agrees with it.          *)
Shape ==
    /\ ht \in Tables(Addr) /\ SlotsFit(ht)
    /\ Owned(list, unit)
    /\ len \in 0..MaxSize /\ Len(list) <= MaxSize
    /\ sys # "destroyed" => len = Len(list)

Bounds ==
    /\ now \in 0..MaxTime
    /\ sys \in {"up", "destroyed", "crashed"}
    /\ key \in [Threads -> Keys \cup {Null}]
    /\ ptr \in [Threads -> Addr \cup {Null}]
    /\ res \in [Threads -> Values \cup {Null, Garbage}]
    /\ puts \in 0..MaxPuts
    /\ latest \in [Keys -> 0..MaxPuts]

TypeInv == Shape /\ Bounds

(* A node the table finds is in the table. *)
LEMMA SearchInAddr ==
    ASSUME TypeInv, NEW k \in Keys
    PROVE  Search(ht, k) \subseteq Addr /\ k \in Names
BY CacheAssumption DEF TypeInv, Shape, Tables, Node, Search, Found

(* A unit that is filled anew. *)
LEMMA Renewed ==
    ASSUME TypeInv, NEW k \in Keys, NEW ttl \in TTLs, puts < MaxPuts,
           NEW a \in Addr, unit[a] # Free,
           unit' = [unit EXCEPT ![a].data = NewData(k), ![a].saveTime = now, ![a].TTL = ttl]
    PROVE  /\ unit' \in [Addr -> Unit \cup {Free}] /\ unit'[a] # Free
           /\ unit'[a] = [key |-> unit[a].key, data |-> NewData(k), saveTime |-> now, TTL |-> ttl]
           /\ \A b \in Addr \ {a} : unit'[b] = unit[b]
<1>1. unit \in [Addr -> Unit \cup {Free}] /\ unit[a] \in Unit
    BY DEF TypeInv, Shape, Owned
<1>2. NewData(k) \in Values
    BY CacheAssumption DEF NewData, Values, TypeInv, Bounds
<1>3. now \in 0..MaxTime
    BY DEF TypeInv, Bounds
<1>. DEFINE new == [key |-> unit[a].key, data |-> NewData(k), saveTime |-> now, TTL |-> ttl]
<1>4. new \in Unit
    BY <1>1, <1>2, <1>3 DEF Unit
<1>5. unit'[a] = new
    BY <1>1 DEF Unit
<1>6. \A b \in Addr \ {a} : unit'[b] = unit[b]
    BY <1>1
<1>7. unit' \in [Addr -> Unit \cup {Free}]
  <2>1. DOMAIN unit' = Addr /\ unit' = [b \in Addr |-> unit'[b]]
      BY <1>1
  <2>2. \A b \in Addr : unit'[b] \in Unit \cup {Free}
      BY <1>1, <1>4, <1>5, <1>6
  <2>. QED
      BY <2>1, <2>2
<1>8. new # Free
    BY <1>4, CacheAssumption
<1>. QED
    BY <1>5, <1>6, <1>7, <1>8

(* The tail of a full list. *)
LEMMA TailListed ==
    ASSUME TypeInv, Len(list) # 0
    PROVE  /\ GetLastLinkNode(list) \in Addr /\ unit[GetLastLinkNode(list)] \in Unit
           /\ unit[GetLastLinkNode(list)] # Free
           /\ unit[GetLastLinkNode(list)].key \in Names
           /\ Len(list) \in 1..Len(list) /\ GetLastLinkNode(list) = list[Len(list)]
<1>1. list \in Seq(Addr) /\ Len(list) \in Nat
    BY ListAsSet DEF TypeInv, Shape, Owned
<1>2. Len(list) \in 1..Len(list)
    BY <1>1
<1>3. GetLastLinkNode(list) \in Elements(list)
    BY <1>2 DEF GetLastLinkNode, Last, Elements
<1>. QED
    BY <1>2, <1>3 DEF TypeInv, Shape, Owned, Unit, GetLastLinkNode, Last

(* There is room after an eviction. *)
LEMMA RoomShape ==
    ASSUME TypeInv, sys = "up", ht.len # 0, NEW room \in MakeRoom
    PROVE  /\ room.ht \in Tables(Addr) /\ SlotsFit(room.ht)
           /\ Owned(room.list, room.unit)
           /\ room.len = Len(room.list) /\ room.len \in Nat /\ room.len < MaxSize
<1>1. len = Len(list) /\ len \in 0..MaxSize /\ MaxSize \in Nat \ {0} /\ Owned(list, unit)
      /\ ht \in Tables(Addr) /\ SlotsFit(ht)
  <2>1. Cardinality(Addr) \in Nat
      BY FS_CardinalityType, CacheAssumption
  <2>. QED
      BY <2>1, CacheAssumption DEF TypeInv, Shape
<1>2. CASE len < MaxSize
  <2>1. room = [ht |-> ht, list |-> list, unit |-> unit, len |-> len]
      BY <1>2 DEF MakeRoom
  <2>. QED
      BY <1>1, <1>2, <2>1
<1>3. CASE ~(len < MaxSize)
  <2>. DEFINE last == GetLastLinkNode(list)
  <2>1. PICK h \in Delete(ht, unit[last].key) :
          room = [ht |-> h, list |-> RemoveFromLinkList(list, last),
                  unit |-> freeLinkNode(unit, last), len |-> len - 1]
      BY <1>3 DEF MakeRoom
  <2>2. Len(list) # 0
      BY <1>1, <1>3
  <2>3. last \in Addr /\ unit[last] # Free /\ unit[last].key \in Names
      BY <2>2, TailListed
  <2>. HIDE DEF last
  <2>4. h \in Tables(Addr) /\ SlotsFit(h)
      BY <1>1, <2>3, DeleteFits
  <2>5. /\ Owned(RemoveFromLinkList(list, last), freeLinkNode(unit, last))
        /\ Len(RemoveFromLinkList(list, last)) = Len(list) - 1
      BY <1>1, <2>3, OwnedDrop
  <2>6. /\ room.ht = h /\ room.list = RemoveFromLinkList(list, last)
        /\ room.unit = freeLinkNode(unit, last) /\ room.len = len - 1
      BY <2>1
  <2>7. len - 1 \in Nat /\ len - 1 < MaxSize
      BY <1>1, <1>3
  <2>. QED
      BY <1>1, <2>4, <2>5, <2>6, <2>7
<1>. QED
    BY <1>2, <1>3

(* What the cases of CachePut and CacheGet do to the shape of the cache. *)
LEMMA PutOverShape ==
    ASSUME TypeInv, sys = "up", ht.len # 0, puts < MaxPuts,
           NEW k \in Keys, NEW ttl \in TTLs, PutOver(k, ttl)
    PROVE  Shape'
<1>1. PICK a \in Search(ht, k) :
        /\ unit[a] # Free
        /\ unit' = [unit EXCEPT ![a].data = NewData(k),
                                ![a].saveTime = now, ![a].TTL = ttl]
        /\ list' = PutInHead(RemoveFromLinkList(list, a), a)
        /\ UNCHANGED <<ht, len, sys>>
    BY DEF PutOver
<1>2. a \in Addr
    BY SearchInAddr
<1>3. /\ unit' \in [Addr -> Unit \cup {Free}] /\ unit'[a] # Free
      /\ \A b \in Addr \ {a} : unit'[b] = unit[b]
    BY <1>1, <1>2, Renewed
<1>4. Owned(list', unit') /\ Len(list') = Len(list)
  <2>1. Owned(list, unit) /\ unit[a] # Free
      BY <1>1 DEF TypeInv, Shape
  <2>2. list' = PutInHead(RemoveFromLinkList(list, a), a)
      BY <1>1
  <2>. QED
      BY <1>2, <1>3, <2>1, <2>2, OwnedMove
<1>. QED
    BY <1>1, <1>4 DEF TypeInv, Shape

LEMMA PutNewShape ==
    ASSUME TypeInv, sys = "up", ht.len # 0, puts < MaxPuts,
           NEW k \in Keys, NEW ttl \in TTLs, PutNew(k, ttl)
    PROVE  Shape'
<1>1. PICK room \in MakeRoom, a \in Addr, kept \in KeptKey[k] :
        /\ room.ht.len # 0
        /\ room.unit[a] = Free
        /\ unit' = [room.unit EXCEPT ![a] = [key |-> kept, data |-> NewData(k),
                                             saveTime |-> now, TTL |-> ttl]]
        /\ list' = PutInHead(room.list, a)
        /\ ht' \in Insert(room.ht, k, a)
        /\ len' = room.len + 1
        /\ UNCHANGED sys
    BY DEF PutNew
<1>. DEFINE new == [key |-> kept, data |-> NewData(k), saveTime |-> now, TTL |-> ttl]
<1>2. new \in Unit /\ k \in Names
  <2>1. kept \in Names /\ k \in Names
      BY CacheAssumption
  <2>2. NewData(k) \in Values /\ now \in 0..MaxTime
      BY CacheAssumption DEF NewData, Values, TypeInv, Bounds
  <2>. QED
      BY <2>1, <2>2 DEF Unit
<1>. HIDE DEF new
<1>3. /\ room.ht \in Tables(Addr) /\ SlotsFit(room.ht) /\ Owned(room.list, room.unit)
      /\ room.len = Len(room.list) /\ room.len \in Nat /\ room.len < MaxSize
    BY RoomShape
<1>4. unit' = [room.unit EXCEPT ![a] = new]
    BY <1>1 DEF new
<1>5. Owned(list', unit') /\ Len(list') = Len(room.list) + 1
    BY <1>1, <1>2, <1>3, <1>4, OwnedAdd
<1>6. ht' \in Tables(Addr) /\ SlotsFit(ht')
    BY <1>1, <1>2, <1>3, InsertFits
<1>7. len' = Len(list') /\ len' \in 0..MaxSize /\ Len(list') <= MaxSize
  <2>1. MaxSize \in Nat
      BY FS_CardinalityType, CacheAssumption
  <2>. QED
      BY <1>1, <1>3, <1>5, <2>1
<1>. QED
    BY <1>5, <1>6, <1>7 DEF Shape

LEMMA GetStaleShape ==
    ASSUME TypeInv, sys = "up", ht.len # 0,
           NEW t \in Threads, NEW k \in Keys, GetStale(t, k)
    PROVE  Shape'
<1>1. PICK a \in Search(ht, k) :
        /\ unit[a] # Free /\ Stale(unit[a])
        /\ ht' \in Delete(ht, unit[a].key)
        /\ list' = RemoveFromLinkList(list, a)
        /\ unit' = freeLinkNode(unit, a)
        /\ len' = len - 1
        /\ sys' = IF DividedByZero(ht') THEN "crashed" ELSE sys
    BY DEF GetStale
<1>2. a \in Addr /\ Owned(list, unit) /\ ht \in Tables(Addr) /\ SlotsFit(ht)
    BY SearchInAddr DEF TypeInv, Shape
<1>3. unit[a].key \in Names
    BY <1>1, <1>2 DEF Owned, Unit
<1>4. ht' \in Tables(Addr) /\ SlotsFit(ht')
    BY <1>1, <1>2, <1>3, DeleteFits
<1>5. Owned(list', unit') /\ Len(list') = Len(list) - 1 /\ Len(list) \in Nat \ {0}
    BY <1>1, <1>2, OwnedDrop
<1>6. len = Len(list) /\ len \in 0..MaxSize /\ MaxSize \in Nat
    BY FS_CardinalityType, CacheAssumption DEF TypeInv, Shape
<1>7. len' = Len(list') /\ len' \in 0..MaxSize /\ Len(list') <= MaxSize
    BY <1>1, <1>5, <1>6
<1>. QED
    BY <1>4, <1>5, <1>7 DEF Shape

LEMMA GetHitShape ==
    ASSUME TypeInv, sys = "up", NEW t \in Threads, NEW k \in Keys, GetHit(t, k)
    PROVE  Shape' /\ \E a \in Addr : ptr' = [ptr EXCEPT ![t] = a]
<1>1. PICK a \in Search(ht, k) :
        /\ unit[a] # Free
        /\ list' = PutInHead(RemoveFromLinkList(list, a), a)
        /\ ptr' = [ptr EXCEPT ![t] = a]
        /\ UNCHANGED <<ht, unit, len, sys, res>>
    BY DEF GetHit
<1>2. a \in Addr /\ Owned(list, unit) /\ unit \in [Addr -> Unit \cup {Free}]
    BY SearchInAddr DEF TypeInv, Shape, Owned
<1>3. Owned(list', unit) /\ Len(list') = Len(list)
    BY <1>1, <1>2, OwnedMove
<1>. QED
    BY <1>1, <1>2, <1>3 DEF TypeInv, Shape

LEMMA TypeInit == Init => TypeInv
<1>. SUFFICES ASSUME Init PROVE TypeInv
    OBVIOUS
<1>1. MaxSize \in Nat
    BY FS_CardinalityType, CacheAssumption
<1>2. ht \in Tables(Addr) /\ SlotsFit(ht)
    BY UintModPositive, TableAssumption DEF Init, NewHashTab, Tables, SlotsFit, Uint
<1>3. Owned(list, unit) /\ Len(list) = 0
    BY DEF Init, Owned, NoRepeat, Elements
<1>4. Bounds
    BY CacheAssumption DEF Init, Bounds
<1>. QED
    BY <1>1, <1>2, <1>3, <1>4 DEF Init, TypeInv, Shape

LEMMA TypeStep == TypeInv /\ [Next]_vars => TypeInv'
<1>. SUFFICES ASSUME TypeInv, [Next]_vars PROVE TypeInv'
    OBVIOUS
<1>1. ASSUME NEW t \in Threads, NEW k \in Keys, CacheGet(t, k) PROVE TypeInv'
  <2>1. sys = "up" /\ ht.len # 0
      BY <1>1 DEF CacheGet, CanCall
  <2>2. key' = [key EXCEPT ![t] = k] /\ UNCHANGED <<now, puts, latest>>
      BY <1>1 DEF CacheGet
  <2>3. CASE GetMiss(t, k)
      BY <2>2, <2>3 DEF GetMiss, TypeInv, Shape, Bounds
  <2>4. CASE GetStale(t, k)
    <3>1. Shape'
        BY <2>1, <2>4, GetStaleShape
    <3>2. /\ res' = [res EXCEPT ![t] = Null] /\ ptr' = ptr
          /\ sys' \in {"up", "crashed"}
        BY <2>1, <2>4 DEF GetStale
    <3>. QED
        BY <2>2, <3>1, <3>2 DEF TypeInv, Bounds
  <2>5. CASE GetHit(t, k)
    <3>1. Shape' /\ sys' = sys /\ res' = res
        BY <2>1, <2>5, GetHitShape DEF GetHit
    <3>2. PICK a \in Addr : ptr' = [ptr EXCEPT ![t] = a]
        BY <2>1, <2>5, GetHitShape
    <3>. QED
        BY <2>2, <3>1, <3>2 DEF TypeInv, Bounds
  <2>. QED
      BY <1>1, <2>3, <2>4, <2>5 DEF CacheGet
<1>2. ASSUME NEW t \in Threads, NEW k \in Keys, NEW ttl \in TTLs, CachePut(t, k, ttl)
      PROVE  TypeInv'
  <2>1. sys = "up" /\ ht.len # 0 /\ puts < MaxPuts
      BY <1>2 DEF CachePut, CanCall
  <2>2. Shape' /\ sys' = sys
      BY <1>2, <2>1, PutOverShape, PutNewShape DEF CachePut, PutOver, PutNew
  <2>3. /\ puts' = puts + 1 /\ latest' = [latest EXCEPT ![k] = puts + 1]
        /\ UNCHANGED <<now, key, ptr, res>>
      BY <1>2 DEF CachePut
  <2>4. puts + 1 \in 0..MaxPuts
      BY <2>1, CacheAssumption DEF TypeInv, Bounds
  <2>. QED
      BY <2>2, <2>3, <2>4 DEF TypeInv, Bounds
<1>3. ASSUME NEW t \in Threads, CacheGetCopy(t) PROVE TypeInv'
  <2>1. /\ sys = "up" /\ ptr[t] # Null
        /\ res' = [res EXCEPT ![t] = IF unit[ptr[t]] = Free THEN Garbage
                                     ELSE unit[ptr[t]].data]
        /\ ptr' = [ptr EXCEPT ![t] = Null]
        /\ UNCHANGED <<ht, list, unit, len, now, sys, key, puts, latest>>
      BY <1>3 DEF CacheGetCopy
  <2>2. ptr[t] \in Addr
      BY <2>1 DEF TypeInv, Bounds
  <2>3. (IF unit[ptr[t]] = Free THEN Garbage ELSE unit[ptr[t]].data) \in Values \cup {Garbage}
      BY <2>2 DEF TypeInv, Shape, Owned, Unit
  <2>. QED
      BY <2>1, <2>3 DEF TypeInv, Shape, Bounds
<1>4. ASSUME NEW t \in Threads, CallCrashes(t) PROVE TypeInv'
  <2>1. sys = "up" /\ Crash
      BY <1>4 DEF CallCrashes
  <2>. QED
      BY <2>1 DEF Crash, TypeInv, Shape, Bounds
<1>5. CASE DestroyCache
  <2>1. /\ unit' = DestroyLinkList(unit, list) /\ list' = <<>> /\ sys' = "destroyed"
        /\ UNCHANGED <<ht, len, now, key, ptr, res, puts, latest>>
      BY <1>5 DEF DestroyCache
  <2>2. Elements(list) = ToSet(list) /\ Owned(list, unit)
      BY ListAsSet DEF TypeInv, Shape, Owned
  <2>3. unit' = [a \in Addr |-> Free]
      BY <2>1, <2>2 DEF DestroyLinkList, Owned
  <2>4. Owned(list', unit') /\ Len(list') = 0
      BY <2>1, <2>3 DEF Owned, NoRepeat, Elements
  <2>5. MaxSize \in Nat
      BY FS_CardinalityType, CacheAssumption
  <2>. QED
      BY <2>1, <2>4, <2>5 DEF TypeInv, Shape, Bounds
<1>6. CASE Tick
    BY <1>6, CacheAssumption DEF Tick, TypeInv, Shape, Bounds
<1>7. CASE UNCHANGED vars
    BY <1>7 DEF vars, TypeInv, Shape, Bounds
<1>. QED
    BY <1>1, <1>2, <1>3, <1>4, <1>5, <1>6, <1>7 DEF Next

(* The shape of the cache: the list owns the units and c->len counts them, *)
(* whatever the table says, so that even keys too long for a node cannot   *)
(* make CachePut or CacheGet (cache.c) lose or free a unit twice.          *)
THEOREM TypeInvariance == Spec => []TypeInv
<1>. QED
    BY TypeInit, TypeStep, PTL DEF Spec

(* TypeOK of Cache: every variable keeps its type and the cache never      *)
(* outgrows maxSize, whatever the length of the keys and in the ends of    *)
(* the cache (destroyed, crashed) too.                                     *)
THEOREM TypeCorrect == Spec => []TypeOK
<1>1. TypeInv => TypeOK
    BY DEF TypeInv, Shape, Bounds, Owned, Tables, Node, Uint, TypeOK
<1>. QED
    BY <1>1, TypeInvariance, PTL

(* Eviction, expiry and DestroyCache (cache.c) free exactly what they      *)
(* unlink: a unit is allocated if and only if its node is in the list, and *)
(* there once; c->len counts them.                                         *)
THEOREM ListOwns == Spec => []ListOwnsUnits
<1>1. TypeInv => ListOwnsUnits
  <2>1. SUFFICES ASSUME TypeInv PROVE ListOwnsUnits
      OBVIOUS
  <2>2. ToSet(list) = Elements(list) /\ DOMAIN list = 1..Len(list)
      BY <2>1, ListAsSet DEF TypeInv, Shape, Owned
  <2>. QED
      BY <2>1, <2>2 DEF TypeInv, Shape, Owned, NoRepeat, ListOwnsUnits
<1>. QED
    BY <1>1, TypeInvariance, PTL

-----------------------------------------------------------------------------
(* The list and the table, for keys that fit the nodes. *)

(* strncpy (newNode, CachePut) keeps keys of up to 49 characters whole. *)
KeysFit == ShortNames /\ \A k \in Keys : KeptKey[k] = {k}

(* The table h leads from the key of each listed unit to that unit, and    *)
(* nowhere else; con is what it holds.                                     *)
Indexes(h, con, l, u) ==
    /\ Stores(h, con, Addr, Null)
    /\ \A a \in Elements(l) : u[a].key \in Keys /\ con[u[a].key] = a
    /\ \A n \in Names : con[n] # Null => con[n] \in Elements(l) /\ u[con[n]].key = n

Indexed(h, l, u) == h.num = Len(l) /\ \E con : Indexes(h, con, l, u)

(* The keys of the listed units differ, so that there are few of them and  *)
(* the unsigned counter of the table does not wrap.                        *)
LEMMA FewListed ==
    ASSUME NEW h, NEW con, NEW l, NEW u, Owned(l, u), Indexes(h, con, l, u)
    PROVE  Len(l) \in Nat /\ Len(l) < UintMod
<1>1. Len(l) \in Nat /\ l \in Seq(Addr) /\ Elements(l) \subseteq Addr
    BY ListAsSet DEF Owned
<1>. DEFINE f == [i \in 1..Len(l) |-> u[l[i]].key]
<1>2. \A i \in 1..Len(l) : l[i] \in Elements(l)
    BY DEF Elements
<1>3. f \in [1..Len(l) -> Names]
    BY <1>2, CacheAssumption DEF Indexes
<1>4. ASSUME NEW i \in 1..Len(l), NEW j \in 1..Len(l), f[i] = f[j]
      PROVE  i = j
  <2>1. u[l[i]].key = u[l[j]].key
      BY <1>4
  <2>2. l[i] = l[j]
      BY <1>2, <2>1 DEF Indexes
  <2>. QED
      BY <2>2 DEF Owned, NoRepeat
<1>. HIDE DEF f
<1>5. f \in Injection(1..Len(l), Names)
    BY <1>3, <1>4 DEF Injection, IsInjective
<1>6. Cardinality(1..Len(l)) <= Cardinality(Names) /\ Cardinality(Names) \in Nat
    BY <1>5, FS_Injection, FS_CardinalityType, TableAssumption
<1>7. Cardinality(1..Len(l)) = Len(l)
  <2>1. Cardinality(1..Len(l)) = IF 1 > Len(l) THEN 0 ELSE Len(l) - 1 + 1
      BY <1>1, FS_Interval
  <2>. QED
      BY <1>1, <2>1
<1>. QED
    BY <1>1, <1>6, <1>7, TableAssumption

LEMMA DataListed ==
    ASSUME NEW h, NEW con, NEW l, NEW u, Owned(l, u), Indexes(h, con, l, u)
    PROVE  DataOf(h) = Elements(l)
<1>1. Elements(l) \subseteq Addr /\ Null \notin Addr /\ Keys \subseteq Names
    BY CacheAssumption DEF Owned
<1>2. h \in Tables(Addr) /\ Holds(h, con, Null)
    BY DEF Indexes, Stores
<1>3. \A n \in h.nodes : n.name \in Names /\ n.data \in Addr
    BY <1>2 DEF Tables, Node
<1>4. ASSUME NEW n \in h.nodes PROVE n.data \in Elements(l)
  <2>1. con[n.name] = n.data /\ n.data # Null /\ n.name \in Names
      BY <1>1, <1>2, <1>3 DEF Holds
  <2>. QED
      BY <2>1 DEF Indexes
<1>5. ASSUME NEW a \in Elements(l) PROVE a \in DataOf(h)
  <2>1. u[a].key \in Names /\ con[u[a].key] = a /\ a # Null
      BY <1>1 DEF Indexes
  <2>2. PICK n \in h.nodes : n.name = u[a].key
      BY <1>2, <2>1 DEF Holds
  <2>3. n.data = a
      BY <1>2, <2>1, <2>2 DEF Holds
  <2>. QED
      BY <2>3 DEF DataOf
<1>. QED
    BY <1>4, <1>5 DEF DataOf

(* search finds the listed unit of a key, or nothing. *)
LEMMA SearchListed ==
    ASSUME NEW h, NEW con, NEW l, NEW u, Owned(l, u), Indexes(h, con, l, u),
           h.len # 0, NEW k \in Names
    PROVE  Search(h, k) = {a \in Elements(l) : u[a].key = k}
<1>1. Elements(l) \subseteq Addr /\ Null \notin Addr
    BY CacheAssumption DEF Owned
<1>2. Search(h, k) = {con[k]} \ {Null}
  <2>1. Stores(h, con, Addr, Null)
      BY DEF Indexes
  <2>. QED
      BY <2>1, SearchIsContent
<1>. QED
    BY <1>1, <1>2 DEF Indexes

LEMMA IndexMove ==
    ASSUME NEW h, NEW l, NEW u, Indexed(h, l, u), NEW m, NEW v,
           Elements(m) = Elements(l), Len(m) = Len(l),
           \A a \in Elements(l) : v[a].key = u[a].key
    PROVE  Indexed(h, m, v)
<1>1. PICK con : Indexes(h, con, l, u)
    BY DEF Indexed
<1>2. Indexes(h, con, m, v)
    BY <1>1 DEF Indexes
<1>. QED
    BY <1>2 DEF Indexed

LEMMA IndexDrop ==
    ASSUME NEW h, NEW l, NEW u, Owned(l, u), Indexed(h, l, u), h.len # 0,
           NEW a \in Elements(l), NEW g \in Delete(h, u[a].key)
    PROVE  Indexed(g, RemoveFromLinkList(l, a), freeLinkNode(u, a))
<1>1. PICK con : Indexes(h, con, l, u)
    BY DEF Indexed
<1>. DEFINE n == u[a].key
            less == [con EXCEPT ![n] = Null]
            r == RemoveFromLinkList(l, a)
            v == freeLinkNode(u, a)
<1>2. a \in Addr /\ u[a] # Free /\ n \in Names /\ con[n] = a
    BY <1>1, CacheAssumption DEF Owned, Indexes
<1>3. Stores(h, con, Addr, Null) /\ con \in [Names -> Addr \cup {Null}]
    BY <1>1 DEF Indexes, Stores
<1>4. Stores(g, less, Addr, Null)
    BY <1>2, <1>3, DeleteHolds
<1>5. Elements(r) = Elements(l) \ {a}
    BY RemoveUnlinks DEF Owned
<1>6. \A b \in Elements(l) \ {a} : v[b] = u[b]
    BY DEF Owned, freeLinkNode
<1>7. less[n] = Null /\ \A m \in Names \ {n} : less[m] = con[m]
    BY <1>2, <1>3
<1>8. Len(r) = Len(l) - 1 /\ Len(l) \in Nat \ {0} /\ Len(l) < UintMod
    BY <1>1, <1>2, OwnedDrop, FewListed
<1>9. g.num = Len(r)
  <2>1. g.num = (h.num - 1) % UintMod
      BY DeleteNum
  <2>2. Len(l) - 1 \in 0..(UintMod - 1) /\ UintMod \in Nat
      BY <1>8, TableAssumption
  <2>3. (Len(l) - 1) % UintMod = Len(l) - 1
      BY <2>2, ModSmall
  <2>. QED
      BY <1>8, <2>1, <2>3 DEF Indexed
<1>. HIDE DEF n, less, r, v
<1>10. ASSUME NEW b \in Elements(r) PROVE v[b].key \in Keys /\ less[v[b].key] = b
  <2>1. b \in Elements(l) /\ b # a /\ v[b] = u[b]
      BY <1>5, <1>6
  <2>2. u[b].key \in Keys /\ con[u[b].key] = b
      BY <1>1, <2>1 DEF Indexes
  <2>3. u[b].key \in Names \ {n}
      BY <1>2, <2>1, <2>2, CacheAssumption
  <2>. QED
      BY <1>7, <2>1, <2>2, <2>3
<1>11. ASSUME NEW m \in Names, less[m] # Null
       PROVE  less[m] \in Elements(r) /\ v[less[m]].key = m
  <2>1. m # n /\ less[m] = con[m]
      BY <1>7, <1>11
  <2>2. con[m] \in Elements(l) /\ u[con[m]].key = m
      BY <1>1, <1>11, <2>1 DEF Indexes
  <2>3. con[m] # a
      BY <2>1, <2>2 DEF n
  <2>. QED
      BY <1>5, <1>6, <2>1, <2>2, <2>3
<1>12. Indexes(g, less, r, v)
    BY <1>4, <1>10, <1>11 DEF Indexes
<1>. QED
    BY <1>9, <1>12 DEF Indexed, r, v

LEMMA IndexAdd ==
    ASSUME KeysFit, NEW h, NEW l, NEW u, Owned(l, u), Indexed(h, l, u), h.len # 0,
           NEW k \in Keys, \A b \in Elements(l) : u[b].key # k,
           NEW a \in Addr, u[a] = Free, NEW unt \in Unit, unt.key = k,
           NEW g \in Insert(h, k, a)
    PROVE  Indexed(g, PutInHead(l, a), [u EXCEPT ![a] = unt])
<1>1. PICK con : Indexes(h, con, l, u)
    BY DEF Indexed
<1>. DEFINE more == [con EXCEPT ![k] = a]
            r == PutInHead(l, a)
            v == [u EXCEPT ![a] = unt]
<1>2. k \in Names /\ Null \notin Addr /\ a \notin Elements(l)
    BY CacheAssumption DEF Owned
<1>3. Stores(h, con, Addr, Null) /\ con \in [Names -> Addr \cup {Null}]
    BY <1>1 DEF Indexes, Stores
<1>4. a \notin DataOf(h)
    BY <1>1, <1>2, DataListed
<1>5. Stores(g, more, Addr, Null)
    BY <1>2, <1>3, <1>4, InsertHolds DEF KeysFit
<1>6. Elements(r) = Elements(l) \cup {a} /\ Len(r) = Len(l) + 1
  <2>1. l \in Seq(Addr)
      BY DEF Owned
  <2>. QED
      BY <2>1, PutInHeadLinks
<1>7. v[a] = unt /\ \A b \in Elements(l) : v[b] = u[b]
    BY <1>2 DEF Owned
<1>8. more[k] = a /\ \A m \in Names \ {k} : more[m] = con[m]
    BY <1>2, <1>3
<1>9. Owned(r, v)
    BY OwnedAdd
<1>. HIDE DEF more, r, v
<1>10. ASSUME NEW b \in Elements(r) PROVE v[b].key \in Keys /\ more[v[b].key] = b
  <2>1. CASE b = a
      BY <1>7, <1>8, <2>1
  <2>2. CASE b # a
    <3>1. b \in Elements(l) /\ v[b] = u[b]
        BY <1>6, <1>7, <2>2
    <3>2. u[b].key \in Keys /\ con[u[b].key] = b /\ u[b].key # k
        BY <1>1, <3>1 DEF Indexes
    <3>3. u[b].key \in Names \ {k}
        BY <3>2, CacheAssumption
    <3>. QED
        BY <1>8, <3>1, <3>2, <3>3
  <2>. QED
      BY <2>1, <2>2
<1>11. ASSUME NEW m \in Names, more[m] # Null
       PROVE  more[m] \in Elements(r) /\ v[more[m]].key = m
  <2>1. CASE m = k
      BY <1>6, <1>7, <1>8, <2>1
  <2>2. CASE m # k
    <3>1. con[m] = more[m] /\ con[m] # Null
        BY <1>8, <1>11, <2>2
    <3>2. con[m] \in Elements(l) /\ u[con[m]].key = m
        BY <1>1, <3>1 DEF Indexes
    <3>. QED
        BY <1>6, <1>7, <3>1, <3>2
  <2>. QED
      BY <2>1, <2>2
<1>12. Indexes(g, more, r, v)
    BY <1>5, <1>10, <1>11 DEF Indexes
<1>13. g.num = Len(r)
  <2>1. Search(h, k) = {}
      BY <1>1, <1>2, SearchListed
  <2>2. g.num = (h.num + 1) % UintMod
      BY <2>1, InsertNum
  <2>3. Len(r) \in Nat /\ Len(r) < UintMod
      BY <1>9, <1>12, FewListed
  <2>4. Len(r) \in 0..(UintMod - 1) /\ UintMod \in Nat
      BY <2>3, TableAssumption
  <2>5. Len(r) % UintMod = Len(r)
      BY <2>4, ModSmall
  <2>. QED
      BY <1>6, <2>2, <2>5 DEF Indexed
<1>. QED
    BY <1>12, <1>13 DEF Indexed, r, v

(* The inductive invariant: without the table's exact content a renewed,   *)
(* evicted or expired node might not be the one its key finds, and then    *)
(* neither the list nor the data of the other entries would be right.      *)
IndexInv == sys = "up" => Indexed(ht, list, unit)

Latest ==
    \A a \in Elements(list) :
        /\ unit[a].key \in Keys
        /\ unit[a].data = [for |-> unit[a].key, ver |-> latest[unit[a].key]]

CacheInv ==
    /\ TypeInv /\ IndexInv /\ Latest
    /\ \A t \in Threads : ptr[t] # Null => key[t] \in Keys

LEMMA FoundListed ==
    ASSUME CacheInv, sys = "up", ht.len # 0, NEW k \in Names
    PROVE  Search(ht, k) = {a \in Elements(list) : unit[a].key = k}
<1>1. PICK con : Indexes(ht, con, list, unit)
    BY DEF CacheInv, IndexInv, Indexed
<1>2. Owned(list, unit)
    BY DEF CacheInv, TypeInv, Shape
<1>. QED
    BY <1>1, <1>2, SearchListed

(* Two listed units have two keys. *)
LEMMA KeysDiffer ==
    ASSUME CacheInv, sys = "up", NEW a \in Elements(list), NEW b \in Elements(list),
           unit[a].key = unit[b].key
    PROVE  a = b
<1>1. PICK con : Indexes(ht, con, list, unit)
    BY DEF CacheInv, IndexInv, Indexed
<1>. QED
    BY <1>1 DEF Indexes

(* Eviction leaves the others as they were. *)
LEMMA RoomIndexed ==
    ASSUME CacheInv, sys = "up", ht.len # 0, NEW room \in MakeRoom
    PROVE  /\ Indexed(room.ht, room.list, room.unit)
           /\ Elements(room.list) \subseteq Elements(list)
           /\ \A b \in Elements(room.list) : room.unit[b] = unit[b]
           /\ len < MaxSize => room.list = list /\ room.unit = unit
           /\ ~(len < MaxSize) =>
                 /\ Len(list) # 0
                 /\ room.list = RemoveFromLinkList(list, GetLastLinkNode(list))
<1>1. Indexed(ht, list, unit) /\ Owned(list, unit) /\ TypeInv
    BY DEF CacheInv, IndexInv, TypeInv, Shape
<1>2. CASE len < MaxSize
  <2>1. room = [ht |-> ht, list |-> list, unit |-> unit, len |-> len]
      BY <1>2 DEF MakeRoom
  <2>. QED
      BY <1>1, <1>2, <2>1
<1>3. CASE ~(len < MaxSize)
  <2>. DEFINE last == GetLastLinkNode(list)
  <2>1. PICK h \in Delete(ht, unit[last].key) :
          room = [ht |-> h, list |-> RemoveFromLinkList(list, last),
                  unit |-> freeLinkNode(unit, last), len |-> len - 1]
      BY <1>3 DEF MakeRoom
  <2>2. Len(list) # 0
    <3>1. len = Len(list) /\ len \in 0..MaxSize
        BY DEF CacheInv, TypeInv, Shape
    <3>2. MaxSize \in Nat \ {0}
        BY FS_CardinalityType, CacheAssumption
    <3>. QED
        BY <1>3, <3>1, <3>2
  <2>3. last \in Elements(list)
      BY <1>1, <2>2, TailListed DEF Owned
  <2>4. room.list = RemoveFromLinkList(list, last)
      BY <2>1
  <2>. HIDE DEF last
  <2>5. Indexed(h, RemoveFromLinkList(list, last), freeLinkNode(unit, last))
      BY <1>1, <2>3, IndexDrop
  <2>6. Elements(RemoveFromLinkList(list, last)) = Elements(list) \ {last}
      BY <1>1, <2>3, RemoveUnlinks DEF Owned
  <2>7. \A b \in Elements(list) \ {last} : freeLinkNode(unit, last)[b] = unit[b]
      BY <1>1 DEF Owned, freeLinkNode
  <2>8. room.ht = h /\ room.unit = freeLinkNode(unit, last)
      BY <2>1
  <2>. QED
      BY <1>3, <2>2, <2>4, <2>5, <2>6, <2>7, <2>8 DEF last
<1>. QED
    BY <1>2, <1>3

(* What the cases of CachePut and CacheGet do to the index and the data. *)
LEMMA PutOverIndex ==
    ASSUME CacheInv, sys = "up", ht.len # 0, puts < MaxPuts,
           NEW k \in Keys, NEW ttl \in TTLs, PutOver(k, ttl)
    PROVE  \E a \in Elements(list) :
             /\ unit[a].key = k
             /\ list' = PutInHead(RemoveFromLinkList(list, a), a)
             /\ unit'[a] = [key |-> k, data |-> NewData(k), saveTime |-> now, TTL |-> ttl]
             /\ \A b \in Addr \ {a} : unit'[b] = unit[b]
             /\ Elements(list') = Elements(list) /\ Indexed(ht', list', unit')
<1>1. PICK a \in Search(ht, k) :
        /\ unit[a] # Free
        /\ unit' = [unit EXCEPT ![a].data = NewData(k),
                                ![a].saveTime = now, ![a].TTL = ttl]
        /\ list' = PutInHead(RemoveFromLinkList(list, a), a)
        /\ UNCHANGED <<ht, len, sys>>
    BY DEF PutOver
<1>2. TypeInv /\ Owned(list, unit) /\ Indexed(ht, list, unit) /\ k \in Names
    BY CacheAssumption DEF CacheInv, TypeInv, Shape, IndexInv
<1>3. a \in Elements(list) /\ unit[a].key = k /\ a \in Addr
    BY <1>2, FoundListed DEF Owned
<1>4. /\ unit' \in [Addr -> Unit \cup {Free}] /\ unit'[a] # Free
      /\ unit'[a] = [key |-> unit[a].key, data |-> NewData(k), saveTime |-> now, TTL |-> ttl]
      /\ \A b \in Addr \ {a} : unit'[b] = unit[b]
  <2>1. TypeInv /\ a \in Addr /\ unit[a] # Free
      BY <1>1, <1>2, <1>3
  <2>2. unit' = [unit EXCEPT ![a].data = NewData(k), ![a].saveTime = now, ![a].TTL = ttl]
      BY <1>1
  <2>. QED
      BY <2>1, <2>2, Renewed
<1>5. list' = PutInHead(RemoveFromLinkList(list, a), a) /\ ht' = ht /\ unit[a] # Free
    BY <1>1
<1>6. Owned(list', unit') /\ Len(list') = Len(list)
    BY <1>2, <1>3, <1>4, <1>5, OwnedMove
<1>7. Elements(list') = Elements(list)
    BY <1>2, <1>4, <1>5, <1>6 DEF Owned
<1>8. \A b \in Elements(list) : unit'[b].key = unit[b].key
    BY <1>2, <1>4 DEF Owned
<1>9. Indexed(ht', list', unit')
    BY <1>2, <1>5, <1>6, <1>7, <1>8, IndexMove
<1>. QED
    BY <1>3, <1>4, <1>5, <1>7, <1>9

LEMMA PutNewIndex ==
    ASSUME KeysFit, CacheInv, sys = "up", ht.len # 0, puts < MaxPuts,
           NEW k \in Keys, NEW ttl \in TTLs, PutNew(k, ttl)
    PROVE  \E room \in MakeRoom, a \in Addr :
             /\ \A b \in Elements(list) : unit[b].key # k
             /\ list' = PutInHead(room.list, a) /\ a \notin Elements(room.list)
             /\ unit'[a] = [key |-> k, data |-> NewData(k), saveTime |-> now, TTL |-> ttl]
             /\ \A b \in Elements(room.list) : unit'[b] = unit[b]
             /\ Elements(list') = Elements(room.list) \cup {a}
             /\ Indexed(ht', list', unit')
<1>1. PICK room \in MakeRoom, a \in Addr, kept \in KeptKey[k] :
        /\ room.ht.len # 0
        /\ room.unit[a] = Free
        /\ unit' = [room.unit EXCEPT ![a] = [key |-> kept, data |-> NewData(k),
                                             saveTime |-> now, TTL |-> ttl]]
        /\ list' = PutInHead(room.list, a)
        /\ ht' \in Insert(room.ht, k, a)
    BY DEF PutNew
<1>2. TypeInv /\ k \in Names
    BY CacheAssumption DEF CacheInv
<1>3. \A b \in Elements(list) : unit[b].key # k
    BY <1>2, FoundListed DEF PutNew
<1>. DEFINE new == [key |-> k, data |-> NewData(k), saveTime |-> now, TTL |-> ttl]
<1>4. unit' = [room.unit EXCEPT ![a] = new]
    BY <1>1 DEF KeysFit
<1>5. new \in Unit /\ new.key = k
  <2>1. NewData(k) \in Values /\ now \in 0..MaxTime
      BY <1>2, CacheAssumption DEF NewData, Values, TypeInv, Bounds
  <2>. QED
      BY <1>2, <2>1 DEF Unit
<1>. HIDE DEF new
<1>6. Owned(room.list, room.unit)
    BY <1>2, RoomShape
<1>7. /\ Indexed(room.ht, room.list, room.unit)
      /\ Elements(room.list) \subseteq Elements(list)
      /\ \A b \in Elements(room.list) : room.unit[b] = unit[b]
    BY RoomIndexed
<1>8. \A b \in Elements(room.list) : room.unit[b].key # k
    BY <1>3, <1>7
<1>9. Indexed(ht', list', unit')
    BY <1>1, <1>4, <1>5, <1>6, <1>7, <1>8, IndexAdd
<1>10. a \notin Elements(room.list) /\ Elements(room.list) \subseteq Addr
    BY <1>1, <1>6 DEF Owned
<1>11. unit'[a] = new /\ \A b \in Elements(room.list) : unit'[b] = unit[b]
    BY <1>4, <1>6, <1>7, <1>10 DEF Owned
<1>12. Elements(list') = Elements(room.list) \cup {a}
  <2>1. room.list \in Seq(Addr)
      BY <1>6 DEF Owned
  <2>2. Elements(PutInHead(room.list, a)) = Elements(room.list) \cup {a}
      BY <2>1, PutInHeadLinks
  <2>3. list' = PutInHead(room.list, a)
      BY <1>1
  <2>. QED
      BY <2>2, <2>3
<1>13. list' = PutInHead(room.list, a)
    BY <1>1
<1>. QED
    BY <1>3, <1>9, <1>10, <1>11, <1>12, <1>13 DEF new

LEMMA GetStaleIndex ==
    ASSUME CacheInv, sys = "up", ht.len # 0,
           NEW t \in Threads, NEW k \in Keys, GetStale(t, k)
    PROVE  \E a \in Elements(list) :
             /\ unit[a].key = k /\ Stale(unit[a])
             /\ list' = RemoveFromLinkList(list, a)
             /\ Elements(list') = Elements(list) \ {a}
             /\ \A b \in Elements(list') : unit'[b] = unit[b]
             /\ Indexed(ht', list', unit')
<1>1. PICK a \in Search(ht, k) :
        /\ unit[a] # Free /\ Stale(unit[a])
        /\ ht' \in Delete(ht, unit[a].key)
        /\ list' = RemoveFromLinkList(list, a)
        /\ unit' = freeLinkNode(unit, a)
    BY DEF GetStale
<1>2. Owned(list, unit) /\ Indexed(ht, list, unit) /\ k \in Names
    BY CacheAssumption DEF CacheInv, TypeInv, Shape, IndexInv
<1>3. a \in Elements(list) /\ unit[a].key = k /\ a \in Addr
    BY <1>2, FoundListed DEF Owned
<1>4. Indexed(ht', list', unit')
    BY <1>1, <1>2, <1>3, IndexDrop
<1>5. Elements(list') = Elements(list) \ {a}
    BY <1>1, <1>2, <1>3, RemoveUnlinks DEF Owned
<1>6. \A b \in Elements(list') : unit'[b] = unit[b]
    BY <1>1, <1>2, <1>5 DEF Owned, freeLinkNode
<1>. QED
    BY <1>1, <1>3, <1>4, <1>5, <1>6

LEMMA GetHitIndex ==
    ASSUME CacheInv, sys = "up", ht.len # 0,
           NEW t \in Threads, NEW k \in Keys, GetHit(t, k)
    PROVE  \E a \in Elements(list) :
             /\ unit[a].key = k /\ ~Stale(unit[a])
             /\ list' = PutInHead(RemoveFromLinkList(list, a), a)
             /\ ptr' = [ptr EXCEPT ![t] = a]
             /\ Elements(list') = Elements(list) /\ unit' = unit
             /\ Indexed(ht', list', unit')
<1>1. PICK a \in Search(ht, k) :
        /\ unit[a] # Free /\ ~Stale(unit[a])
        /\ list' = PutInHead(RemoveFromLinkList(list, a), a)
        /\ ptr' = [ptr EXCEPT ![t] = a]
        /\ UNCHANGED <<ht, unit, len, sys, res>>
    BY DEF GetHit
<1>2. Owned(list, unit) /\ Indexed(ht, list, unit) /\ k \in Names
    BY CacheAssumption DEF CacheInv, TypeInv, Shape, IndexInv
<1>3. a \in Elements(list) /\ unit[a].key = k /\ a \in Addr
    BY <1>2, FoundListed DEF Owned
<1>4. Owned(list', unit) /\ Len(list') = Len(list)
  <2>1. unit \in [Addr -> Unit \cup {Free}]
      BY <1>2 DEF Owned
  <2>. QED
      BY <1>1, <1>2, <1>3, <2>1, OwnedMove
<1>5. Elements(list') = Elements(list)
    BY <1>2, <1>4 DEF Owned
<1>6. Indexed(ht', list', unit')
    BY <1>1, <1>2, <1>4, <1>5, IndexMove
<1>. QED
    BY <1>1, <1>3, <1>5, <1>6

LEMMA CacheInit == Init => CacheInv
<1>. SUFFICES ASSUME Init PROVE CacheInv
    OBVIOUS
<1>1. TypeInv
    BY TypeInit
<1>2. Elements(list) = {} /\ Len(list) = 0
    BY DEF Init, Elements
<1>. DEFINE none == [n \in Names |-> Null]
<1>3. Stores(ht, none, Addr, Null)
  <2>1. ht \in Tables(Addr) /\ ht.nodes = {}
      BY <1>1 DEF TypeInv, Shape, Init, NewHashTab
  <2>. QED
      BY <2>1, CacheAssumption DEF Stores, SlotsRight, Holds
<1>4. Indexes(ht, none, list, unit)
    BY <1>2, <1>3 DEF Indexes
<1>5. ht.num = 0
    BY DEF Init, NewHashTab
<1>. HIDE DEF none
<1>6. Indexed(ht, list, unit)
    BY <1>2, <1>4, <1>5 DEF Indexed
<1>. QED
    BY <1>1, <1>2, <1>6 DEF CacheInv, IndexInv, Latest, Init

(* The data of an entry is the last put of its key. *)
LEMMA PutLatest ==
    ASSUME CacheInv, NEW k \in Keys, latest' = [latest EXCEPT ![k] = puts + 1],
           NEW a \in Elements(list'),
           unit'[a].key = k, unit'[a].data = NewData(k),
           \A b \in Elements(list') \ {a} :
              b \in Elements(list) /\ unit'[b] = unit[b] /\ unit[b].key # k
    PROVE  Latest'
<1>1. latest'[k] = puts + 1 /\ \A m \in Keys \ {k} : latest'[m] = latest[m]
    BY DEF CacheInv, TypeInv, Bounds
<1>2. ASSUME NEW b \in Elements(list')
      PROVE  /\ unit'[b].key \in Keys
             /\ unit'[b].data = [for |-> unit'[b].key, ver |-> latest'[unit'[b].key]]
  <2>1. CASE b = a
      BY <1>1, <2>1 DEF NewData
  <2>2. CASE b # a
    <3>1. /\ unit[b].key \in Keys \ {k} /\ unit'[b] = unit[b]
          /\ unit[b].data = [for |-> unit[b].key, ver |-> latest[unit[b].key]]
        BY <2>2 DEF CacheInv, Latest
    <3>. QED
        BY <1>1, <3>1
  <2>. QED
      BY <2>1, <2>2
<1>. QED
    BY <1>2 DEF Latest

LEMMA CacheStep == ASSUME KeysFit PROVE CacheInv /\ [Next]_vars => CacheInv'
<1>. SUFFICES ASSUME CacheInv, [Next]_vars PROVE CacheInv'
    OBVIOUS
<1>1. TypeInv'
    BY TypeStep DEF CacheInv
<1>. DEFINE PtrKeys == \A t \in Threads : ptr[t] # Null => key[t] \in Keys
<1>2. TypeInv /\ PtrKeys
    BY DEF CacheInv
<1>3. SUFFICES IndexInv' /\ Latest' /\ PtrKeys'
    BY <1>1 DEF CacheInv
<1>4. key \in [Threads -> Keys \cup {Null}] /\ ptr \in [Threads -> Addr \cup {Null}]
    BY <1>2 DEF TypeInv, Bounds
<1>5. ASSUME NEW t \in Threads, NEW k \in Keys, CacheGet(t, k)
      PROVE  IndexInv' /\ Latest' /\ PtrKeys'
  <2>1. sys = "up" /\ ht.len # 0
      BY <1>5 DEF CacheGet, CanCall
  <2>2. key' = [key EXCEPT ![t] = k] /\ latest' = latest
      BY <1>5 DEF CacheGet
  <2>3. key'[t] = k /\ \A s \in Threads \ {t} : key'[s] = key[s]
      BY <1>4, <2>2
  <2>4. CASE GetMiss(t, k)
    <3>1. UNCHANGED <<ht, list, unit, sys, ptr>>
        BY <2>4 DEF GetMiss
    <3>. QED
        BY <1>2, <2>2, <2>3, <3>1 DEF CacheInv, IndexInv, Latest
  <2>5. CASE GetStale(t, k)
    <3>1. PICK a \in Elements(list) :
            /\ Elements(list') = Elements(list) \ {a}
            /\ \A b \in Elements(list') : unit'[b] = unit[b]
            /\ Indexed(ht', list', unit')
        BY <2>1, <2>5, GetStaleIndex
    <3>2. Latest'
        BY <2>2, <3>1 DEF CacheInv, Latest
    <3>3. ptr' = ptr
        BY <2>5 DEF GetStale
    <3>. QED
        BY <1>2, <2>3, <3>1, <3>2, <3>3 DEF IndexInv
  <2>6. CASE GetHit(t, k)
    <3>1. PICK a \in Elements(list) :
            /\ ptr' = [ptr EXCEPT ![t] = a]
            /\ Elements(list') = Elements(list) /\ unit' = unit
            /\ Indexed(ht', list', unit')
        BY <2>1, <2>6, GetHitIndex
    <3>2. Latest'
        BY <2>2, <3>1 DEF CacheInv, Latest
    <3>3. \A s \in Threads \ {t} : ptr'[s] = ptr[s]
        BY <1>4, <3>1
    <3>. QED
        BY <1>2, <2>3, <3>1, <3>2, <3>3 DEF IndexInv
  <2>. QED
      BY <1>5, <2>4, <2>5, <2>6 DEF CacheGet
<1>6. ASSUME NEW t \in Threads, NEW k \in Keys, NEW ttl \in TTLs, CachePut(t, k, ttl)
      PROVE  IndexInv' /\ Latest' /\ PtrKeys'
  <2>1. sys = "up" /\ ht.len # 0 /\ puts < MaxPuts
      BY <1>6 DEF CachePut, CanCall
  <2>2. latest' = [latest EXCEPT ![k] = puts + 1] /\ key' = key /\ ptr' = ptr
      BY <1>6 DEF CachePut
  <2>3. PtrKeys'
      BY <1>2, <2>2
  <2>4. CASE PutOver(k, ttl)
    <3>1. PICK a \in Elements(list) :
            /\ unit[a].key = k
            /\ unit'[a] = [key |-> k, data |-> NewData(k), saveTime |-> now, TTL |-> ttl]
            /\ \A b \in Addr \ {a} : unit'[b] = unit[b]
            /\ Elements(list') = Elements(list) /\ Indexed(ht', list', unit')
        BY <2>1, <2>4, PutOverIndex
    <3>2. \A b \in Elements(list') \ {a} :
             b \in Elements(list) /\ unit'[b] = unit[b] /\ unit[b].key # k
        BY <1>2, <2>1, <3>1, KeysDiffer DEF TypeInv, Shape, Owned
    <3>3. unit'[a].key = k /\ unit'[a].data = NewData(k) /\ a \in Elements(list')
        BY <3>1
    <3>4. Latest'
        BY <2>2, <3>2, <3>3, PutLatest
    <3>. QED
        BY <2>3, <3>1, <3>4 DEF IndexInv
  <2>5. CASE PutNew(k, ttl)
    <3>1. PICK room \in MakeRoom, a \in Addr :
            /\ \A b \in Elements(list) : unit[b].key # k
            /\ a \notin Elements(room.list)
            /\ unit'[a] = [key |-> k, data |-> NewData(k), saveTime |-> now, TTL |-> ttl]
            /\ \A b \in Elements(room.list) : unit'[b] = unit[b]
            /\ Elements(list') = Elements(room.list) \cup {a}
            /\ Indexed(ht', list', unit')
        BY <2>1, <2>5, PutNewIndex
    <3>2. Elements(room.list) \subseteq Elements(list)
        BY <2>1, RoomIndexed
    <3>3. \A b \in Elements(list') \ {a} :
             b \in Elements(list) /\ unit'[b] = unit[b] /\ unit[b].key # k
        BY <3>1, <3>2
    <3>4. unit'[a].key = k /\ unit'[a].data = NewData(k) /\ a \in Elements(list')
        BY <3>1
    <3>5. Latest'
        BY <2>2, <3>3, <3>4, PutLatest
    <3>. QED
        BY <2>3, <3>1, <3>5 DEF IndexInv
  <2>. QED
      BY <1>6, <2>4, <2>5 DEF CachePut
<1>7. ASSUME NEW t \in Threads, CacheGetCopy(t) PROVE IndexInv' /\ Latest' /\ PtrKeys'
  <2>1. /\ ptr' = [ptr EXCEPT ![t] = Null]
        /\ UNCHANGED <<ht, list, unit, sys, key, latest>>
      BY <1>7 DEF CacheGetCopy
  <2>2. ptr'[t] = Null /\ \A s \in Threads \ {t} : ptr'[s] = ptr[s]
      BY <1>4, <2>1
  <2>. QED
      BY <1>2, <2>1, <2>2 DEF CacheInv, IndexInv, Latest
<1>8. ASSUME NEW t \in Threads, CallCrashes(t) PROVE IndexInv' /\ Latest' /\ PtrKeys'
    BY <1>2, <1>8 DEF CallCrashes, Crash, CacheInv, IndexInv, Latest
<1>9. CASE DestroyCache
  <2>1. sys' = "destroyed" /\ list' = <<>> /\ key' = key /\ ptr' = ptr
      BY <1>9 DEF DestroyCache
  <2>2. Elements(list') = {}
      BY <2>1 DEF Elements
  <2>. QED
      BY <1>2, <2>1, <2>2 DEF IndexInv, Latest
<1>10. CASE Tick
    BY <1>2, <1>10 DEF Tick, CacheInv, IndexInv, Latest
<1>11. CASE UNCHANGED vars
    BY <1>2, <1>11 DEF vars, CacheInv, IndexInv, Latest
<1>. QED
    BY <1>5, <1>6, <1>7, <1>8, <1>9, <1>10, <1>11 DEF Next

(* With keys that fit a node the table holds exactly the listed units,     *)
(* after any sequence of CachePut and CacheGet (cache.c).                  *)
THEOREM CacheInvariance == ASSUME KeysFit PROVE Spec => []CacheInv
<1>1. CacheInv /\ [Next]_vars => CacheInv'
    BY CacheStep
<1>. QED
    BY <1>1, CacheInit, PTL DEF Spec

(* The table and the list never disagree, as long as the keys fit a node:  *)
(* whatever CachePut and CacheGet (cache.c) renewed, moved, evicted or     *)
(* expired, each listed node is what its key finds, and search, rescale    *)
(* and the counter of the table know of nothing else.                      *)
THEOREM IndexAgrees == ASSUME KeysFit PROVE Spec => []IndexMatchesList
<1>1. CacheInv => IndexMatchesList
  <2>1. SUFFICES ASSUME CacheInv, sys = "up", ht.len # 0
                 PROVE  /\ \A a \in ToSet(list) : Search(ht, unit[a].key) = {a}
                        /\ {n.data : n \in ht.nodes} = ToSet(list)
                        /\ ht.num = Len(list)
      BY DEF IndexMatchesList
  <2>2. PICK con : Indexes(ht, con, list, unit)
      BY <2>1 DEF CacheInv, IndexInv, Indexed
  <2>3. Owned(list, unit) /\ ht.num = Len(list)
      BY <2>1 DEF CacheInv, TypeInv, Shape, IndexInv, Indexed
  <2>4. ToSet(list) = Elements(list)
      BY <2>3, ListAsSet DEF Owned
  <2>5. DataOf(ht) = Elements(list)
      BY <2>2, <2>3, DataListed
  <2>6. ASSUME NEW a \in Elements(list) PROVE Search(ht, unit[a].key) = {a}
    <3>1. unit[a].key \in Names
        BY <2>2, CacheAssumption DEF Indexes
    <3>2. Search(ht, unit[a].key) = {b \in Elements(list) : unit[b].key = unit[a].key}
        BY <2>1, <3>1, FoundListed
    <3>. QED
        BY <2>1, <3>2, KeysDiffer
  <2>. QED
      BY <2>3, <2>4, <2>5, <2>6 DEF DataOf
<1>. QED
    BY <1>1, CacheInvariance, PTL

(* An entry holds what CachePut stored last under its key (cache.h:39),    *)
(* whatever was renewed, evicted, expired or moved in between.             *)
THEOREM DataLatest == ASSUME KeysFit PROVE Spec => []EntriesLatest
<1>1. CacheInv => EntriesLatest
  <2>1. SUFFICES ASSUME CacheInv PROVE EntriesLatest
      OBVIOUS
  <2>2. ToSet(list) = Elements(list)
      BY <2>1, ListAsSet DEF CacheInv, TypeInv, Shape, Owned
  <2>. QED
      BY <2>1, <2>2 DEF CacheInv, Latest, EntriesLatest
<1>. QED
    BY <1>1, CacheInvariance, PTL

-----------------------------------------------------------------------------
(* The cache implements LruCache. *)

(* The units in the order of the list. *)
Entries(l, u) == [i \in DOMAIN l |-> u[l[i]]]

LEMMA EntriesInOrder ==
    ASSUME NEW l \in Seq(Addr), NEW u, \A a \in Elements(l) : u[a] \in Unit
    PROVE  /\ Entries(l, u) \in Seq(Unit) /\ Len(Entries(l, u)) = Len(l)
           /\ DOMAIN Entries(l, u) = 1..Len(l)
           /\ \A i \in 1..Len(l) : Entries(l, u)[i] = u[l[i]]
<1>1. DOMAIN l = 1..Len(l) /\ Len(l) \in Nat
    BY ListAsSet
<1>2. \A i \in 1..Len(l) : u[l[i]] \in Unit
    BY DEF Elements
<1>3. Entries(l, u) \in [1..Len(l) -> Unit]
    BY <1>1, <1>2 DEF Entries
<1>4. Entries(l, u) \in Seq(Unit) /\ Len(Entries(l, u)) = Len(l)
    BY <1>1, <1>3
<1>. QED
    BY <1>1, <1>3, <1>4 DEF Entries

LEMMA EntriesSame ==
    ASSUME NEW l \in Seq(Addr), NEW u, NEW v, \A a \in Elements(l) : v[a] = u[a]
    PROVE  Entries(l, v) = Entries(l, u)
<1>1. \A i \in DOMAIN l : v[l[i]] = u[l[i]]
    BY ListAsSet DEF Elements
<1>. QED
    BY <1>1 DEF Entries

LEMMA EntriesPut ==
    ASSUME NEW l \in Seq(Addr), NEW a \in Addr, NEW u, u[a] \in Unit,
           \A b \in Elements(l) : u[b] \in Unit
    PROVE  Entries(PutInHead(l, a), u) = <<u[a]>> \o Entries(l, u)
<1>. DEFINE e == Entries(l, u)
            p == PutInHead(l, a)
            x == u[a]
<1>1. /\ e \in Seq(Unit) /\ Len(e) = Len(l) /\ Len(l) \in Nat
      /\ \A i \in 1..Len(l) : e[i] = u[l[i]]
    BY EntriesInOrder, ListAsSet
<1>2. /\ p \in Seq(Addr) /\ Len(p) = Len(l) + 1 /\ p[1] = a
      /\ \A j \in 2..(Len(l) + 1) : p[j] = l[j - 1]
      /\ Elements(p) = Elements(l) \cup {a}
  <2>1. p \in Seq(Addr) /\ Len(p) = Len(l) + 1
      BY PutInHeadLinks
  <2>2. p[1] = a
      BY PutInHeadLinks
  <2>3. \A j \in 2..(Len(l) + 1) : p[j] = l[j - 1]
      BY PutInHeadLinks
  <2>4. Elements(p) = Elements(l) \cup {a}
      BY PutInHeadLinks
  <2>. QED
      BY <2>1, <2>2, <2>3, <2>4
<1>3. /\ Entries(p, u) \in Seq(Unit) /\ Len(Entries(p, u)) = Len(p)
      /\ \A i \in 1..Len(p) : Entries(p, u)[i] = u[p[i]]
    BY <1>2, EntriesInOrder
<1>. HIDE DEF e, p, x
<1>4. x \in Unit
    BY DEF x
<1>5. /\ <<x>> \o e \in Seq(Unit) /\ Len(<<x>> \o e) = 1 + Len(e)
      /\ \A j \in 1..(1 + Len(e)) : (<<x>> \o e)[j] = IF j <= 1 THEN <<x>>[j] ELSE e[j - 1]
  <2>1. <<x>> \in Seq(Unit) /\ Len(<<x>>) = 1
      BY <1>4
  <2>. QED
      BY <1>1, <2>1, ConcatProperties
<1>6. ASSUME NEW j \in 1..Len(p) PROVE Entries(p, u)[j] = (<<x>> \o e)[j]
  <2>1. CASE j = 1
    <3>1. (<<x>> \o e)[j] = x
        BY <1>1, <1>5, <2>1
    <3>. QED
        BY <1>2, <1>3, <2>1, <3>1 DEF x
  <2>2. CASE j # 1
    <3>1. j - 1 \in 1..Len(l) /\ j \in 2..(Len(l) + 1) /\ j \in 1..(1 + Len(e)) /\ ~(j <= 1)
        BY <1>1, <1>2, <2>2
    <3>2. (<<x>> \o e)[j] = e[j - 1]
        BY <1>5, <3>1
    <3>. QED
        BY <1>1, <1>2, <1>3, <3>1, <3>2
  <2>. QED
      BY <2>1, <2>2
<1>7. Len(Entries(p, u)) = Len(<<x>> \o e)
    BY <1>1, <1>2, <1>3, <1>5
<1>8. Entries(p, u) = <<x>> \o e
    BY <1>3, <1>5, <1>6, <1>7, SeqEqual
<1>. QED
    BY <1>8 DEF e, p, x

LEMMA EntriesRemove ==
    ASSUME NEW l \in Seq(Addr), NEW i \in 1..Len(l), NEW u,
           \A b \in Elements(l) : u[b] \in Unit
    PROVE  Entries(RemoveAt(l, i), u) = RemoveAt(Entries(l, u), i)
<1>. DEFINE e == Entries(l, u)
            r == RemoveAt(l, i)
            d == RemoveAt(e, i)
<1>1. /\ e \in Seq(Unit) /\ Len(e) = Len(l) /\ Len(l) \in Nat
      /\ \A j \in 1..Len(l) : e[j] = u[l[j]]
    BY EntriesInOrder, ListAsSet
<1>2. /\ r \in Seq(Addr) /\ Len(r) = Len(l) - 1
      /\ \A j \in 1..(Len(l) - 1) : j < i => r[j] = l[j]
      /\ \A j \in 1..(Len(l) - 1) : j >= i => r[j] = l[j + 1]
    BY RemoveAtShifts
<1>. HIDE DEF e, r
<1>3. /\ d \in Seq(Unit) /\ Len(d) = Len(e) - 1
      /\ \A j \in 1..(Len(e) - 1) : j < i => d[j] = e[j]
      /\ \A j \in 1..(Len(e) - 1) : j >= i => d[j] = e[j + 1]
  <2>1. i \in 1..Len(e)
      BY <1>1
  <2>. QED
      BY <1>1, <2>1, RemoveAtShifts
<1>. HIDE DEF d
<1>4. \A j \in 1..(Len(l) - 1) : j \in 1..Len(l) /\ j + 1 \in 1..Len(l)
    BY <1>1
<1>5. \A b \in Elements(r) : u[b] \in Unit
  <2>1. \A j \in 1..(Len(l) - 1) : r[j] \in Elements(l)
      BY <1>2, <1>4 DEF Elements
  <2>. QED
      BY <1>2, <2>1 DEF Elements
<1>6. /\ Entries(r, u) \in Seq(Unit) /\ Len(Entries(r, u)) = Len(l) - 1
      /\ \A j \in 1..(Len(l) - 1) : Entries(r, u)[j] = u[r[j]]
    BY <1>2, <1>5, EntriesInOrder
<1>7. ASSUME NEW j \in 1..(Len(l) - 1) PROVE Entries(r, u)[j] = d[j]
  <2>1. CASE j < i
    <3>1. r[j] = l[j] /\ d[j] = e[j] /\ e[j] = u[l[j]]
        BY <1>1, <1>2, <1>3, <1>4, <2>1
    <3>. QED
        BY <1>6, <3>1
  <2>2. CASE j >= i
    <3>1. r[j] = l[j + 1] /\ d[j] = e[j + 1]
        BY <1>1, <1>2, <1>3, <2>2
    <3>2. e[j + 1] = u[l[j + 1]]
        BY <1>1, <1>4
    <3>. QED
        BY <1>6, <3>1, <3>2
  <2>. QED
      BY <2>1, <2>2
<1>8. Entries(r, u) = d
    BY <1>1, <1>3, <1>6, <1>7, SeqEqual
<1>. QED
    BY <1>8 DEF e, r, d

LEMMA RemoveLast ==
    ASSUME NEW S, NEW q \in Seq(S), Len(q) # 0
    PROVE  RemoveAt(q, Len(q)) = Front(q)
<1>1. Len(q) \in Nat /\ \A i \in 1..(Len(q) - 1) : q[i] \in S
    BY LenProperties
<1>2. SubSeq(q, Len(q) + 1, Len(q)) = <<>>
    BY <1>1, SubSeqEmpty
<1>3. SubSeq(q, 1, Len(q) - 1) \in Seq(S)
    BY <1>1, SubSeqProperties
<1>. QED
    BY <1>2, <1>3, ConcatEmptySeq DEF RemoveAt, Front

(* What LruCache sees of a cache. *)
Pending == [t \in Threads |-> IF ptr[t] = Null THEN Null ELSE key[t]]

LEMMA UnitsListed ==
    ASSUME TypeInv
    PROVE  /\ list \in Seq(Addr) /\ NoRepeat(list) /\ Elements(list) \subseteq Addr
           /\ \A a \in Elements(list) : unit[a] \in Unit
BY DEF TypeInv, Shape, Owned

(* The abstract entries without the one of a key are the units without the *)
(* one that the table finds.                                               *)
LEMMA LruWithout ==
    ASSUME CacheInv, sys = "up", NEW a \in Elements(list), NEW k, unit[a].key = k
    PROVE  /\ Lru!Present(k)
           /\ Lru!Without(k) = Entries(RemoveFromLinkList(list, a), unit)
           /\ \E i \in DOMAIN Entries(list, unit) : Entries(list, unit)[i] = unit[a]
<1>. DEFINE E == Entries(list, unit)
<1>1. /\ list \in Seq(Addr) /\ NoRepeat(list) /\ \A b \in Elements(list) : unit[b] \in Unit
    BY UnitsListed DEF CacheInv
<1>2. DOMAIN E = 1..Len(list) /\ \A i \in 1..Len(list) : E[i] = unit[list[i]]
    BY <1>1, EntriesInOrder
<1>3. PICK i \in 1..Len(list) : list[i] = a
    BY DEF Elements
<1>4. E[i] = unit[a] /\ E[i].key = k /\ i \in DOMAIN E
    BY <1>2, <1>3
<1>5. ASSUME NEW j \in DOMAIN E, E[j].key = k PROVE j = i
  <2>1. j \in 1..Len(list) /\ unit[list[j]].key = k /\ list[j] \in Elements(list)
      BY <1>2, <1>5 DEF Elements
  <2>2. list[j] = a
      BY <2>1, KeysDiffer
  <2>. QED
      BY <1>1, <1>3, <2>1, <2>2 DEF NoRepeat
<1>6. (CHOOSE j \in DOMAIN E : E[j].key = k) = i
    BY <1>4, <1>5
<1>7. RemoveFromLinkList(list, a) = RemoveAt(list, i)
    BY <1>1, <1>3, RemoveUnlinks
<1>8. Entries(RemoveAt(list, i), unit) = RemoveAt(E, i)
    BY <1>1, EntriesRemove
<1>9. Lru!Present(k) <=> \E j \in DOMAIN E : E[j].key = k
    BY DEF Lru!Present, Entries
<1>10. Lru!Present(k)
    BY <1>4, <1>9
<1>11. Lru!Without(k) = RemoveAt(E, CHOOSE j \in DOMAIN E : E[j].key = k)
    BY <1>10 DEF Lru!Without, Lru!RemoveAt, RemoveAt, Entries
<1>. HIDE DEF E
<1>12. Lru!Without(k) = Entries(RemoveFromLinkList(list, a), unit)
    BY <1>6, <1>7, <1>8, <1>11
<1>. QED
    BY <1>4, <1>10, <1>12 DEF E

LEMMA LruPutOver ==
    ASSUME CacheInv, sys = "up", ht.len # 0, puts < MaxPuts, now' = now, Pending' = Pending,
           NEW k \in Keys, NEW ttl \in TTLs, PutOver(k, ttl)
    PROVE  Lru!Put(k, NewData(k), ttl)
<1>. DEFINE new == [key |-> k, data |-> NewData(k), saveTime |-> now, TTL |-> ttl]
<1>1. PICK a \in Elements(list) :
        /\ unit[a].key = k
        /\ list' = PutInHead(RemoveFromLinkList(list, a), a)
        /\ unit'[a] = new
        /\ \A b \in Addr \ {a} : unit'[b] = unit[b]
    BY PutOverIndex
<1>. DEFINE r == RemoveFromLinkList(list, a)
<1>2. /\ list \in Seq(Addr) /\ NoRepeat(list) /\ Elements(list) \subseteq Addr
      /\ \A b \in Elements(list) : unit[b] \in Unit
    BY UnitsListed DEF CacheInv
<1>3. r \in Seq(Addr) /\ Elements(r) = Elements(list) \ {a}
    BY <1>2, RemoveUnlinks
<1>4. new \in Unit
  <2>1. NewData(k) \in Values /\ now \in 0..MaxTime /\ k \in Names
      BY CacheAssumption DEF NewData, Values, CacheInv, TypeInv, Bounds
  <2>. QED
      BY <2>1 DEF Unit
<1>. HIDE DEF new, r
<1>5. \A b \in Elements(r) : unit'[b] = unit[b] /\ unit'[b] \in Unit
    BY <1>1, <1>2, <1>3
<1>6. Entries(list', unit') = <<new>> \o Entries(r, unit')
  <2>1. list' = PutInHead(r, a) /\ a \in Addr /\ unit'[a] \in Unit /\ unit'[a] = new
      BY <1>1, <1>2, <1>4 DEF r
  <2>2. Entries(PutInHead(r, a), unit') = <<unit'[a]>> \o Entries(r, unit')
      BY <1>3, <1>5, <2>1, EntriesPut
  <2>. QED
      BY <2>1, <2>2
<1>7. Entries(r, unit') = Entries(r, unit)
    BY <1>3, <1>5, EntriesSame
<1>8. Lru!Present(k) /\ Lru!Without(k) = Entries(r, unit)
    BY <1>1, LruWithout DEF r
<1>9. Entries(list', unit') = <<new>> \o Lru!Without(k)
    BY <1>6, <1>7, <1>8
<1>. QED
    BY <1>8, <1>9 DEF Lru!Put, Entries, new, Pending

LEMMA LruPutNew ==
    ASSUME KeysFit, CacheInv, sys = "up", ht.len # 0, puts < MaxPuts,
           now' = now, Pending' = Pending,
           NEW k \in Keys, NEW ttl \in TTLs, PutNew(k, ttl)
    PROVE  Lru!Put(k, NewData(k), ttl)
<1>. DEFINE new == [key |-> k, data |-> NewData(k), saveTime |-> now, TTL |-> ttl]
            E == Entries(list, unit)
<1>1. PICK room \in MakeRoom, a \in Addr :
        /\ \A b \in Elements(list) : unit[b].key # k
        /\ list' = PutInHead(room.list, a) /\ a \notin Elements(room.list)
        /\ unit'[a] = new
        /\ \A b \in Elements(room.list) : unit'[b] = unit[b]
    BY PutNewIndex
<1>2. /\ list \in Seq(Addr) /\ NoRepeat(list) /\ Elements(list) \subseteq Addr
      /\ \A b \in Elements(list) : unit[b] \in Unit
    BY UnitsListed DEF CacheInv
<1>3. /\ E \in Seq(Unit) /\ Len(E) = Len(list) /\ DOMAIN E = 1..Len(list)
      /\ \A i \in 1..Len(list) : E[i] = unit[list[i]]
    BY <1>2, EntriesInOrder
<1>4. new \in Unit
  <2>1. NewData(k) \in Values /\ now \in 0..MaxTime /\ k \in Names
      BY CacheAssumption DEF NewData, Values, CacheInv, TypeInv, Bounds
  <2>. QED
      BY <2>1 DEF Unit
<1>5. room.list \in Seq(Addr) /\ Elements(room.list) \subseteq Elements(list)
    BY RoomShape, RoomIndexed DEF CacheInv, Owned
<1>. HIDE DEF new
<1>6. \A b \in Elements(room.list) : unit'[b] \in Unit
    BY <1>1, <1>2, <1>5
<1>7. Entries(list', unit') = <<new>> \o Entries(room.list, unit)
  <2>1. unit'[a] \in Unit /\ unit'[a] = new
      BY <1>1, <1>4
  <2>2. Entries(PutInHead(room.list, a), unit') = <<unit'[a]>> \o Entries(room.list, unit')
      BY <1>5, <1>6, <2>1, EntriesPut
  <2>3. Entries(room.list, unit') = Entries(room.list, unit)
      BY <1>1, <1>5, EntriesSame
  <2>4. list' = PutInHead(room.list, a)
      BY <1>1
  <2>. QED
      BY <2>1, <2>2, <2>3, <2>4
<1>8. ~Lru!Present(k)
  <2>1. Lru!Present(k) <=> \E i \in DOMAIN E : E[i].key = k
      BY DEF Lru!Present, Entries
  <2>2. \A i \in 1..Len(list) : unit[list[i]].key # k
      BY <1>1 DEF Elements
  <2>. HIDE DEF E
  <2>. QED
      BY <1>3, <2>1, <2>2
<1>9. len = Len(list)
    BY DEF CacheInv, TypeInv, Shape
<1>10. CASE len < MaxSize
  <2>1. Entries(room.list, unit) = E
      BY <1>10, RoomIndexed
  <2>2. Lru!Without(k) = E
      BY <1>8 DEF Lru!Without, Entries
  <2>3. Len(E) < MaxSize
      BY <1>3, <1>9, <1>10
  <2>4. Entries(list', unit') = <<new>> \o Lru!Without(k)
      BY <1>7, <2>1, <2>2
  <2>. QED
      BY <2>3, <2>4 DEF Lru!Put, Entries, new, Pending
<1>11. CASE ~(len < MaxSize)
  <2>1. Len(list) # 0 /\ room.list = RemoveFromLinkList(list, GetLastLinkNode(list))
      BY <1>11, RoomIndexed
  <2>2. /\ GetLastLinkNode(list) \in Elements(list) /\ Len(list) \in 1..Len(list)
        /\ list[Len(list)] = GetLastLinkNode(list)
      BY <2>1, TailListed DEF CacheInv, Elements
  <2>3. room.list = RemoveAt(list, Len(list))
      BY <1>2, <2>1, <2>2, RemoveUnlinks
  <2>4. Entries(RemoveAt(list, Len(list)), unit) = RemoveAt(E, Len(list))
      BY <1>2, <2>2, EntriesRemove
  <2>5. RemoveAt(E, Len(E)) = Front(E)
      BY <1>3, <2>1, RemoveLast
  <2>6. ~(Len(E) < MaxSize)
      BY <1>3, <1>9, <1>11
  <2>7. Entries(list', unit') = <<new>> \o Front(E)
      BY <1>3, <1>7, <2>3, <2>4, <2>5
  <2>. QED
      BY <1>8, <2>6, <2>7 DEF Lru!Put, Lru!Front, Front, Entries, new, Pending
<1>. QED
    BY <1>10, <1>11

LEMMA LruGetStale ==
    ASSUME CacheInv, sys = "up", ht.len # 0, now' = now, Pending' = Pending,
           NEW t \in Threads, NEW k \in Keys, GetStale(t, k)
    PROVE  Lru!Expire(k)
<1>. DEFINE E == Entries(list, unit)
<1>1. PICK a \in Elements(list) :
        /\ unit[a].key = k /\ Stale(unit[a])
        /\ list' = RemoveFromLinkList(list, a)
        /\ \A b \in Elements(list') : unit'[b] = unit[b]
    BY GetStaleIndex
<1>2. list \in Seq(Addr) /\ NoRepeat(list)
    BY UnitsListed DEF CacheInv
<1>3. RemoveFromLinkList(list, a) \in Seq(Addr)
    BY <1>2, RemoveUnlinks
<1>4. Entries(list', unit') = Entries(RemoveFromLinkList(list, a), unit)
    BY <1>1, <1>3, EntriesSame
<1>5. Lru!Without(k) = Entries(RemoveFromLinkList(list, a), unit)
    BY <1>1, LruWithout
<1>6. PICK i \in DOMAIN E : E[i] = unit[a]
    BY <1>1, LruWithout
<1>7. E[i].key = k /\ now - E[i].saveTime > E[i].TTL
    BY <1>1, <1>6 DEF Stale
<1>8. Entries(list', unit') = Lru!Without(k)
    BY <1>4, <1>5
<1>. QED
    BY <1>7, <1>8 DEF Lru!Expire, Entries, Pending

LEMMA LruGetHit ==
    ASSUME CacheInv, sys = "up", ht.len # 0, now' = now, NEW t \in Threads, ptr[t] = Null,
           NEW k \in Keys, key' = [key EXCEPT ![t] = k], GetHit(t, k)
    PROVE  Lru!Hit(t, k)
<1>. DEFINE E == Entries(list, unit)
<1>1. PICK a \in Elements(list) :
        /\ unit[a].key = k /\ ~Stale(unit[a])
        /\ list' = PutInHead(RemoveFromLinkList(list, a), a)
        /\ ptr' = [ptr EXCEPT ![t] = a]
        /\ unit' = unit
    BY GetHitIndex
<1>2. /\ list \in Seq(Addr) /\ NoRepeat(list) /\ Elements(list) \subseteq Addr
      /\ \A b \in Elements(list) : unit[b] \in Unit
    BY UnitsListed DEF CacheInv
<1>3. /\ RemoveFromLinkList(list, a) \in Seq(Addr)
      /\ Elements(RemoveFromLinkList(list, a)) = Elements(list) \ {a}
    BY <1>2, RemoveUnlinks
<1>4. Entries(PutInHead(RemoveFromLinkList(list, a), a), unit)
        = <<unit[a]>> \o Entries(RemoveFromLinkList(list, a), unit)
  <2>1. \A b \in Elements(RemoveFromLinkList(list, a)) : unit[b] \in Unit
      BY <1>2, <1>3
  <2>2. a \in Addr /\ unit[a] \in Unit
      BY <1>2
  <2>. QED
      BY <1>3, <2>1, <2>2, EntriesPut
<1>5. Lru!Without(k) = Entries(RemoveFromLinkList(list, a), unit)
    BY <1>1, LruWithout
<1>6. PICK i \in DOMAIN E : E[i] = unit[a]
    BY <1>1, LruWithout
<1>7. E[i].key = k /\ now - E[i].saveTime <= E[i].TTL
  <2>1. /\ unit[a].saveTime \in Int /\ unit[a].TTL \in Int /\ now \in Int
    <3>1. unit[a] \in Unit
        BY <1>2
    <3>2. unit[a].saveTime \in 0..MaxTime /\ unit[a].TTL \in TTLs
        BY <3>1 DEF Unit
    <3>3. now \in 0..MaxTime
        BY DEF CacheInv, TypeInv, Bounds
    <3>4. unit[a].TTL \in Int
        BY <3>2, CacheAssumption
    <3>5. \A n \in 0..MaxTime : n \in Int
        OBVIOUS
    <3>. QED
        BY <3>2, <3>3, <3>4, <3>5
  <2>2. ~(now - unit[a].saveTime > unit[a].TTL)
      BY <1>1 DEF Stale
  <2>3. now - unit[a].saveTime <= unit[a].TTL
      BY <2>1, <2>2
  <2>. QED
      BY <1>1, <1>6, <2>3
<1>8. Entries(list', unit') = <<E[i]>> \o Lru!Without(k)
    BY <1>1, <1>4, <1>5, <1>6
<1>9. Pending' = [Pending EXCEPT ![t] = k] /\ Pending[t] = Null
  <2>1. key \in [Threads -> Keys \cup {Null}] /\ ptr \in [Threads -> Addr \cup {Null}]
      BY DEF CacheInv, TypeInv, Bounds
  <2>2. a # Null
      BY <1>2, CacheAssumption
  <2>3. ptr'[t] = a /\ key'[t] = k
      BY <1>1, <2>1
  <2>4. \A s \in Threads \ {t} : ptr'[s] = ptr[s] /\ key'[s] = key[s]
      BY <1>1, <2>1
  <2>. QED
      BY <2>2, <2>3, <2>4 DEF Pending
<1>. QED
    BY <1>6, <1>7, <1>8, <1>9 DEF Lru!Hit, Entries, Pending

LEMMA LruInit == Init => Lru!Init
BY DEF Init, Lru!Init

LEMMA LruStep == ASSUME KeysFit PROVE CacheInv /\ [Next]_vars => [Lru!Next]_Lru!vars
<1>. SUFFICES ASSUME CacheInv, [Next]_vars PROVE [Lru!Next]_Lru!vars
    OBVIOUS
<1>1. key \in [Threads -> Keys \cup {Null}] /\ ptr \in [Threads -> Addr \cup {Null}]
    BY DEF CacheInv, TypeInv, Bounds
<1>2. ASSUME Pending' = Pending, list' = list, unit' = unit, now' = now
      PROVE  UNCHANGED Lru!vars
    BY <1>2 DEF Lru!vars, Pending
<1>3. ASSUME NEW t \in Threads, NEW k \in Keys, CacheGet(t, k) PROVE [Lru!Next]_Lru!vars
  <2>1. sys = "up" /\ ht.len # 0 /\ ptr[t] = Null
      BY <1>3 DEF CacheGet, CanCall
  <2>2. key' = [key EXCEPT ![t] = k] /\ now' = now
      BY <1>3 DEF CacheGet
  <2>3. ASSUME ptr' = ptr PROVE Pending' = Pending
    <3>1. \A s \in Threads : ptr[s] # Null => key'[s] = key[s]
        BY <1>1, <2>1, <2>2
    <3>. QED
        BY <2>3, <3>1 DEF Pending
  <2>4. CASE GetMiss(t, k)
      BY <1>2, <2>2, <2>3, <2>4 DEF GetMiss
  <2>5. CASE GetStale(t, k)
    <3>1. Pending' = Pending
        BY <2>3, <2>5 DEF GetStale
    <3>2. Lru!Expire(k)
        BY <2>1, <2>2, <2>5, <3>1, LruGetStale
    <3>. QED
        BY <3>2 DEF Lru!Next
  <2>6. CASE GetHit(t, k)
    <3>1. Lru!Hit(t, k)
        BY <2>1, <2>2, <2>6, LruGetHit
    <3>. QED
        BY <3>1 DEF Lru!Next
  <2>. QED
      BY <1>3, <2>4, <2>5, <2>6 DEF CacheGet
<1>4. ASSUME NEW t \in Threads, NEW k \in Keys, NEW ttl \in TTLs, CachePut(t, k, ttl)
      PROVE  [Lru!Next]_Lru!vars
  <2>1. sys = "up" /\ ht.len # 0 /\ puts < MaxPuts /\ now' = now /\ Pending' = Pending
      BY <1>4 DEF CachePut, CanCall, Pending
  <2>2. PutOver(k, ttl) \/ PutNew(k, ttl)
      BY <1>4 DEF CachePut
  <2>3. Lru!Put(k, NewData(k), ttl)
      BY <2>1, <2>2, LruPutOver, LruPutNew
  <2>4. NewData(k) \in Values
      BY <2>1, CacheAssumption DEF NewData, Values, CacheInv, TypeInv, Bounds
  <2>. QED
      BY <2>3, <2>4 DEF Lru!Next
<1>5. ASSUME NEW t \in Threads, CacheGetCopy(t) PROVE [Lru!Next]_Lru!vars
  <2>1. /\ ptr[t] # Null /\ ptr' = [ptr EXCEPT ![t] = Null]
        /\ UNCHANGED <<list, unit, now, key>>
      BY <1>5 DEF CacheGetCopy
  <2>2. key[t] # Null
      BY <2>1, CacheAssumption DEF CacheInv
  <2>3. ptr'[t] = Null /\ \A s \in Threads \ {t} : ptr'[s] = ptr[s]
      BY <1>1, <2>1
  <2>4. Pending[t] # Null /\ Pending' = [Pending EXCEPT ![t] = Null]
      BY <2>1, <2>2, <2>3 DEF Pending
  <2>5. Lru!Answer(t)
      BY <2>1, <2>4 DEF Lru!Answer, Pending
  <2>. QED
      BY <2>5 DEF Lru!Next
<1>6. ASSUME NEW t \in Threads, CallCrashes(t) PROVE [Lru!Next]_Lru!vars
    BY <1>2, <1>6 DEF CallCrashes, Crash, Pending
<1>7. CASE DestroyCache
  <2>1. list' = <<>> /\ UNCHANGED <<now, key, ptr>>
      BY <1>7 DEF DestroyCache
  <2>2. Lru!Clear
      BY <2>1 DEF Lru!Clear
  <2>. QED
      BY <2>2 DEF Lru!Next
<1>8. CASE Tick
  <2>1. Lru!Tick
      BY <1>8 DEF Tick, Lru!Tick
  <2>. QED
      BY <2>1 DEF Lru!Next
<1>9. CASE UNCHANGED vars
    BY <1>2, <1>9 DEF vars, Pending
<1>. QED
    BY <1>3, <1>4, <1>5, <1>6, <1>7, <1>8, <1>9 DEF Next

(* The cache (cache.c with hash.c and linkList.c) is a least-recently-used *)
(* cache with expiry, for any size, as long as the keys fit a node: every  *)
(* step of its code is a step of LruCache or changes nothing LruCache      *)
(* tells apart.                                                            *)
THEOREM IsLru == ASSUME KeysFit PROVE Spec => LruSpec
<1>1. CacheInv /\ [Next]_vars => [Lru!Next]_Lru!vars
    BY LruStep
<1>. QED
    BY <1>1, LruInit, CacheInvariance, PTL DEF Spec, LruSpec, Lru!Spec
=============================================================================
