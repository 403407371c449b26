-------------------------------- MODULE Cache --------------------------------
(***************************************************************************)
(* The cache (cache/cache.c): a hash table (HashOps) from keys to nodes of *)
(* a doubly linked list (cache/linkList.c) kept in the order of last use.  *)
(*                                                                         *)
(* CachePut is one critical section of the write lock, hence one action.   *)
(* CacheGet is two: it looks the key up under the write lock, gives that   *)
(* lock up, and copies the data out through the pointer it kept under the  *)
(* read lock.  An address stands for a linkNode with its saveUnit; malloc  *)
(* may hand out a freed address again.  copy and delete are the default    *)
(* ones (NULL), as in server.c.                                            *)
(***************************************************************************)
EXTENDS HashOps, SequencesExt

CONSTANTS Threads,    \* the threads that use the cache
          Keys,       \* the keys they use
          KeptKey,    \* what ui.key may read as, for each key
          Addr,       \* where linkNodes can be
          MaxSize,    \* c->maxSize
          TTLs,       \* the TTLs of CachePut, in clock ticks
          MaxPuts,    \* bound: how often CachePut is called
          MaxTime,    \* bound: the last value of the clock
          Free,       \* the content of an address that is not allocated
          Null,       \* NULL, as a key, a saveUnit * or a result
          Garbage     \* what a copy from freed memory returns

(* What is put under a key: data that tells the key and the put. *)
Values == [for : Keys, ver : 1..MaxPuts]

Unit == [key : Names, data : Values, saveTime : 0..MaxTime, TTL : TTLs]

ASSUME CacheAssumption ==
    /\ Keys \subseteq Names
    /\ KeptKey \in [Keys -> (SUBSET Names) \ {{}}]
    /\ IsFiniteSet(Addr) /\ Null \notin Addr \cup Keys /\ Free \notin Unit
    /\ MaxSize \in 1..Cardinality(Addr)
    /\ TTLs \subseteq Int
    /\ MaxPuts \in Nat /\ MaxTime \in Nat

VARIABLES ht,      \* c->hTab; its data are addresses
          list,    \* c->lList from head to tail
          unit,    \* the saveUnit at each address
          len,     \* c->len
          now,     \* time(NULL)
          sys,     \* "up", "destroyed" or "crashed"
          key,     \* the key of the last CacheGet of each thread
          ptr,     \* ui, while a thread is between the two locks of CacheGet
          res,     \* the result of the last CacheGet of each thread
          puts,    \* history: how often CachePut was called
          latest   \* history: the last put of each key

vars == <<ht, list, unit, len, now, sys, key, ptr, res, puts, latest>>

-----------------------------------------------------------------------------
(* linkList.c; u stands for the allocated units. *)
PutInHead(l, a) == <<a>> \o l

RemoveFromLinkList(l, a) == RemoveAt(l, CHOOSE i \in DOMAIN l : l[i] = a)

GetLastLinkNode(l) == Last(l)

freeLinkNode(u, a) == [u EXCEPT ![a] = Free]

DestroyLinkList(u, l) == [a \in Addr |-> IF a \in ToSet(l) THEN Free ELSE u[a]]

(* CreateCache *)
Init ==
    /\ ht = NewHashTab
    /\ list = <<>>
    /\ unit = [a \in Addr |-> Free]
    /\ len = 0
    /\ now = 0
    /\ sys = "up"
    /\ key = [t \in Threads |-> Null]
    /\ ptr = [t \in Threads |-> Null]
    /\ res = [t \in Threads |-> Null]
    /\ puts = 0
    /\ latest = [k \in Keys |-> 0]

(* A call may begin: hash(key) % ht->len does not divide by zero. *)
CanCall(t) == sys = "up" /\ ptr[t] = Null /\ ht.len # 0

(* What happens once a pointer to freed memory was followed, or a division *)
(* by zero was met.                                                        *)
Crash == sys' = "crashed" /\ UNCHANGED <<ht, list, unit, len, now, key, ptr, res, puts, latest>>

-----------------------------------------------------------------------------
(* CachePut *)

NewData(k) == [for |-> k, ver |-> puts + 1]

(* Slip: only the lifetime of the unit is renewed. *)
PutOverKeepsData(k, ttl) ==
    \E a \in Search(ht, k) :
        /\ unit[a] # Free
        /\ unit' = [unit EXCEPT ![a].saveTime = now, ![a].TTL = ttl]
        /\ list' = PutInHead(RemoveFromLinkList(list, a), a)
        /\ UNCHANGED <<ht, len, sys>>

(* The key is there: the unit is filled anew and moved to the head. *)
PutOver(k, ttl) ==
    \E a \in Search(ht, k) :
        /\ unit[a] # Free
        /\ unit' = [unit EXCEPT ![a].data = NewData(k),
                                ![a].saveTime = now, ![a].TTL = ttl]
        /\ list' = PutInHead(RemoveFromLinkList(list, a), a)
        /\ UNCHANGED <<ht, len, sys>>

(* Slip: one entry too many. *)
MakeRoomLate ==
    LET last == GetLastLinkNode(list)
    IN  IF len <= MaxSize
        THEN {[ht |-> ht, list |-> list, unit |-> unit, len |-> len]}
        ELSE {[ht |-> h, list |-> RemoveFromLinkList(list, last),
               unit |-> freeLinkNode(unit, last), len |-> len - 1]
                : h \in Delete(ht, unit[last].key)}

(* Slip: the evicted node stays in the hash table. *)
MakeRoomKeepsIndex ==
    LET last == GetLastLinkNode(list)
    IN  IF len < MaxSize
        THEN {[ht |-> ht, list |-> list, unit |-> unit, len |-> len]}
        ELSE {[ht |-> ht, list |-> RemoveFromLinkList(list, last),
               unit |-> freeLinkNode(unit, last), len |-> len - 1]}

(* The cache when the tail has been removed from a full one. *)
MakeRoom ==
    LET last == GetLastLinkNode(list)
    IN  IF len < MaxSize
        THEN {[ht |-> ht, list |-> list, unit |-> unit, len |-> len]}
        ELSE {[ht |-> h, list |-> RemoveFromLinkList(list, last),
               unit |-> freeLinkNode(unit, last), len |-> len - 1]
                : h \in Delete(ht, unit[last].key)}

(* The key is not there: a unit of its own, at the head. *)
PutNew(k, ttl) ==
    /\ Search(ht, k) = {}
    /\ \E room \in MakeRoom, a \in Addr, kept \in KeptKey[k] :
        /\ room.ht.len # 0
        /\ room.unit[a] = Free
        /\ unit' = [room.unit EXCEPT ![a] = [key |-> kept, data |-> NewData(k),
                                             saveTime |-> now, TTL |-> ttl]]
        /\ list' = PutInHead(room.list, a)
        /\ ht' \in Insert(room.ht, k, a)
        /\ len' = room.len + 1
        /\ UNCHANGED sys

CachePut(t, k, ttl) ==
    /\ CanCall(t)
    /\ puts < MaxPuts
    /\ PutOver(k, ttl) \/ PutNew(k, ttl)
    /\ puts' = puts + 1
    /\ latest' = [latest EXCEPT ![k] = puts + 1]
    /\ UNCHANGED <<now, key, ptr, res>>

-----------------------------------------------------------------------------
(* CacheGet *)

Stale(u) == now - u.saveTime > u.TTL

GetMiss(t, k) ==
    /\ Search(ht, k) = {}
    /\ res' = [res EXCEPT ![t] = Null]
    /\ UNCHANGED <<ht, list, unit, len, sys, ptr>>

(* Slip: the node is freed but stays in the list. *)
GetStaleLinked(t, k) ==
    \E a \in Search(ht, k) :
        /\ unit[a] # Free /\ Stale(unit[a])
        /\ ht' \in Delete(ht, unit[a].key)
        /\ unit' = freeLinkNode(unit, a)
        /\ len' = len - 1
        /\ res' = [res EXCEPT ![t] = Null]
        /\ UNCHANGED <<list, sys, ptr>>

(* The entry has outlived its TTL and is deleted. *)
GetStale(t, k) ==
    \E a \in Search(ht, k) :
        /\ unit[a] # Free /\ Stale(unit[a])
        /\ ht' \in Delete(ht, unit[a].key)
        /\ list' = RemoveFromLinkList(list, a)
        /\ unit' = freeLinkNode(unit, a)
        /\ len' = len - 1
        /\ sys' = IF DividedByZero(ht') THEN "crashed" ELSE sys
        /\ res' = [res EXCEPT ![t] = Null]
        /\ UNCHANGED ptr

(* Slip: a hit does not count as a use. *)
GetHitInPlace(t, k) ==
    \E a \in Search(ht, k) :
        /\ unit[a] # Free /\ ~Stale(unit[a])
        /\ ptr' = [ptr EXCEPT ![t] = a]
        /\ UNCHANGED <<ht, list, unit, len, sys, res>>

(* The entry moves to the head; its unit is remembered across the unlock. *)
GetHit(t, k) ==
    \E a \in Search(ht, k) :
        /\ unit[a] # Free /\ ~Stale(unit[a])
        /\ list' = PutInHead(RemoveFromLinkList(list, a), a)
        /\ ptr' = [ptr EXCEPT ![t] = a]
        /\ UNCHANGED <<ht, unit, len, sys, res>>

(* CacheGet up to the release of the write lock. *)
CacheGet(t, k) ==
    /\ CanCall(t)
    /\ GetMiss(t, k) \/ GetStale(t, k) \/ GetHit(t, k)
    /\ key' = [key EXCEPT ![t] = k]
    /\ UNCHANGED <<now, puts, latest>>

(* The copy made under the read lock. *)
CacheGetCopy(t) ==
    /\ sys = "up" /\ ptr[t] # Null
    /\ res' = [res EXCEPT ![t] = IF unit[ptr[t]] = Free THEN Garbage
                                 ELSE unit[ptr[t]].data]
    /\ ptr' = [ptr EXCEPT ![t] = Null]
    /\ UNCHANGED <<ht, list, unit, len, now, sys, key, puts, latest>>

-----------------------------------------------------------------------------
(* A call that does not survive: the table has no slots left, or loses     *)
(* them on the way; the table points to a unit that has been freed; the    *)
(* copy reads freed memory.                                                *)
CallCrashes(t) ==
    /\ sys = "up"
    /\ \/ ptr[t] = Null /\ ht.len = 0
       \/ CanCall(t) /\ \E k \in Keys :
              \/ \E a \in Search(ht, k) : unit[a] = Free
              \/ Search(ht, k) = {} /\ \E room \in MakeRoom : room.ht.len = 0
       \/ ptr[t] # Null /\ unit[ptr[t]] = Free
    /\ Crash

(* DestroyCache, by a caller who knows that nobody uses the cache. *)
DestroyCache ==
    /\ sys = "up"
    /\ \A t \in Threads : ptr[t] = Null
    /\ sys' = "destroyed"
    /\ unit' = DestroyLinkList(unit, list)
    /\ list' = <<>>
    /\ UNCHANGED <<ht, len, now, key, ptr, res, puts, latest>>

Tick ==
    /\ sys = "up" /\ now < MaxTime
    /\ now' = now + 1
    /\ UNCHANGED <<ht, list, unit, len, sys, key, ptr, res, puts, latest>>

Next ==
    \/ \E t \in Threads, k \in Keys :
          CacheGet(t, k) \/ \E ttl \in TTLs : CachePut(t, k, ttl)
    \/ \E t \in Threads : CacheGetCopy(t) \/ CallCrashes(t)
    \/ DestroyCache
    \/ Tick

Spec == Init /\ [][Next]_vars

-----------------------------------------------------------------------------
(* Among the rest: the cache never holds more than MaxSize entries. *)
TypeOK ==
    /\ ht.nodes \subseteq [name : Names, data : Addr, slot : Nat]
    /\ ht.len \in Nat /\ ht.num \in Nat
    /\ list \in Seq(Addr) /\ Len(list) <= MaxSize
    /\ unit \in [Addr -> Unit \cup {Free}]
    /\ len \in 0..MaxSize
    /\ now \in 0..MaxTime
    /\ sys \in {"up", "destroyed", "crashed"}
    /\ key \in [Threads -> Keys \cup {Null}]
    /\ ptr \in [Threads -> Addr \cup {Null}]
    /\ res \in [Threads -> Values \cup {Null, Garbage}]
    /\ puts \in 0..MaxPuts
    /\ latest \in [Keys -> 0..MaxPuts]

(* Eviction, expiry and DestroyCache free exactly what they unlink: a unit *)
(* is allocated if and only if its node is in the list, once, and c->len   *)
(* counts them.                                                            *)
ListOwnsUnits ==
    /\ ToSet(list) = {a \in Addr : unit[a] # Free}
    /\ \A i, j \in DOMAIN list : list[i] = list[j] => i = j
    /\ sys # "destroyed" => len = Len(list)

(* The hash table and the list never disagree: each listed node is what    *)
(* its key finds, and the table holds nothing else (no pointer to a node   *)
(* that was evicted, expired or moved).                                    *)
IndexMatchesList ==
    sys = "up" /\ ht.len # 0 =>
        /\ \A a \in ToSet(list) : Search(ht, unit[a].key) = {a}
        /\ {n.data : n \in ht.nodes} = ToSet(list)
        /\ ht.num = Len(list)

(* Whatever was renewed, evicted, expired or moved in between, an entry    *)
(* holds what CachePut stored last under its key, so that a lookup finds   *)
(* the latest data (cache.h:39).                                           *)
EntriesLatest ==
    \A a \in ToSet(list) :
        unit[a].data = [for |-> unit[a].key, ver |-> latest[unit[a].key]]

(* The cache is a least-recently-used cache with expiry (LruCache). *)
Lru == INSTANCE LruCache WITH
           entries <- [i \in DOMAIN list |-> unit[list[i]]],
           pending <- [t \in Threads |-> IF ptr[t] = Null THEN Null ELSE key[t]]
LruSpec == Lru!Spec

-----------------------------------------------------------------------------
(* A statement of the repository that the code does not keep. *)

(* readme.md:155: the cache is safe to use from several threads; test.c:113 *)
(* expects a hit to be data that was put under that key.                   *)
GetReturnsOwnData ==
    \A t \in Threads : res[t] = Null \/ (res[t] # Garbage /\ res[t].for = key[t])
=============================================================================
