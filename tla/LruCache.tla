------------------------------- MODULE LruCache -------------------------------
(***************************************************************************)
(* What the cache of cache/ promises (doc/Cache.md): a map from keys to    *)
(* data that holds at most MaxSize entries, gives up the entry that was    *)
(* not used for the longest time when it is full, and forgets an entry     *)
(* that a lookup finds older than its TTL.  The entries are kept in the    *)
(* order of their last use, the most recent first.                         *)
(***************************************************************************)
EXTENDS Integers, SequencesExt

CONSTANTS Threads, Keys, Values, TTLs, MaxSize, Null

VARIABLES entries,   \* sequence of [key, data, saveTime, TTL], distinct keys
          pending,   \* the key each thread has found and waits for
          now        \* the clock

vars == <<entries, pending, now>>

Present(k) == \E i \in DOMAIN entries : entries[i].key = k

(* The entries without the one of key k. *)
Without(k) ==
    IF Present(k)
    THEN RemoveAt(entries, CHOOSE i \in DOMAIN entries : entries[i].key = k)
    ELSE entries

Init ==
    /\ entries = <<>>
    /\ pending = [t \in Threads |-> Null]
    /\ now = 0

Tick == now' = now + 1 /\ UNCHANGED <<entries, pending>>

(* A new or renewed entry comes first; a new one may cost the last. *)
Put(k, v, ttl) ==
    LET new == [key |-> k, data |-> v, saveTime |-> now, TTL |-> ttl]
        old == IF Present(k) \/ Len(entries) < MaxSize
               THEN Without(k) ELSE Front(entries)
    IN  entries' = <<new>> \o old /\ UNCHANGED <<pending, now>>

(* A lookup finds an entry that has outlived its TTL: it goes. *)
Expire(k) ==
    \E i \in DOMAIN entries :
        /\ entries[i].key = k
        /\ now - entries[i].saveTime > entries[i].TTL
        /\ entries' = Without(k)
        /\ UNCHANGED <<pending, now>>

(* A lookup finds the entry: it is now the one used last. *)
Hit(t, k) ==
    \E i \in DOMAIN entries :
        /\ entries[i].key = k /\ pending[t] = Null
        /\ now - entries[i].saveTime <= entries[i].TTL
        /\ entries' = <<entries[i]>> \o Without(k)
        /\ pending' = [pending EXCEPT ![t] = k]
        /\ UNCHANGED now

(* The data is handed over. *)
Answer(t) ==
    /\ pending[t] # Null
    /\ pending' = [pending EXCEPT ![t] = Null]
    /\ UNCHANGED <<entries, now>>

Clear == entries' = <<>> /\ UNCHANGED <<pending, now>>

Next ==
    \/ Tick
    \/ \E k \in Keys : Expire(k) \/ \E v \in Values, ttl \in TTLs : Put(k, v, ttl)
    \/ \E t \in Threads : Answer(t) \/ \E k \in Keys : Hit(t, k)
    \/ Clear

Spec == Init /\ [][Next]_vars
=============================================================================
