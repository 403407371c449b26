------------------------------ MODULE TaskQueue ------------------------------
(***************************************************************************)
(* What the thread pool of pool/ promises to its callers, free of locks    *)
(* and condition variables.  Tasks are submitted to a FIFO queue; each     *)
(* worker takes the oldest task, runs it and finishes it.  Once the pool   *)
(* has been shut nothing more is queued or started, whatever is queued is  *)
(* thrown away, and the workers finish what they are running.              *)
(***************************************************************************)
EXTENDS Naturals, Sequences

CONSTANTS Workers,   \* the threads of the pool
          Tasks,     \* the tasks the callers may submit, each of them once
          NoTask     \* what an idle worker runs

VARIABLES queue,     \* submitted and not yet taken, oldest first
          running,   \* the task each worker has taken
          done,      \* tasks whose function has returned
          dropped,   \* tasks that will never be run
          open       \* FALSE once ClosePool has begun

vars == <<queue, running, done, dropped, open>>

Queued  == {queue[i] : i \in 1..Len(queue)}
Taken   == {running[w] : w \in Workers}
Fresh   == Tasks \ (Queued \cup Taken \cup done \cup dropped)

Init ==
    /\ queue = <<>>
    /\ running = [w \in Workers |-> NoTask]
    /\ done = {}
    /\ dropped = {}
    /\ open = TRUE

(* A task enters the queue at its tail. *)
Submit(t) ==
    /\ open
    /\ t \in Fresh
    /\ queue' = Append(queue, t)
    /\ UNCHANGED <<running, done, dropped, open>>

(* A task submitted to a pool that has been shut. *)
Refuse(t) ==
    /\ ~open
    /\ t \in Fresh
    /\ dropped' = dropped \cup {t}
    /\ UNCHANGED <<queue, running, done, open>>

(* An idle worker takes the oldest task. *)
Take(w) ==
    /\ open
    /\ queue # <<>>
    /\ running[w] = NoTask
    /\ running' = [running EXCEPT ![w] = Head(queue)]
    /\ queue' = Tail(queue)
    /\ UNCHANGED <<done, dropped, open>>

Finish(w) ==
    /\ running[w] # NoTask
    /\ done' = done \cup {running[w]}
    /\ running' = [running EXCEPT ![w] = NoTask]
    /\ UNCHANGED <<queue, dropped, open>>

Shut ==
    /\ open
    /\ open' = FALSE
    /\ UNCHANGED <<queue, running, done, dropped>>

(* The queue is freed with the tasks still in it. *)
Discard ==
    /\ ~open
    /\ dropped' = dropped \cup Queued
    /\ queue' = <<>>
    /\ UNCHANGED <<running, done, open>>

Next ==
    \/ \E t \in Tasks : Submit(t) \/ Refuse(t)
    \/ \E w \in Workers : Take(w) \/ Finish(w)
    \/ Shut
    \/ Discard

Spec == Init /\ [][Next]_vars

=============================================================================
