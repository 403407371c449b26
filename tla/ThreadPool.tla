------------------------------ MODULE ThreadPool ------------------------------
(***************************************************************************)
(* The thread pool (pool/thread_pool.c) over its safe queue (pool/queue.c).*)
(*                                                                         *)
(* Every thread is a worker of the pool or a client that calls AddTask;    *)
(* one client may also call ClosePool.  An action is a stretch of code     *)
(* that other threads see as one step: a critical section of numMut        *)
(* (usedNum is only touched there), a critical section of q_lock that      *)
(* reads the unprotected flag `destroyed' once, or a single access to that *)
(* flag.  SafeDeque reads the flag several times under q_lock and          *)
(* SafeDestroy writes it without any lock, so SafeDeque keeps q_lock       *)
(* across several actions.                                                 *)
(*                                                                         *)
(* pthread calls on a destroyed mutex are undefined; glibc answers EINVAL, *)
(* which queue.c does not look at, so the thread goes on without the lock. *)
(***************************************************************************)
EXTENDS Integers, Sequences, FiniteSets

CONSTANTS Workers,    \* the threads CreateThreadPool starts
          Clients,    \* the threads that call AddTask
          Closers,    \* the clients that may call ClosePool
          MaxTasks,   \* bound: how often AddTask is called
          NoTask,     \* NULL, as a Task *
          NoThread    \* the holder of a free mutex

ASSUME ThreadAssumption ==
    /\ Workers \cap Clients = {}
    /\ Closers \subseteq Clients
    /\ IsFiniteSet(Workers) /\ IsFiniteSet(Clients)
    /\ NoThread \notin Workers \cup Clients

ASSUME TaskAssumption == MaxTasks \in Nat /\ NoTask \notin 1..MaxTasks

Threads == Workers \cup Clients
Tasks   == 1..MaxTasks

VARIABLES pc,         \* where each thread is
          task,       \* the Task * each thread has in hand
          queue,      \* the tasks linked between q->head and q->tail
          qLock,      \* the holder of q->q_lock
          destroyed,  \* q->destroyed
          usedNum,    \* q->usedNum
          qState,     \* "live", then "dead" (SafeDestroy), then "freed" (ClosePool)
          nextTask,   \* the next Task AddTask allocates
          done,       \* history: tasks whose function has returned
          dropped     \* history: tasks that will never be run

vars == <<pc, task, queue, qLock, destroyed, usedNum, qState, nextTask,
          done, dropped>>

-----------------------------------------------------------------------------
At(S, where) == {t \in S : pc[t] = where}

(* Between usedNum++ and usedNum--: the threads usedNum is there to count. *)
InQueuePCs == {"enqPut", "enqSignal", "enqOut", "deqLock", "deqTest",
               "deqWait", "deqBlocked", "deqPop", "deqOut"}
InQueue    == {t \in Threads : pc[t] \in InQueuePCs}

Goto(t, where) == pc' = [pc EXCEPT ![t] = where]

(* pthread_cond_signal(&q->q_ready): one waiting worker goes for q_lock. *)
SignalReady(t, where) ==
    IF At(Workers, "deqBlocked") = {}
    THEN Goto(t, where)
    ELSE \E w \in At(Workers, "deqBlocked") :
            pc' = [pc EXCEPT ![t] = where, ![w] = "deqLock"]

(* pthread_cond_broadcast(&q->q_ready) *)
BroadcastReady(t, where) ==
    pc' = [s \in Threads |-> IF s = t THEN where
                             ELSE IF pc[s] = "deqBlocked" THEN "deqLock"
                             ELSE pc[s]]

(* Slip: noUsed is not signalled. *)
LeaveToSilent(t, where) == usedNum' = usedNum - 1 /\ Goto(t, where)

(* usedNum--; pthread_cond_signal(&q->noUsed): only SafeDestroy waits there. *)
LeaveTo(t, where) ==
    /\ usedNum' = usedNum - 1
    /\ pc' = [s \in Threads |-> IF s = t THEN where
                                ELSE IF pc[s] = "desBlocked" THEN "desCount"
                                ELSE pc[s]]

(* pthread_mutex_lock(&q->q_lock) gets through: always, once destroyed. *)
CanLock == qState = "live" => qLock = NoThread

-----------------------------------------------------------------------------
(* CreateThreadPool has returned: every worker is about to call SafeDeque. *)
Init ==
    /\ pc = [t \in Threads |-> IF t \in Workers THEN "deq" ELSE "idle"]
    /\ task = [t \in Threads |-> NoTask]
    /\ queue = <<>>
    /\ qLock = NoThread
    /\ destroyed = FALSE
    /\ usedNum = 0
    /\ qState = "live"
    /\ nextTask = 1
    /\ done = {}
    /\ dropped = {}

-----------------------------------------------------------------------------
(* AddTask and SafeEnque. *)

(* AddTask up to the first test of destroyed: a closed queue takes no task *)
(* and the Task just allocated is leaked.                                  *)
AddTask(c) ==
    /\ pc[c] = "idle"
    /\ qState # "freed"
    /\ nextTask \in Tasks
    /\ nextTask' = nextTask + 1
    /\ \/ /\ ~destroyed
          /\ task' = [task EXCEPT ![c] = nextTask]
          /\ Goto(c, "enqIn")
          /\ UNCHANGED dropped
       \/ /\ destroyed
          /\ dropped' = dropped \cup {nextTask}
          /\ UNCHANGED <<pc, task>>
    /\ UNCHANGED <<queue, qLock, destroyed, usedNum, qState, done>>

(* Slip: the caller does not count itself in. *)
EnqInUncounted(c) ==
    /\ pc[c] = "enqIn"
    /\ qState # "freed"
    /\ Goto(c, "enqPut")
    /\ UNCHANGED <<task, queue, qLock, destroyed, usedNum, qState, nextTask,
                   done, dropped>>

EnqIn(c) ==
    /\ pc[c] = "enqIn"
    /\ qState # "freed"
    /\ usedNum' = usedNum + 1
    /\ Goto(c, "enqPut")
    /\ UNCHANGED <<task, queue, qLock, destroyed, qState, nextTask, done, dropped>>

(* Slip: destroyed is not tested again under q_lock. *)
EnqPutUntested(c) ==
    /\ pc[c] = "enqPut"
    /\ qState # "freed"
    /\ CanLock
    /\ queue' = Append(queue, task[c])
    /\ Goto(c, "enqSignal")
    /\ task' = [task EXCEPT ![c] = NoTask]
    /\ UNCHANGED <<qLock, destroyed, usedNum, qState, nextTask, done, dropped>>

(* The critical section of q_lock.  On a queue destroyed in the meantime   *)
(* it frees the Task and returns without usedNum--.                        *)
EnqPut(c) ==
    /\ pc[c] = "enqPut"
    /\ qState # "freed"
    /\ CanLock
    /\ \/ /\ ~destroyed
          /\ queue' = Append(queue, task[c])
          /\ Goto(c, "enqSignal")
          /\ UNCHANGED dropped
       \/ /\ destroyed
          /\ dropped' = dropped \cup {task[c]}
          /\ Goto(c, "idle")
          /\ UNCHANGED queue
    /\ task' = [task EXCEPT ![c] = NoTask]
    /\ UNCHANGED <<qLock, destroyed, usedNum, qState, nextTask, done>>

(* Slip: signal only when the queue was empty before. *)
EnqSignalFirst(c) ==
    /\ pc[c] = "enqSignal"
    /\ IF Len(queue) = 1 THEN SignalReady(c, "enqOut") ELSE Goto(c, "enqOut")
    /\ UNCHANGED <<task, queue, qLock, destroyed, usedNum, qState, nextTask,
                   done, dropped>>

(* Slip: no signal at all. *)
EnqSignalNever(c) ==
    /\ pc[c] = "enqSignal"
    /\ Goto(c, "enqOut")
    /\ UNCHANGED <<task, queue, qLock, destroyed, usedNum, qState, nextTask,
                   done, dropped>>

EnqSignal(c) ==
    /\ pc[c] = "enqSignal"
    /\ SignalReady(c, "enqOut")
    /\ UNCHANGED <<task, queue, qLock, destroyed, usedNum, qState, nextTask,
                   done, dropped>>

EnqOut(c) ==
    /\ pc[c] = "enqOut"
    /\ LeaveTo(c, "idle")
    /\ UNCHANGED <<task, queue, qLock, destroyed, qState, nextTask, done, dropped>>

(* ClosePool has freed the queue under a client that is still inside       *)
(* SafeEnque: what it does from here on is undefined, its task is lost.    *)
UseAfterFree(c) ==
    /\ pc[c] \in {"enqIn", "enqPut"}
    /\ qState = "freed"
    /\ Goto(c, "undefined")
    /\ dropped' = dropped \cup {task[c]}
    /\ task' = [task EXCEPT ![c] = NoTask]
    /\ UNCHANGED <<queue, qLock, destroyed, usedNum, qState, nextTask, done>>

-----------------------------------------------------------------------------
(* worker and SafeDeque. *)

(* The first test of destroyed; worker returns when SafeDeque is NULL. *)
Deq(w) ==
    /\ pc[w] = "deq"
    /\ Goto(w, IF destroyed THEN "exited" ELSE "deqIn")
    /\ UNCHANGED <<task, queue, qLock, destroyed, usedNum, qState, nextTask,
                   done, dropped>>

DeqIn(w) ==
    /\ pc[w] = "deqIn"
    /\ usedNum' = usedNum + 1
    /\ Goto(w, "deqLock")
    /\ UNCHANGED <<task, queue, qLock, destroyed, qState, nextTask, done, dropped>>

(* Slip: the test is made without the lock. *)
DeqLockNot(w) ==
    /\ pc[w] = "deqLock"
    /\ CanLock
    /\ Goto(w, "deqTest")
    /\ UNCHANGED <<task, queue, qLock, destroyed, usedNum, qState, nextTask,
                   done, dropped>>

(* Taking q_lock, at first or on the way out of pthread_cond_wait. *)
DeqLock(w) ==
    /\ pc[w] = "deqLock"
    /\ CanLock
    /\ qLock' = IF qState = "live" THEN w ELSE qLock
    /\ Goto(w, "deqTest")
    /\ UNCHANGED <<task, queue, destroyed, usedNum, qState, nextTask, done, dropped>>

(* The condition of the while loop. *)
DeqTest(w) ==
    /\ pc[w] = "deqTest"
    /\ Goto(w, IF ~destroyed /\ queue = <<>> THEN "deqWait" ELSE "deqPop")
    /\ UNCHANGED <<task, queue, qLock, destroyed, usedNum, qState, nextTask,
                   done, dropped>>

(* pthread_cond_wait gives up q_lock and blocks in one step, but the test  *)
(* before it was an earlier one.                                           *)
DeqWait(w) ==
    /\ pc[w] = "deqWait"
    /\ qLock' = NoThread
    /\ Goto(w, "deqBlocked")
    /\ UNCHANGED <<task, queue, destroyed, usedNum, qState, nextTask, done, dropped>>

(* Slip: the node taken stays linked. *)
DeqPopLinked(w) ==
    /\ pc[w] = "deqPop"
    /\ \/ destroyed /\ UNCHANGED task
       \/ ~destroyed /\ task' = [task EXCEPT ![w] = Head(queue)]
    /\ qLock' = NoThread
    /\ Goto(w, "deqOut")
    /\ UNCHANGED <<queue, destroyed, usedNum, qState, nextTask, done, dropped>>

(* After the loop: another test of destroyed, then the oldest task. *)
DeqPop(w) ==
    /\ pc[w] = "deqPop"
    /\ \/ /\ destroyed
          /\ UNCHANGED <<task, queue>>
       \/ /\ ~destroyed
          /\ task' = [task EXCEPT ![w] = Head(queue)]
          /\ queue' = Tail(queue)
    /\ qLock' = NoThread
    /\ Goto(w, "deqOut")
    /\ UNCHANGED <<destroyed, usedNum, qState, nextTask, done, dropped>>

DeqOut(w) ==
    /\ pc[w] = "deqOut"
    /\ LeaveTo(w, IF task[w] = NoTask THEN "exited" ELSE "run")
    /\ UNCHANGED <<task, queue, qLock, destroyed, qState, nextTask, done, dropped>>

(* t->func(t->arg); free(t) *)
RunTask(w) ==
    /\ pc[w] = "run"
    /\ done' = done \cup {task[w]}
    /\ task' = [task EXCEPT ![w] = NoTask]
    /\ Goto(w, "deq")
    /\ UNCHANGED <<queue, qLock, destroyed, usedNum, qState, nextTask, dropped>>

-----------------------------------------------------------------------------
(* ClosePool and SafeDestroy. *)

ClosePool(c) ==
    /\ pc[c] = "idle"
    /\ ~destroyed
    /\ destroyed' = TRUE
    /\ Goto(c, "desBroadcast")
    /\ UNCHANGED <<task, queue, qLock, usedNum, qState, nextTask, done, dropped>>

DesBroadcast(c) ==
    /\ pc[c] = "desBroadcast"
    /\ BroadcastReady(c, "desCount")
    /\ UNCHANGED <<task, queue, qLock, destroyed, usedNum, qState, nextTask,
                   done, dropped>>

(* Slip: one user too many is tolerated. *)
DesCountOff(c) ==
    /\ pc[c] = "desCount"
    /\ Goto(c, IF usedNum > 1 THEN "desBlocked" ELSE "desFree")
    /\ UNCHANGED <<task, queue, qLock, destroyed, usedNum, qState, nextTask,
                   done, dropped>>

(* while(q->usedNum > 0) pthread_cond_wait(&q->noUsed, &q->numMut) *)
DesCount(c) ==
    /\ pc[c] = "desCount"
    /\ Goto(c, IF usedNum > 0 THEN "desBlocked" ELSE "desFree")
    /\ UNCHANGED <<task, queue, qLock, destroyed, usedNum, qState, nextTask,
                   done, dropped>>

(* The nodes are freed, but not the tasks in them; the mutexes and the     *)
(* condition variables are destroyed.                                      *)
DesFree(c) ==
    /\ pc[c] = "desFree"
    /\ qState' = "dead"
    /\ dropped' = dropped \cup {queue[i] : i \in 1..Len(queue)}
    /\ queue' = <<>>
    /\ Goto(c, "join")
    /\ UNCHANGED <<task, qLock, destroyed, usedNum, nextTask, done>>

(* pthread_join of every worker, then the queue and the pool are freed. *)
Join(c) ==
    /\ pc[c] = "join"
    /\ \A w \in Workers : pc[w] = "exited"
    /\ qState' = "freed"
    /\ Goto(c, "closed")
    /\ UNCHANGED <<task, queue, qLock, destroyed, usedNum, nextTask, done, dropped>>

(* POSIX lets pthread_cond_wait return without a signal. *)
SpuriousWakeup(t) ==
    /\ \/ pc[t] = "deqBlocked" /\ Goto(t, "deqLock")
       \/ pc[t] = "desBlocked" /\ Goto(t, "desCount")
    /\ UNCHANGED <<task, queue, qLock, destroyed, usedNum, qState, nextTask,
                   done, dropped>>

-----------------------------------------------------------------------------
(* What a client does once it is inside AddTask or ClosePool, and what a   *)
(* worker does.                                                            *)
ClientStep(c) ==
    \/ EnqIn(c) \/ EnqPut(c) \/ EnqSignal(c) \/ EnqOut(c) \/ UseAfterFree(c)
    \/ DesBroadcast(c) \/ DesCount(c) \/ DesFree(c) \/ Join(c)

WorkerStep(w) ==
    \/ Deq(w) \/ DeqIn(w) \/ DeqLock(w) \/ DeqTest(w) \/ DeqWait(w)
    \/ DeqPop(w) \/ DeqOut(w) \/ RunTask(w)

Next ==
    \/ \E c \in Clients : AddTask(c) \/ ClientStep(c)
    \/ \E c \in Closers : ClosePool(c)
    \/ \E w \in Workers : WorkerStep(w)
    \/ \E t \in Threads : SpuriousWakeup(t)

Spec == Init /\ [][Next]_vars

(* Threads inside the code go on running, a task's function returns (the   *)
(* handlers wait at most SO_RCVTIMEO for the network) and a thread does    *)
(* not lose the race for q_lock for ever.  Nobody has to call AddTask or   *)
(* ClosePool, and no wakeup is promised but the signalled ones.            *)
Fairness ==
    /\ \A c \in Clients : WF_vars(ClientStep(c)) /\ SF_vars(EnqPut(c))
    /\ \A w \in Workers : WF_vars(WorkerStep(w)) /\ SF_vars(DeqLock(w))

FairSpec == Spec /\ Fairness

-----------------------------------------------------------------------------
PCs == InQueuePCs \cup
       {"idle", "enqIn", "undefined", "deq", "deqIn", "run", "exited",
        "desBroadcast", "desCount", "desBlocked", "desFree", "join", "closed"}

(* usedNum never goes below zero: nobody leaves the queue uncounted. *)
TypeOK ==
    /\ pc \in [Threads -> PCs]
    /\ task \in [Threads -> Tasks \cup {NoTask}]
    /\ queue \in Seq(Tasks)
    /\ qLock \in Threads \cup {NoThread}
    /\ destroyed \in BOOLEAN
    /\ usedNum \in Nat
    /\ qState \in {"live", "dead", "freed"}
    /\ nextTask \in 1..(MaxTasks + 1)
    /\ done \subseteq Tasks
    /\ dropped \subseteq Tasks

Queued == {queue[i] : i \in 1..Len(queue)}
Held   == {task[t] : t \in Threads} \ {NoTask}

(* No Task is lost, run twice or freed twice: every task AddTask has       *)
(* allocated is in the hands of exactly one thread, or in the queue once,  *)
(* or run, or given up (SafeEnque, worker and SafeDestroy hand it over     *)
(* without a gap, whatever the interleaving).                              *)
TasksAccounted ==
    /\ 1..(nextTask - 1) = Held \cup Queued \cup done \cup dropped
    /\ Held \cap (Queued \cup done \cup dropped) = {}
    /\ Queued \cap (done \cup dropped) = {}
    /\ done \cap dropped = {}
    /\ \A s, t \in Threads : s # t /\ task[s] # NoTask => task[s] # task[t]
    /\ \A i, j \in 1..Len(queue) : queue[i] = queue[j] => i = j

(* SafeDeque takes q->head->next only from a list that has one (queue.c:85 *)
(* dereferences it), although the emptiness test was made before other     *)
(* threads ran and destroyed is read again in between.                     *)
PopFindsTask ==
    \A w \in Workers : pc[w] = "deqPop" /\ ~destroyed => queue # <<>>

(* While a worker sleeps, each queued task has somebody on the way to it:  *)
(* a worker going for q_lock or a signal about to be sent.  So no task is  *)
(* stranded although SafeEnque signals after it has released q_lock.       *)
WorkConserving ==
    ~destroyed /\ At(Workers, "deqBlocked") # {} =>
        Len(queue) <= Cardinality({w \in Workers : pc[w] \in {"deqLock", "deqTest", "deqPop"}})
                      + Cardinality(At(Clients, "enqSignal"))

(* Once SafeDestroy has seen usedNum = 0, a thread still inside the queue  *)
(* is one that passed the first test of destroyed long ago: it does not    *)
(* sleep on a condition variable and it does not touch the freed list.     *)
DestroyQuiesces ==
    (\E c \in Closers : pc[c] \in {"desFree", "join", "closed"}) =>
        \A t \in InQueue :
            /\ pc[t] \in {"enqPut", "deqLock", "deqTest", "deqPop", "deqOut"}
            /\ t \in Workers => task[t] = NoTask

(* The pool implements its abstract specification: FIFO hand-over, every   *)
(* task at most once, nothing queued or started after ClosePool began.     *)
TQ == INSTANCE TaskQueue WITH
          running <- [w \in Workers |-> task[w]], open <- ~destroyed
TaskQueueSpec == TQ!Spec

(* Every task that reached the queue is run (AddTask, doc/Thread_pool.md:  *)
(* the tasks are distributed over the threads of the pool), unless the     *)
(* pool is closed first.                                                   *)
EveryTaskRuns == \A k \in Tasks : (k \in Queued) ~> (k \in done \/ destroyed)

(* ClosePool returns, and there are two ways only in which it does not: a  *)
(* worker blocks for ever, having missed the broadcast (queue.c:103), or   *)
(* usedNum counts one that has left, refused at queue.c:48.  Whatever else *)
(* the threads inside are doing, they leave, and noUsed is signalled.      *)
ClosePoolEnds ==
    \A c \in Closers : [](pc[c] = "desBroadcast" =>
        <>(\/ pc[c] = "closed"
           \/ [](At(Workers, "deqBlocked") # {})
           \/ [](usedNum > Cardinality(InQueue))))

-----------------------------------------------------------------------------
(* A statement of the repository that the code does not keep. *)

(* thread_pool.c:63-65: destroying the queue makes the workers end and     *)
(* ClosePool waits for them, that is, ClosePool returns.                   *)
ClosePoolReturns ==
    \A c \in Closers : (pc[c] = "desBroadcast") ~> (pc[c] = "closed")
=============================================================================
