--------------------------- MODULE ThreadPoolProofs ---------------------------
(***************************************************************************)
(* Theorems about ThreadPool for any number of workers, clients and tasks. *)
(***************************************************************************)
EXTENDS ThreadPool, Lemmas

WorkerPCs == {"deq", "deqIn", "deqLock", "deqTest", "deqWait", "deqBlocked",
              "deqPop", "deqOut", "run", "exited"}
DestroyPCs == {"desBroadcast", "desCount", "desBlocked", "desFree", "join", "closed"}
ClientPCs == {"idle", "enqIn", "enqPut", "enqSignal", "enqOut", "undefined"}
                \cup DestroyPCs

(* Workers and clients run code of their own, and only a closer destroys. *)
Kinds ==
    /\ \A w \in Workers : pc[w] \in WorkerPCs
    /\ \A c \in Clients : pc[c] \in ClientPCs

(* usedNum may only be too large: a client that finds the queue destroyed  *)
(* under q_lock leaves without usedNum--.                                  *)
Counted == Cardinality(InQueue) <= usedNum

(* A thread has a task in hand from AddTask until it is linked, and from   *)
(* the moment it is unlinked until its function has returned.              *)
InHand ==
    /\ \A c \in Clients : task[c] # NoTask <=> pc[c] \in {"enqIn", "enqPut"}
    /\ \A w \in Workers : pc[w] = "run" => task[w] # NoTask
    /\ \A w \in Workers : task[w] # NoTask => pc[w] \in {"deqOut", "run"}

(* SafeDeque holds q_lock from DeqLock to DeqWait or DeqPop. *)
LockHeld ==
    qState = "live" =>
        \A w \in Workers : pc[w] \in {"deqTest", "deqWait", "deqPop"} => qLock = w

(* destroyed is set first, and never reset. *)
DestroyedFirst ==
    /\ qState # "live" => destroyed
    /\ \A c \in Clients : pc[c] \in DestroyPCs => destroyed

(* The part of the invariant that is about control. *)
Control == TypeOK /\ Counted /\ Kinds /\ InHand /\ LockHeld /\ DestroyedFirst
           /\ PopFindsTask

Inv == Control /\ TasksAccounted
-----------------------------------------------------------------------------
(* Any set of threads is finite. *)
LEMMA ThreadSets ==
    ASSUME NEW S \in SUBSET Threads
    PROVE  IsFiniteSet(S) /\ Cardinality(S) \in Nat
<1>1. IsFiniteSet(Threads)
    BY ThreadAssumption, FS_Union DEF Threads
<1>. QED
    BY <1>1, FS_Subset, FS_CardinalityType

(* One thread may enter the queue and count itself in. *)
LEMMA CountUp ==
    ASSUME Counted, usedNum \in Nat, NEW t \in Threads, usedNum' = usedNum + 1,
           InQueue' \in SUBSET (InQueue \cup {t})
    PROVE  Counted'
<1>. DEFINE S == InQueue \cup {t}
<1>1. InQueue \in SUBSET Threads /\ S \in SUBSET Threads
    BY DEF InQueue
<1>2. IsFiniteSet(InQueue) /\ IsFiniteSet(S)
    BY <1>1, ThreadSets
<1>3. Cardinality(InQueue) \in Nat /\ Cardinality(S) \in Nat
    BY <1>1, ThreadSets
<1>4. Cardinality(S) <= Cardinality(InQueue) + 1
    BY <1>2, <1>3, FS_AddElement
<1>5. Cardinality(InQueue') <= Cardinality(S) /\ Cardinality(InQueue') \in Nat
    BY <1>2, FS_Subset, FS_CardinalityType
<1>. QED
    BY <1>3, <1>4, <1>5 DEF Counted

(* A thread that leaves the queue and counts itself out was counted. *)
LEMMA CountDown ==
    ASSUME Counted, usedNum \in Nat, NEW t \in InQueue, usedNum' = usedNum - 1,
           InQueue' = InQueue \ {t}
    PROVE  Counted' /\ usedNum' \in Nat
<1>1. InQueue \in SUBSET Threads
    BY DEF InQueue
<1>2. IsFiniteSet(InQueue) /\ Cardinality(InQueue) \in Nat
    BY <1>1, ThreadSets
<1>3. Cardinality(InQueue \ {t}) = Cardinality(InQueue) - 1
    BY <1>2, FS_RemoveElement
<1>4. Cardinality(InQueue \ {t}) \in Nat
    BY <1>2, FS_RemoveElement, FS_CardinalityType
<1>. QED
    BY <1>2, <1>3, <1>4 DEF Counted

(* Nobody enters the queue. *)
LEMMA CountSame ==
    ASSUME Counted, usedNum \in Nat, usedNum' = usedNum, InQueue' \in SUBSET InQueue
    PROVE  Counted'
<1>1. InQueue \in SUBSET Threads
    BY DEF InQueue
<1>2. IsFiniteSet(InQueue) /\ Cardinality(InQueue) \in Nat
    BY <1>1, ThreadSets
<1>3. Cardinality(InQueue') <= Cardinality(InQueue) /\ Cardinality(InQueue') \in Nat
    BY <1>2, FS_Subset, FS_CardinalityType
<1>. QED
    BY <1>2, <1>3 DEF Counted

-----------------------------------------------------------------------------
(* Every step preserves Control: one lemma for each action, one step for   *)
(* the count of users, one for the types and one for the rest.             *)

LEMMA AddTaskControl ==
    ASSUME Control, NEW c \in Clients, AddTask(c)
    PROVE  Control'
<1>1. usedNum \in Nat /\ usedNum' = usedNum /\ InQueue' \in SUBSET InQueue
    BY DEF AddTask, Goto, Control, TypeOK, InQueue, InQueuePCs, Threads
<1>2. Counted'
    BY <1>1, CountSame DEF Control
<1>a. nextTask' \in 1..(MaxTasks + 1)
    BY TaskAssumption DEF AddTask, Tasks
<1>3. nextTask' \in 1..(MaxTasks + 1) /\ task' \in [Threads -> Tasks \cup {NoTask}] /\ dropped' \subseteq Tasks
    BY <1>a DEF AddTask, Control, TypeOK
<1>4. TypeOK'
    BY <1>3 DEF AddTask, Goto, Control, TypeOK, PCs, Threads
<1>5. Kinds' /\ InHand' /\ LockHeld' /\ DestroyedFirst' /\ PopFindsTask'
    BY ThreadAssumption, TaskAssumption DEF AddTask, Goto, Control, TypeOK, Kinds, InHand, LockHeld, DestroyedFirst,
        PopFindsTask, WorkerPCs, ClientPCs, DestroyPCs, Threads, Tasks
<1>. QED
    BY <1>2, <1>4, <1>5 DEF Control

LEMMA EnqInControl ==
    ASSUME Control, NEW c \in Clients, EnqIn(c)
    PROVE  Control'
<1>1. usedNum \in Nat /\ usedNum' = usedNum + 1 /\ InQueue' \in SUBSET (InQueue \cup {c})
    BY DEF EnqIn, Goto, Control, TypeOK, InQueue, InQueuePCs, Threads
<1>2. Counted'
    BY <1>1, CountUp DEF Control, Threads
<1>4. TypeOK'
    BY <1>1 DEF EnqIn, Goto, Control, TypeOK, PCs, InQueuePCs, Threads
<1>5. Kinds' /\ InHand' /\ LockHeld' /\ DestroyedFirst' /\ PopFindsTask'
    BY ThreadAssumption DEF EnqIn, Goto, Control, TypeOK, Kinds, InHand, LockHeld, DestroyedFirst,
        PopFindsTask, WorkerPCs, ClientPCs, DestroyPCs, Threads
<1>. QED
    BY <1>2, <1>4, <1>5 DEF Control

LEMMA EnqPutControl ==
    ASSUME Control, NEW c \in Clients, EnqPut(c)
    PROVE  Control'
<1>1. usedNum \in Nat /\ usedNum' = usedNum /\ InQueue' \in SUBSET InQueue
    BY DEF EnqPut, Goto, CanLock, Control, TypeOK, InQueue, InQueuePCs, Threads
<1>2. Counted'
    BY <1>1, CountSame DEF Control
<1>3. task[c] \in Tasks
    BY DEF EnqPut, Control, TypeOK, InHand, Threads
<1>a. queue' \in Seq(Tasks) /\ dropped' \subseteq Tasks
    BY <1>3, AppendProperties DEF EnqPut, Control, TypeOK
<1>4. TypeOK'
    BY <1>a DEF EnqPut, Goto, Control, TypeOK, PCs, InQueuePCs, Threads
<1>5. Kinds' /\ InHand' /\ LockHeld' /\ DestroyedFirst' /\ PopFindsTask'
    BY ThreadAssumption, <1>3, AppendProperties DEF EnqPut, Goto, CanLock, Control, TypeOK, Kinds, InHand, LockHeld, DestroyedFirst,
        PopFindsTask, WorkerPCs, ClientPCs, DestroyPCs, Threads
<1>. QED
    BY <1>2, <1>4, <1>5 DEF Control

LEMMA EnqSignalControl ==
    ASSUME Control, NEW c \in Clients, EnqSignal(c)
    PROVE  Control'
<1>1. usedNum \in Nat /\ usedNum' = usedNum /\ InQueue' \in SUBSET InQueue
    BY DEF EnqSignal, SignalReady, At, Goto, Control, TypeOK, InQueue, InQueuePCs, Threads
<1>2. Counted'
    BY <1>1, CountSame DEF Control
<1>4. TypeOK'
    BY <1>1 DEF EnqSignal, SignalReady, At, Goto, Control, TypeOK, PCs, InQueuePCs, Threads
<1>5. Kinds' /\ InHand' /\ LockHeld' /\ DestroyedFirst' /\ PopFindsTask'
    BY ThreadAssumption DEF EnqSignal, SignalReady, At, Goto, Control, TypeOK, Kinds, InHand, LockHeld, DestroyedFirst,
        PopFindsTask, WorkerPCs, ClientPCs, DestroyPCs, Threads
<1>. QED
    BY <1>2, <1>4, <1>5 DEF Control

LEMMA EnqOutControl ==
    ASSUME Control, NEW c \in Clients, EnqOut(c)
    PROVE  Control'
<1>1. usedNum \in Nat /\ usedNum' = usedNum - 1 /\ c \in InQueue /\ InQueue' = InQueue \ {c}
    BY DEF EnqOut, LeaveTo, Control, TypeOK, InQueue, InQueuePCs, Threads
<1>2. Counted' /\ usedNum' \in Nat
    BY <1>1, CountDown DEF Control
<1>4. TypeOK'
    BY <1>2 DEF EnqOut, LeaveTo, Control, TypeOK, PCs, InQueuePCs, Threads
<1>5. Kinds' /\ InHand' /\ LockHeld' /\ DestroyedFirst' /\ PopFindsTask'
    BY ThreadAssumption DEF EnqOut, LeaveTo, Control, TypeOK, Kinds, InHand, LockHeld, DestroyedFirst,
        PopFindsTask, WorkerPCs, ClientPCs, DestroyPCs, Threads
<1>. QED
    BY <1>2, <1>4, <1>5 DEF Control

LEMMA UseAfterFreeControl ==
    ASSUME Control, NEW c \in Clients, UseAfterFree(c)
    PROVE  Control'
<1>1. usedNum \in Nat /\ usedNum' = usedNum /\ InQueue' \in SUBSET InQueue
    BY DEF UseAfterFree, Goto, Control, TypeOK, InQueue, InQueuePCs, Threads
<1>2. Counted'
    BY <1>1, CountSame DEF Control
<1>4. TypeOK'
    BY <1>1 DEF UseAfterFree, Goto, Control, TypeOK, PCs, InQueuePCs, Threads, InHand, Tasks
<1>5. Kinds' /\ InHand' /\ LockHeld' /\ DestroyedFirst' /\ PopFindsTask'
    BY ThreadAssumption DEF UseAfterFree, Goto, Control, TypeOK, Kinds, InHand, LockHeld, DestroyedFirst,
        PopFindsTask, WorkerPCs, ClientPCs, DestroyPCs, Threads
<1>. QED
    BY <1>2, <1>4, <1>5 DEF Control

LEMMA DeqControl ==
    ASSUME Control, NEW w \in Workers, Deq(w)
    PROVE  Control'
<1>1. usedNum \in Nat /\ usedNum' = usedNum /\ InQueue' \in SUBSET InQueue
    BY DEF Deq, Goto, Control, TypeOK, InQueue, InQueuePCs, Threads
<1>2. Counted'
    BY <1>1, CountSame DEF Control
<1>4. TypeOK'
    BY <1>1 DEF Deq, Goto, Control, TypeOK, PCs, InQueuePCs, Threads
<1>5. Kinds' /\ InHand' /\ LockHeld' /\ DestroyedFirst' /\ PopFindsTask'
    BY ThreadAssumption DEF Deq, Goto, Control, TypeOK, Kinds, InHand, LockHeld, DestroyedFirst,
        PopFindsTask, WorkerPCs, ClientPCs, DestroyPCs, Threads
<1>. QED
    BY <1>2, <1>4, <1>5 DEF Control

LEMMA DeqInControl ==
    ASSUME Control, NEW w \in Workers, DeqIn(w)
    PROVE  Control'
<1>1. usedNum \in Nat /\ usedNum' = usedNum + 1 /\ InQueue' \in SUBSET (InQueue \cup {w})
    BY DEF DeqIn, Goto, Control, TypeOK, InQueue, InQueuePCs, Threads
<1>2. Counted'
    BY <1>1, CountUp DEF Control, Threads
<1>4. TypeOK'
    BY <1>1 DEF DeqIn, Goto, Control, TypeOK, PCs, InQueuePCs, Threads
<1>5. Kinds' /\ InHand' /\ LockHeld' /\ DestroyedFirst' /\ PopFindsTask'
    BY ThreadAssumption DEF DeqIn, Goto, Control, TypeOK, Kinds, InHand, LockHeld, DestroyedFirst,
        PopFindsTask, WorkerPCs, ClientPCs, DestroyPCs, Threads
<1>. QED
    BY <1>2, <1>4, <1>5 DEF Control

LEMMA DeqLockControl ==
    ASSUME Control, NEW w \in Workers, DeqLock(w)
    PROVE  Control'
<1>1. usedNum \in Nat /\ usedNum' = usedNum /\ InQueue' \in SUBSET InQueue
    BY DEF DeqLock, Goto, CanLock, Control, TypeOK, InQueue, InQueuePCs, Threads
<1>2. Counted'
    BY <1>1, CountSame DEF Control
<1>4. TypeOK'
    BY <1>1, ThreadAssumption DEF DeqLock, Goto, CanLock, Control, TypeOK, PCs, InQueuePCs, Threads
<1>5. Kinds' /\ InHand' /\ LockHeld' /\ DestroyedFirst' /\ PopFindsTask'
    BY ThreadAssumption DEF DeqLock, Goto, CanLock, Control, TypeOK, Kinds, InHand, LockHeld, DestroyedFirst,
        PopFindsTask, WorkerPCs, ClientPCs, DestroyPCs, Threads
<1>. QED
    BY <1>2, <1>4, <1>5 DEF Control

LEMMA DeqTestControl ==
    ASSUME Control, NEW w \in Workers, DeqTest(w)
    PROVE  Control'
<1>1. usedNum \in Nat /\ usedNum' = usedNum /\ InQueue' \in SUBSET InQueue
    BY DEF DeqTest, Goto, Control, TypeOK, InQueue, InQueuePCs, Threads
<1>2. Counted'
    BY <1>1, CountSame DEF Control
<1>4. TypeOK'
    BY <1>1 DEF DeqTest, Goto, Control, TypeOK, PCs, InQueuePCs, Threads
<1>5. Kinds' /\ InHand' /\ LockHeld' /\ DestroyedFirst' /\ PopFindsTask'
    BY ThreadAssumption DEF DeqTest, Goto, Control, TypeOK, Kinds, InHand, LockHeld, DestroyedFirst,
        PopFindsTask, WorkerPCs, ClientPCs, DestroyPCs, Threads
<1>. QED
    BY <1>2, <1>4, <1>5 DEF Control

LEMMA DeqWaitControl ==
    ASSUME Control, NEW w \in Workers, DeqWait(w)
    PROVE  Control'
<1>1. usedNum \in Nat /\ usedNum' = usedNum /\ InQueue' \in SUBSET InQueue
    BY DEF DeqWait, Goto, Control, TypeOK, InQueue, InQueuePCs, Threads
<1>2. Counted'
    BY <1>1, CountSame DEF Control
<1>4. TypeOK'
    BY <1>1, ThreadAssumption DEF DeqWait, Goto, Control, TypeOK, PCs, InQueuePCs, Threads
<1>5. Kinds' /\ InHand' /\ LockHeld' /\ DestroyedFirst' /\ PopFindsTask'
    BY ThreadAssumption DEF DeqWait, Goto, Control, TypeOK, Kinds, InHand, LockHeld, DestroyedFirst,
        PopFindsTask, WorkerPCs, ClientPCs, DestroyPCs, Threads
<1>. QED
    BY <1>2, <1>4, <1>5 DEF Control

LEMMA DeqPopControl ==
    ASSUME Control, NEW w \in Workers, DeqPop(w)
    PROVE  Control'
<1>1. usedNum \in Nat /\ usedNum' = usedNum /\ InQueue' \in SUBSET InQueue
    BY DEF DeqPop, Goto, Control, TypeOK, InQueue, InQueuePCs, Threads
<1>2. Counted'
    BY <1>1, CountSame DEF Control
<1>3. ~destroyed => Head(queue) \in Tasks /\ Tail(queue) \in Seq(Tasks)
    BY HeadTailProperties DEF DeqPop, Control, TypeOK, PopFindsTask
<1>4. TypeOK'
    BY <1>3, ThreadAssumption DEF DeqPop, Goto, Control, TypeOK, PCs, InQueuePCs, Threads
<1>5. Kinds' /\ InHand' /\ LockHeld' /\ DestroyedFirst' /\ PopFindsTask'
    BY ThreadAssumption, <1>3 DEF DeqPop, Goto, Control, TypeOK, Kinds, InHand, LockHeld, DestroyedFirst,
        PopFindsTask, WorkerPCs, ClientPCs, DestroyPCs, Threads
<1>. QED
    BY <1>2, <1>4, <1>5 DEF Control

LEMMA DeqOutControl ==
    ASSUME Control, NEW w \in Workers, DeqOut(w)
    PROVE  Control'
<1>1. usedNum \in Nat /\ usedNum' = usedNum - 1 /\ w \in InQueue /\ InQueue' = InQueue \ {w}
    BY DEF DeqOut, LeaveTo, Control, TypeOK, InQueue, InQueuePCs, Threads
<1>2. Counted' /\ usedNum' \in Nat
    BY <1>1, CountDown DEF Control
<1>4. TypeOK'
    BY <1>2 DEF DeqOut, LeaveTo, Control, TypeOK, PCs, InQueuePCs, Threads
<1>5. Kinds' /\ InHand' /\ LockHeld' /\ DestroyedFirst' /\ PopFindsTask'
    BY ThreadAssumption DEF DeqOut, LeaveTo, Control, TypeOK, Kinds, InHand, LockHeld, DestroyedFirst,
        PopFindsTask, WorkerPCs, ClientPCs, DestroyPCs, Threads
<1>. QED
    BY <1>2, <1>4, <1>5 DEF Control

LEMMA RunTaskControl ==
    ASSUME Control, NEW w \in Workers, RunTask(w)
    PROVE  Control'
<1>1. usedNum \in Nat /\ usedNum' = usedNum /\ InQueue' \in SUBSET InQueue
    BY DEF RunTask, Goto, Control, TypeOK, InQueue, InQueuePCs, Threads
<1>2. Counted'
    BY <1>1, CountSame DEF Control
<1>4. TypeOK'
    BY <1>1 DEF RunTask, Goto, Control, TypeOK, PCs, InQueuePCs, Threads, InHand, Tasks
<1>5. Kinds' /\ InHand' /\ LockHeld' /\ DestroyedFirst' /\ PopFindsTask'
    BY ThreadAssumption DEF RunTask, Goto, Control, TypeOK, Kinds, InHand, LockHeld, DestroyedFirst,
        PopFindsTask, WorkerPCs, ClientPCs, DestroyPCs, Threads
<1>. QED
    BY <1>2, <1>4, <1>5 DEF Control

LEMMA ClosePoolControl ==
    ASSUME Control, NEW c \in Clients, ClosePool(c)
    PROVE  Control'
<1>1. usedNum \in Nat /\ usedNum' = usedNum /\ InQueue' \in SUBSET InQueue
    BY DEF ClosePool, Goto, Control, TypeOK, InQueue, InQueuePCs, Threads
<1>2. Counted'
    BY <1>1, CountSame DEF Control
<1>4. TypeOK'
    BY <1>1 DEF ClosePool, Goto, Control, TypeOK, PCs, InQueuePCs, Threads
<1>5. Kinds' /\ InHand' /\ LockHeld' /\ DestroyedFirst' /\ PopFindsTask'
    BY ThreadAssumption DEF ClosePool, Goto, Control, TypeOK, Kinds, InHand, LockHeld, DestroyedFirst,
        PopFindsTask, WorkerPCs, ClientPCs, DestroyPCs, Threads
<1>. QED
    BY <1>2, <1>4, <1>5 DEF Control

LEMMA DesBroadcastControl ==
    ASSUME Control, NEW c \in Clients, DesBroadcast(c)
    PROVE  Control'
<1>1. usedNum \in Nat /\ usedNum' = usedNum /\ InQueue' \in SUBSET InQueue
    BY DEF DesBroadcast, BroadcastReady, Control, TypeOK, InQueue, InQueuePCs, Threads
<1>2. Counted'
    BY <1>1, CountSame DEF Control
<1>4. TypeOK'
    BY <1>1 DEF DesBroadcast, BroadcastReady, Control, TypeOK, PCs, InQueuePCs, Threads
<1>5. Kinds' /\ InHand' /\ LockHeld' /\ DestroyedFirst' /\ PopFindsTask'
    BY ThreadAssumption DEF DesBroadcast, BroadcastReady, Control, TypeOK, Kinds, InHand, LockHeld, DestroyedFirst,
        PopFindsTask, WorkerPCs, ClientPCs, DestroyPCs, Threads
<1>. QED
    BY <1>2, <1>4, <1>5 DEF Control

LEMMA DesCountControl ==
    ASSUME Control, NEW c \in Clients, DesCount(c)
    PROVE  Control'
<1>1. usedNum \in Nat /\ usedNum' = usedNum /\ InQueue' \in SUBSET InQueue
    BY DEF DesCount, Goto, Control, TypeOK, InQueue, InQueuePCs, Threads
<1>2. Counted'
    BY <1>1, CountSame DEF Control
<1>4. TypeOK'
    BY <1>1 DEF DesCount, Goto, Control, TypeOK, PCs, InQueuePCs, Threads
<1>5. Kinds' /\ InHand' /\ LockHeld' /\ DestroyedFirst' /\ PopFindsTask'
    BY ThreadAssumption DEF DesCount, Goto, Control, TypeOK, Kinds, InHand, LockHeld, DestroyedFirst,
        PopFindsTask, WorkerPCs, ClientPCs, DestroyPCs, Threads
<1>. QED
    BY <1>2, <1>4, <1>5 DEF Control

LEMMA DesFreeControl ==
    ASSUME Control, NEW c \in Clients, DesFree(c)
    PROVE  Control'
<1>1. usedNum \in Nat /\ usedNum' = usedNum /\ InQueue' \in SUBSET InQueue
    BY DEF DesFree, Goto, Control, TypeOK, InQueue, InQueuePCs, Threads
<1>2. Counted'
    BY <1>1, CountSame DEF Control
<1>3. queue' \in Seq(Tasks) /\ {queue[i] : i \in 1..Len(queue)} \subseteq Tasks
    BY EmptySeq, ElementOfSeq DEF DesFree, Control, TypeOK
<1>4. TypeOK'
    BY <1>3 DEF DesFree, Goto, Control, TypeOK, PCs, Threads
<1>5. Kinds' /\ InHand' /\ LockHeld' /\ DestroyedFirst' /\ PopFindsTask'
    BY ThreadAssumption DEF DesFree, Goto, Control, TypeOK, Kinds, InHand, LockHeld, DestroyedFirst,
        PopFindsTask, WorkerPCs, ClientPCs, DestroyPCs, Threads
<1>. QED
    BY <1>2, <1>4, <1>5 DEF Control

LEMMA JoinControl ==
    ASSUME Control, NEW c \in Clients, Join(c)
    PROVE  Control'
<1>1. usedNum \in Nat /\ usedNum' = usedNum /\ InQueue' \in SUBSET InQueue
    BY DEF Join, Goto, Control, TypeOK, InQueue, InQueuePCs, Threads
<1>2. Counted'
    BY <1>1, CountSame DEF Control
<1>4. TypeOK'
    BY <1>1 DEF Join, Goto, Control, TypeOK, PCs, InQueuePCs, Threads
<1>5. Kinds' /\ InHand' /\ LockHeld' /\ DestroyedFirst' /\ PopFindsTask'
    BY ThreadAssumption DEF Join, Goto, Control, TypeOK, Kinds, InHand, LockHeld, DestroyedFirst,
        PopFindsTask, WorkerPCs, ClientPCs, DestroyPCs, Threads
<1>. QED
    BY <1>2, <1>4, <1>5 DEF Control

LEMMA SpuriousWakeupControl ==
    ASSUME Control, NEW t \in Threads, SpuriousWakeup(t)
    PROVE  Control'
<1>1. usedNum \in Nat /\ usedNum' = usedNum /\ InQueue' \in SUBSET InQueue
    BY DEF SpuriousWakeup, Goto, Control, TypeOK, InQueue, InQueuePCs, Threads
<1>2. Counted'
    BY <1>1, CountSame DEF Control
<1>4. TypeOK'
    BY <1>1 DEF SpuriousWakeup, Goto, Control, TypeOK, PCs, InQueuePCs, Threads
<1>5. Kinds' /\ InHand' /\ LockHeld' /\ DestroyedFirst' /\ PopFindsTask'
    BY ThreadAssumption DEF SpuriousWakeup, Goto, Control, TypeOK, Kinds, InHand, LockHeld, DestroyedFirst,
        PopFindsTask, WorkerPCs, ClientPCs, DestroyPCs, Threads
<1>. QED
    BY <1>2, <1>4, <1>5 DEF Control

-----------------------------------------------------------------------------
(* The same for TasksAccounted.  First what the sets of tasks become. *)

(* What the threads hold when one of them takes up or lays down a task. *)
LEMMA HeldChange ==
    ASSUME TypeOK, TasksAccounted, NEW t \in Threads, NEW k \in Tasks \cup {NoTask},
           task' = [task EXCEPT ![t] = k]
    PROVE  Held' = ((Held \ {task[t]}) \cup {k}) \ {NoTask}
<1>1. \A s \in Threads : s # t /\ task[s] # NoTask => task[s] # task[t]
    BY DEF TasksAccounted
<1>2. task \in [Threads -> Tasks \cup {NoTask}]
    BY DEF TypeOK
<1>. QED
    BY <1>1, <1>2 DEF Held

(* A step that moves no task. *)
LEMMA NothingMoves ==
    ASSUME TasksAccounted, UNCHANGED <<task, queue, nextTask, done, dropped>>
    PROVE  TasksAccounted'
<1>1. Held' = Held
    BY DEF Held
<1>2. Queued' = Queued
    BY DEF Queued
<1>3. nextTask' = nextTask /\ done' = done /\ dropped' = dropped
    OBVIOUS
<1>4. task' = task /\ queue' = queue
    OBVIOUS
<1>5. /\ (1..(nextTask - 1))' = Held' \cup Queued' \cup done' \cup dropped'
      /\ Held' \cap (Queued' \cup done' \cup dropped') = {}
      /\ Queued' \cap (done' \cup dropped') = {}
      /\ done' \cap dropped' = {}
    BY <1>1, <1>2, <1>3, Zenon DEF TasksAccounted
<1>6. /\ \A s, t \in Threads : s # t /\ task'[s] # NoTask => task'[s] # task'[t]
      /\ \A i, j \in 1..Len(queue') : queue'[i] = queue'[j] => i = j
    BY <1>4, Zenon DEF TasksAccounted
<1>. QED
    BY <1>5, <1>6, Zenon DEF TasksAccounted

(* No task that AddTask has yet to allocate is anywhere. *)
LEMMA NextIsNew ==
    ASSUME TypeOK, TasksAccounted
    PROVE  nextTask \notin Held \cup Queued \cup done \cup dropped
<1>1. nextTask \in Nat /\ nextTask \notin 1..(nextTask - 1)
    BY TaskAssumption DEF TypeOK
<1>. QED
    BY <1>1 DEF TasksAccounted

LEMMA AddTaskAccounted ==
    ASSUME Inv, NEW c \in Clients, AddTask(c)
    PROVE  TasksAccounted'
<1>1. TypeOK /\ TasksAccounted /\ c \in Threads /\ task[c] = NoTask
    BY DEF Inv, Control, InHand, AddTask, Threads
<1>2. nextTask \in Tasks /\ nextTask # NoTask
    BY TaskAssumption DEF AddTask, Tasks
<1>3. nextTask \notin Held \cup Queued \cup done \cup dropped
    BY <1>1, NextIsNew
<1>4. 1..(nextTask' - 1) = (1..(nextTask - 1)) \cup {nextTask}
    BY <1>2 DEF AddTask, Tasks
<1>5. Queued' = Queued /\ done' = done
    BY DEF AddTask, Queued
<1>6. CASE destroyed
  <2>1. Held' = Held /\ dropped' = dropped \cup {nextTask} /\ UNCHANGED <<task, queue>>
      BY <1>6 DEF AddTask, Held
  <2>. QED
      BY <1>1, <1>3, <1>4, <1>5, <2>1 DEF TasksAccounted
<1>7. CASE ~destroyed
  <2>1. task' = [task EXCEPT ![c] = nextTask] /\ dropped' = dropped /\ queue' = queue
      BY <1>7 DEF AddTask
  <2>2. Held' = ((Held \ {task[c]}) \cup {nextTask}) \ {NoTask}
      BY <1>1, <1>2, <2>1, HeldChange
  <2>3. Held' = Held \cup {nextTask}
      BY <1>1, <1>2, <2>2 DEF Held
  <2>4. \A r, t \in Threads : r # t /\ task'[r] # NoTask => task'[r] # task'[t]
      BY <1>1, <1>2, <1>3, <2>1 DEF TasksAccounted, TypeOK, Held
  <2>. QED
      BY <1>1, <1>3, <1>4, <1>5, <2>1, <2>3, <2>4 DEF TasksAccounted
<1>. QED
    BY <1>6, <1>7

(* A thread lays down its task: it is nowhere else. *)
LEMMA LayDown ==
    ASSUME TypeOK, TasksAccounted, NEW t \in Threads, task[t] # NoTask,
           task' = [task EXCEPT ![t] = NoTask]
    PROVE  /\ Held' = Held \ {task[t]}
           /\ task[t] \in Tasks /\ task[t] \in Held
           /\ task[t] \notin Queued \cup done \cup dropped
           /\ \A r, u \in Threads : r # u /\ task'[r] # NoTask => task'[r] # task'[u]
<1>1. Held' = ((Held \ {task[t]}) \cup {NoTask}) \ {NoTask}
    BY HeldChange
<1>2. task[t] \in Tasks /\ task[t] \in Held
    BY DEF TypeOK, Held
<1>. QED
    BY <1>1, <1>2 DEF TasksAccounted, TypeOK, Held

LEMMA EnqPutAccounted ==
    ASSUME Inv, NEW c \in Clients, EnqPut(c)
    PROVE  TasksAccounted'
<1>1. TypeOK /\ TasksAccounted /\ c \in Threads /\ task[c] # NoTask
    BY DEF Inv, Control, InHand, EnqPut, Threads
<1>2. task' = [task EXCEPT ![c] = NoTask] /\ UNCHANGED <<nextTask, done>>
    BY DEF EnqPut
<1>3. /\ Held' = Held \ {task[c]}
      /\ task[c] \in Tasks /\ task[c] \in Held
      /\ task[c] \notin Queued \cup done \cup dropped
      /\ \A r, u \in Threads : r # u /\ task'[r] # NoTask => task'[r] # task'[u]
    BY <1>1, <1>2, LayDown
<1>4. CASE destroyed
  <2>1. dropped' = dropped \cup {task[c]} /\ queue' = queue /\ Queued' = Queued
      BY <1>4 DEF EnqPut, Queued
  <2>. QED
      BY <1>1, <1>2, <1>3, <2>1 DEF TasksAccounted
<1>5. CASE ~destroyed
  <2>1. queue' = Append(queue, task[c]) /\ dropped' = dropped
      BY <1>5 DEF EnqPut
  <2>2. Queued' = Queued \cup {task[c]} /\ NoRepeat(queue')
      BY <1>1, <1>3, <2>1, ElementsOfAppend
      DEF TypeOK, TasksAccounted, Queued, Elements, NoRepeat
  <2>. QED
      BY <1>1, <1>2, <1>3, <2>1, <2>2 DEF TasksAccounted, NoRepeat
<1>. QED
    BY <1>4, <1>5

LEMMA UseAfterFreeAccounted ==
    ASSUME Inv, NEW c \in Clients, UseAfterFree(c)
    PROVE  TasksAccounted'
<1>1. TypeOK /\ TasksAccounted /\ c \in Threads /\ task[c] # NoTask
    BY DEF Inv, Control, InHand, UseAfterFree, Threads
<1>2. /\ task' = [task EXCEPT ![c] = NoTask]
      /\ dropped' = dropped \cup {task[c]}
      /\ UNCHANGED <<nextTask, done, queue>>
    BY DEF UseAfterFree
<1>3. /\ Held' = Held \ {task[c]}
      /\ task[c] \in Held
      /\ task[c] \notin Queued \cup done \cup dropped
      /\ \A r, u \in Threads : r # u /\ task'[r] # NoTask => task'[r] # task'[u]
    BY <1>1, <1>2, LayDown
<1>4. Queued' = Queued
    BY <1>2 DEF Queued
<1>. QED
    BY <1>1, <1>2, <1>3, <1>4 DEF TasksAccounted

LEMMA RunTaskAccounted ==
    ASSUME Inv, NEW w \in Workers, RunTask(w)
    PROVE  TasksAccounted'
<1>1. TypeOK /\ TasksAccounted /\ w \in Threads /\ task[w] # NoTask
    BY DEF Inv, Control, InHand, RunTask, Threads
<1>2. /\ task' = [task EXCEPT ![w] = NoTask]
      /\ done' = done \cup {task[w]}
      /\ UNCHANGED <<nextTask, dropped, queue>>
    BY DEF RunTask
<1>3. /\ Held' = Held \ {task[w]}
      /\ task[w] \in Held
      /\ task[w] \notin Queued \cup done \cup dropped
      /\ \A r, u \in Threads : r # u /\ task'[r] # NoTask => task'[r] # task'[u]
    BY <1>1, <1>2, LayDown
<1>4. Queued' = Queued
    BY <1>2 DEF Queued
<1>. QED
    BY <1>1, <1>2, <1>3, <1>4 DEF TasksAccounted

LEMMA DeqPopAccounted ==
    ASSUME Inv, NEW w \in Workers, DeqPop(w)
    PROVE  TasksAccounted'
<1>1. TypeOK /\ TasksAccounted /\ w \in Threads /\ task[w] = NoTask
    BY DEF Inv, Control, InHand, DeqPop, Threads
<1>2. UNCHANGED <<nextTask, done, dropped>>
    BY DEF DeqPop
<1>3. CASE destroyed
    BY <1>1, <1>2, <1>3, NothingMoves DEF DeqPop
<1>4. CASE ~destroyed
  <2>1. queue # <<>> /\ queue' = Tail(queue) /\ task' = [task EXCEPT ![w] = Head(queue)]
      BY <1>4 DEF DeqPop, Inv, Control, PopFindsTask
  <2>a. queue \in Seq(Tasks) /\ NoRepeat(queue)
      BY <1>1 DEF TypeOK, TasksAccounted, NoRepeat
  <2>b. Queued = Elements(queue) /\ Queued' = Elements(queue')
      BY DEF Queued, Elements
  <2>2. /\ Queued = Queued' \cup {Head(queue)} /\ Head(queue) \notin Queued'
        /\ NoRepeat(queue')
      BY <2>a, <2>b, <2>1, ElementsOfTail
  <2>3. Head(queue) \in Tasks /\ Head(queue) # NoTask
      BY <1>1, <2>1, HeadTailProperties, TaskAssumption DEF TypeOK, Tasks
  <2>4. Held' = ((Held \ {task[w]}) \cup {Head(queue)}) \ {NoTask}
      BY <1>1, <2>1, <2>3, HeldChange
  <2>5. Held' = Held \cup {Head(queue)}
      BY <1>1, <2>3, <2>4 DEF Held
  <2>6. Head(queue) \notin Held \cup done \cup dropped
      BY <1>1, <2>2 DEF TasksAccounted
  <2>7. \A r, u \in Threads : r # u /\ task'[r] # NoTask => task'[r] # task'[u]
      BY <1>1, <2>1, <2>3, <2>6 DEF TasksAccounted, TypeOK, Held
  <2>. QED
      BY <1>1, <1>2, <2>1, <2>2, <2>5, <2>6, <2>7 DEF TasksAccounted, NoRepeat
<1>. QED
    BY <1>3, <1>4

LEMMA DesFreeAccounted ==
    ASSUME Inv, NEW c \in Clients, DesFree(c)
    PROVE  TasksAccounted'
<1>1. TasksAccounted /\ Held' = Held
    BY DEF Inv, DesFree, Held
<1>2. Queued' = {} /\ dropped' = dropped \cup Queued /\ queue' = <<>>
    BY DEF DesFree, Queued
<1>. QED
    BY <1>1, <1>2 DEF TasksAccounted, DesFree

-----------------------------------------------------------------------------
LEMMA InitInv == Init => Inv
<1>. SUFFICES ASSUME Init PROVE Inv
    OBVIOUS
<1>1. InQueue = {}
    BY DEF Init, InQueue, InQueuePCs, Threads
<1>2. Counted
    BY <1>1, FS_EmptySet DEF Counted, Init
<1>a. pc \in [Threads -> PCs] /\ task \in [Threads -> Tasks \cup {NoTask}]
    BY DEF Init, PCs
<1>b. nextTask \in 1..(MaxTasks + 1) /\ queue \in Seq(Tasks)
    BY TaskAssumption DEF Init
<1>3. TypeOK
    BY <1>a, <1>b DEF Init, TypeOK
<1>4. Kinds /\ InHand /\ LockHeld /\ DestroyedFirst /\ PopFindsTask
    BY ThreadAssumption DEF Init, Kinds, InHand, LockHeld, DestroyedFirst, PopFindsTask,
        WorkerPCs, ClientPCs, DestroyPCs, Threads
<1>5. Held = {} /\ Queued = {} /\ 1..(nextTask - 1) = {}
    BY DEF Init, Held, Queued
<1>6. TasksAccounted
    BY <1>5 DEF Init, TasksAccounted
<1>. QED
    BY <1>2, <1>3, <1>4, <1>6 DEF Inv, Control

LEMMA StepInv == Inv /\ [Next]_vars => Inv'
<1>. SUFFICES ASSUME Inv, [Next]_vars PROVE Inv'
    OBVIOUS
<1>a. Control /\ TasksAccounted
    BY DEF Inv
<1>b. Closers \subseteq Clients
    BY ThreadAssumption
<1>1. ASSUME NEW c \in Clients, AddTask(c) PROVE Inv'
    BY <1>1, <1>a, AddTaskControl, AddTaskAccounted DEF Inv
<1>2. ASSUME NEW c \in Clients, ClientStep(c) PROVE Inv'
  <2>1. CASE EnqIn(c)
      BY <2>1, <1>a, EnqInControl, NothingMoves DEF Inv, EnqIn
  <2>2. CASE EnqPut(c)
      BY <2>2, <1>a, EnqPutControl, EnqPutAccounted DEF Inv
  <2>3. CASE EnqSignal(c)
      BY <2>3, <1>a, EnqSignalControl, NothingMoves DEF Inv, EnqSignal
  <2>4. CASE EnqOut(c)
      BY <2>4, <1>a, EnqOutControl, NothingMoves DEF Inv, EnqOut
  <2>5. CASE UseAfterFree(c)
      BY <2>5, <1>a, UseAfterFreeControl, UseAfterFreeAccounted DEF Inv
  <2>6. CASE DesBroadcast(c)
      BY <2>6, <1>a, DesBroadcastControl, NothingMoves DEF Inv, DesBroadcast
  <2>7. CASE DesCount(c)
      BY <2>7, <1>a, DesCountControl, NothingMoves DEF Inv, DesCount
  <2>8. CASE DesFree(c)
      BY <2>8, <1>a, DesFreeControl, DesFreeAccounted DEF Inv
  <2>9. CASE Join(c)
      BY <2>9, <1>a, JoinControl, NothingMoves DEF Inv, Join
  <2>. QED
      BY <1>2, <2>1, <2>2, <2>3, <2>4, <2>5, <2>6, <2>7, <2>8, <2>9 DEF ClientStep
<1>3. ASSUME NEW c \in Closers, ClosePool(c) PROVE Inv'
    BY <1>3, <1>a, <1>b, ClosePoolControl, NothingMoves DEF Inv, ClosePool
<1>4. ASSUME NEW w \in Workers, WorkerStep(w) PROVE Inv'
  <2>1. CASE Deq(w)
      BY <2>1, <1>a, DeqControl, NothingMoves DEF Inv, Deq
  <2>2. CASE DeqIn(w)
      BY <2>2, <1>a, DeqInControl, NothingMoves DEF Inv, DeqIn
  <2>3. CASE DeqLock(w)
      BY <2>3, <1>a, DeqLockControl, NothingMoves DEF Inv, DeqLock
  <2>4. CASE DeqTest(w)
      BY <2>4, <1>a, DeqTestControl, NothingMoves DEF Inv, DeqTest
  <2>5. CASE DeqWait(w)
      BY <2>5, <1>a, DeqWaitControl, NothingMoves DEF Inv, DeqWait
  <2>6. CASE DeqPop(w)
      BY <2>6, <1>a, DeqPopControl, DeqPopAccounted DEF Inv
  <2>7. CASE DeqOut(w)
      BY <2>7, <1>a, DeqOutControl, NothingMoves DEF Inv, DeqOut
  <2>8. CASE RunTask(w)
      BY <2>8, <1>a, RunTaskControl, RunTaskAccounted DEF Inv
  <2>. QED
      BY <1>4, <2>1, <2>2, <2>3, <2>4, <2>5, <2>6, <2>7, <2>8 DEF WorkerStep
<1>5. ASSUME NEW t \in Threads, SpuriousWakeup(t) PROVE Inv'
    BY <1>5, <1>a, SpuriousWakeupControl, NothingMoves DEF Inv, SpuriousWakeup
<1>6. ASSUME UNCHANGED vars PROVE Inv'
  <2>1. TypeOK' /\ Kinds' /\ InHand' /\ LockHeld' /\ DestroyedFirst' /\ PopFindsTask'
      BY <1>6, <1>a DEF vars, Control, TypeOK, Kinds, InHand, LockHeld, DestroyedFirst,
          PopFindsTask
  <2>2. usedNum \in Nat /\ usedNum' = usedNum /\ InQueue' = InQueue
      BY <1>6, <1>a DEF vars, InQueue, Control, TypeOK
  <2>3. Counted'
      BY <2>2, <1>a DEF Control, Counted
  <2>4. TasksAccounted'
      BY <1>6, <1>a, NothingMoves DEF vars
  <2>. QED
      BY <2>1, <2>3, <2>4 DEF Inv, Control
<1>. QED
    BY <1>1, <1>2, <1>3, <1>4, <1>5, <1>6 DEF Next

(* Inv is an invariant of the pool, whatever the number of its threads. *)
THEOREM Invariance == Spec => []Inv
<1>. QED
    BY InitInv, StepInv, PTL DEF Spec

(* usedNum is never decremented below zero, and no variable of queue.c     *)
(* leaves its type, SafeDestroy and late callers included.                 *)
THEOREM TypeCorrect == Spec => []TypeOK
<1>1. Inv => TypeOK
    BY DEF Inv, Control
<1>. QED
    BY <1>1, Invariance, PTL

(* SafeDeque never unlinks from an empty list (queue.c:84-86). *)
THEOREM PopSafe == Spec => []PopFindsTask
<1>1. Inv => PopFindsTask
    BY DEF Inv, Control
<1>. QED
    BY <1>1, Invariance, PTL

(* No task is lost, duplicated or run twice (SafeEnque, SafeDeque, worker  *)
(* and SafeDestroy), for any number of threads and any interleaving.       *)
THEOREM NoTaskLost == Spec => []TasksAccounted
<1>1. Inv => TasksAccounted
    BY DEF Inv
<1>. QED
    BY <1>1, Invariance, PTL

-----------------------------------------------------------------------------
(* What SafeDestroy has waited for stays true: nobody who was in the queue *)
(* when usedNum was seen to be 0 is in it, and who comes later only passes *)
(* through.                                                                *)
LEMMA StepQuiesces == Inv /\ DestroyQuiesces /\ [Next]_vars => DestroyQuiesces'
<1>. SUFFICES ASSUME Inv, DestroyQuiesces, [Next]_vars PROVE DestroyQuiesces'
    OBVIOUS
<1>a. Control
    BY DEF Inv
<1>b. DestroyQuiesces
    OBVIOUS
<1>1. ASSUME NEW c \in Clients, AddTask(c) PROVE DestroyQuiesces'
    BY <1>1, <1>a, <1>b, ThreadAssumption DEF AddTask, Goto, Control, TypeOK,
        DestroyQuiesces, InQueue, InQueuePCs, Threads
<1>2. ASSUME NEW c \in Clients, ClientStep(c) PROVE DestroyQuiesces'
  <2>1. CASE EnqIn(c)
      BY <2>1, <1>a, <1>b, ThreadAssumption DEF EnqIn, Goto, Control, TypeOK, Kinds, InHand, DestroyedFirst,
          DestroyQuiesces, InQueue, InQueuePCs, WorkerPCs, ClientPCs, DestroyPCs, Threads
  <2>2. CASE EnqPut(c)
      BY <2>2, <1>a, <1>b, ThreadAssumption DEF EnqPut, Goto, Control, TypeOK, Kinds, InHand, DestroyedFirst,
          DestroyQuiesces, InQueue, InQueuePCs, WorkerPCs, ClientPCs, DestroyPCs, Threads
  <2>3. CASE EnqSignal(c)
      BY <2>3, <1>a, <1>b, ThreadAssumption DEF EnqSignal, SignalReady, At, Goto, Control, TypeOK, Kinds, InHand, DestroyedFirst,
          DestroyQuiesces, InQueue, InQueuePCs, WorkerPCs, ClientPCs, DestroyPCs, Threads
  <2>4. CASE EnqOut(c)
      BY <2>4, <1>a, <1>b, ThreadAssumption DEF EnqOut, LeaveTo, Control, TypeOK, Kinds, InHand, DestroyedFirst,
          DestroyQuiesces, InQueue, InQueuePCs, WorkerPCs, ClientPCs, DestroyPCs, Threads
  <2>5. CASE UseAfterFree(c)
      BY <2>5, <1>a, <1>b, ThreadAssumption DEF UseAfterFree, Goto, Control, TypeOK, Kinds, InHand, DestroyedFirst,
          DestroyQuiesces, InQueue, InQueuePCs, WorkerPCs, ClientPCs, DestroyPCs, Threads
  <2>6. CASE DesBroadcast(c)
      BY <2>6, <1>a, <1>b, ThreadAssumption DEF DesBroadcast, BroadcastReady, Control, TypeOK, Kinds, InHand, DestroyedFirst,
          DestroyQuiesces, InQueue, InQueuePCs, WorkerPCs, ClientPCs, DestroyPCs, Threads
  <2>7. CASE DesFree(c)
      BY <2>7, <1>a, <1>b, ThreadAssumption DEF DesFree, Goto, Control, TypeOK, Kinds, InHand, DestroyedFirst,
          DestroyQuiesces, InQueue, InQueuePCs, WorkerPCs, ClientPCs, DestroyPCs, Threads
  <2>8. CASE Join(c)
      BY <2>8, <1>a, <1>b, ThreadAssumption DEF Join, Goto, Control, TypeOK, Kinds, InHand, DestroyedFirst,
          DestroyQuiesces, InQueue, InQueuePCs, WorkerPCs, ClientPCs, DestroyPCs, Threads
  <2>9. CASE DesCount(c) /\ usedNum > 0
      BY <2>9, <1>a, <1>b, ThreadAssumption DEF DesCount, Goto, Control, TypeOK,
          DestroyQuiesces, InQueue, InQueuePCs, Threads
  <2>10. CASE DesCount(c) /\ ~(usedNum > 0)
    <3>1. InQueue \in SUBSET Threads
        BY DEF InQueue
    <3>2. IsFiniteSet(InQueue) /\ Cardinality(InQueue) \in Nat
        BY <3>1, ThreadSets
    <3>3. usedNum = 0 /\ Cardinality(InQueue) <= usedNum
        BY <2>10, <1>a DEF Control, TypeOK, Counted
    <3>4. InQueue = {}
        BY <3>2, <3>3, FS_EmptySet
    <3>5. InQueue' = {}
        BY <3>4, <2>10, <1>a DEF DesCount, Goto, InQueue, InQueuePCs, Control, TypeOK
    <3>. QED
        BY <3>5 DEF DestroyQuiesces
  <2>. QED
      BY <1>2, <2>1, <2>2, <2>3, <2>4, <2>5, <2>6, <2>7, <2>8, <2>9, <2>10 DEF ClientStep
<1>3. ASSUME NEW c \in Closers, ClosePool(c) PROVE DestroyQuiesces'
    BY <1>3, <1>a, <1>b, ThreadAssumption DEF ClosePool, Goto, Control, TypeOK,
        DestroyQuiesces, InQueue, InQueuePCs, Threads
<1>4. ASSUME NEW w \in Workers, WorkerStep(w) PROVE DestroyQuiesces'
  <2>1. CASE Deq(w)
      BY <2>1, <1>a, <1>b, ThreadAssumption DEF Deq, Goto, Control, TypeOK, Kinds, InHand, DestroyedFirst,
          DestroyQuiesces, InQueue, InQueuePCs, WorkerPCs, ClientPCs, DestroyPCs, Threads
  <2>2. CASE DeqIn(w)
      BY <2>2, <1>a, <1>b, ThreadAssumption DEF DeqIn, Goto, Control, TypeOK, Kinds, InHand, DestroyedFirst,
          DestroyQuiesces, InQueue, InQueuePCs, WorkerPCs, ClientPCs, DestroyPCs, Threads
  <2>3. CASE DeqLock(w)
      BY <2>3, <1>a, <1>b, ThreadAssumption DEF DeqLock, Goto, Control, TypeOK, Kinds, InHand, DestroyedFirst,
          DestroyQuiesces, InQueue, InQueuePCs, WorkerPCs, ClientPCs, DestroyPCs, Threads
  <2>4. CASE DeqTest(w)
      BY <2>4, <1>a, <1>b, ThreadAssumption DEF DeqTest, Goto, Control, TypeOK, Kinds, InHand, DestroyedFirst,
          DestroyQuiesces, InQueue, InQueuePCs, WorkerPCs, ClientPCs, DestroyPCs, Threads
  <2>5. CASE DeqWait(w)
      BY <2>5, <1>a, <1>b, ThreadAssumption DEF DeqWait, Goto, Control, TypeOK, Kinds, InHand, DestroyedFirst,
          DestroyQuiesces, InQueue, InQueuePCs, WorkerPCs, ClientPCs, DestroyPCs, Threads
  <2>6. CASE DeqPop(w)
      BY <2>6, <1>a, <1>b, ThreadAssumption DEF DeqPop, Goto, Control, TypeOK, Kinds, InHand, DestroyedFirst,
          DestroyQuiesces, InQueue, InQueuePCs, WorkerPCs, ClientPCs, DestroyPCs, Threads
  <2>7. CASE DeqOut(w)
      BY <2>7, <1>a, <1>b, ThreadAssumption DEF DeqOut, LeaveTo, Control, TypeOK, Kinds, InHand, DestroyedFirst,
          DestroyQuiesces, InQueue, InQueuePCs, WorkerPCs, ClientPCs, DestroyPCs, Threads
  <2>8. CASE RunTask(w)
      BY <2>8, <1>a, <1>b, ThreadAssumption DEF RunTask, Goto, Control, TypeOK, Kinds, InHand, DestroyedFirst,
          DestroyQuiesces, InQueue, InQueuePCs, WorkerPCs, ClientPCs, DestroyPCs, Threads
  <2>. QED
      BY <1>4, <2>1, <2>2, <2>3, <2>4, <2>5, <2>6, <2>7, <2>8 DEF WorkerStep
<1>5. ASSUME NEW t \in Threads, SpuriousWakeup(t) PROVE DestroyQuiesces'
    BY <1>5, <1>a, <1>b, ThreadAssumption DEF SpuriousWakeup, Goto, Control, TypeOK, Kinds,
        DestroyQuiesces, InQueue, InQueuePCs, WorkerPCs, ClientPCs, DestroyPCs, Threads
<1>6. ASSUME UNCHANGED vars PROVE DestroyQuiesces'
    BY <1>6, <1>b DEF vars, DestroyQuiesces, InQueue
<1>. QED
    BY <1>1, <1>2, <1>3, <1>4, <1>5, <1>6 DEF Next

(* Once SafeDestroy has gone past its wait for usedNum, no thread sleeps   *)
(* on the queue's condition variables or holds a node of its list.         *)
THEOREM DestroySafe == Spec => []DestroyQuiesces
<1>1. Init => DestroyQuiesces
    BY ThreadAssumption DEF Init, DestroyQuiesces, Threads
<1>. QED
    BY <1>1, StepQuiesces, Invariance, PTL DEF Spec

-----------------------------------------------------------------------------
(* Refinement of TaskQueue. *)

(* A task that is nowhere, or only in the hand of a client, is fresh. *)
LEMMA FreshTask ==
    ASSUME NEW k \in Tasks, k \notin Queued \cup done \cup dropped,
           \A w \in Workers : task[w] # k
    PROVE  k \in TQ!Fresh
BY DEF TQ!Fresh, TQ!Queued, TQ!Taken, Queued, Threads

LEMMA StepRefines == Inv /\ [Next]_vars => [TQ!Next]_(TQ!vars)
<1>. SUFFICES ASSUME Inv, [Next]_vars PROVE [TQ!Next]_(TQ!vars)
    OBVIOUS
<1>. DEFINE run == [w \in Workers |-> task[w]]
<1>a. Control /\ TasksAccounted /\ TypeOK
    BY DEF Inv, Control
<1>1. ASSUME NEW c \in Clients, AddTask(c) PROVE [TQ!Next]_(TQ!vars)
  <2>1. CASE ~destroyed
    <3>1. run' = run
        BY <2>1, <1>1, <1>a, ThreadAssumption DEF AddTask, TypeOK, Threads
    <3>. QED
        BY <3>1, <2>1, <1>1 DEF AddTask, TQ!vars
  <2>2. CASE destroyed
    <3>1. nextTask \in Tasks /\ nextTask \notin Held \cup Queued \cup done \cup dropped
        BY <1>1, <1>a, NextIsNew DEF AddTask
    <3>2. \A w \in Workers : task[w] # nextTask
        BY <3>1, TaskAssumption DEF Held, Threads, Tasks
    <3>3. nextTask \in TQ!Fresh
        BY <3>1, <3>2, FreshTask
    <3>4. TQ!Refuse(nextTask)
        BY <3>3, <2>2, <1>1 DEF AddTask, TQ!Refuse
    <3>. QED
        BY <3>1, <3>4 DEF TQ!Next
  <2>. QED
      BY <2>1, <2>2
<1>2. ASSUME NEW c \in Clients, EnqPut(c) \/ UseAfterFree(c) PROVE [TQ!Next]_(TQ!vars)
  <2>1. task[c] # NoTask /\ c \in Threads /\ task[c] \in Tasks
      BY <1>2, <1>a DEF EnqPut, UseAfterFree, Control, InHand, TypeOK, Threads
  <2>2. task[c] \notin Queued \cup done \cup dropped
      BY <2>1, <1>a DEF TasksAccounted, Held
  <2>3. \A w \in Workers : task[w] # task[c]
      BY <2>1, <1>a, ThreadAssumption DEF TasksAccounted, Threads
  <2>4. task[c] \in TQ!Fresh
      BY <2>1, <2>2, <2>3, FreshTask
  <2>5. run' = run
      BY <1>2, <1>a, ThreadAssumption DEF EnqPut, UseAfterFree, TypeOK, Threads
  <2>6. CASE ~destroyed
    <3>1. TQ!Submit(task[c])
        BY <2>4, <2>5, <2>6, <1>2, <1>a
        DEF EnqPut, UseAfterFree, Control, DestroyedFirst, TQ!Submit
    <3>. QED
        BY <3>1, <2>1 DEF TQ!Next
  <2>7. CASE destroyed
    <3>1. TQ!Refuse(task[c])
        BY <2>4, <2>5, <2>7, <1>2 DEF EnqPut, UseAfterFree, TQ!Refuse
    <3>. QED
        BY <3>1, <2>1 DEF TQ!Next
  <2>. QED
      BY <2>6, <2>7
<1>3. ASSUME NEW c \in Clients, DesFree(c) PROVE [TQ!Next]_(TQ!vars)
  <2>1. destroyed
      BY <1>3, <1>a DEF DesFree, Control, DestroyedFirst, DestroyPCs
  <2>2. TQ!Discard
      BY <2>1, <1>3 DEF DesFree, TQ!Discard, TQ!Queued
  <2>. QED
      BY <2>2 DEF TQ!Next
<1>4. ASSUME NEW c \in Closers, ClosePool(c) PROVE [TQ!Next]_(TQ!vars)
    BY <1>4 DEF ClosePool, TQ!Shut, TQ!Next
<1>5. ASSUME NEW w \in Workers, DeqPop(w) PROVE [TQ!Next]_(TQ!vars)
  <2>1. CASE destroyed
      BY <2>1, <1>5 DEF DeqPop, TQ!vars
  <2>2. CASE ~destroyed
    <3>1. queue # <<>> /\ task[w] = NoTask
        BY <2>2, <1>5, <1>a DEF DeqPop, Control, PopFindsTask, InHand
    <3>2. run' = [run EXCEPT ![w] = Head(queue)]
        BY <2>2, <1>5, <1>a DEF DeqPop, TypeOK, Threads
    <3>3. TQ!Take(w)
        BY <3>1, <3>2, <2>2, <1>5 DEF DeqPop, TQ!Take
    <3>. QED
        BY <3>3 DEF TQ!Next
  <2>. QED
      BY <2>1, <2>2
<1>6. ASSUME NEW w \in Workers, RunTask(w) PROVE [TQ!Next]_(TQ!vars)
  <2>1. run' = [run EXCEPT ![w] = NoTask] /\ task[w] # NoTask
      BY <1>6, <1>a DEF RunTask, Control, InHand, TypeOK, Threads
  <2>2. TQ!Finish(w)
      BY <2>1, <1>6 DEF RunTask, TQ!Finish
  <2>. QED
      BY <2>2 DEF TQ!Next
<1>7. ASSUME UNCHANGED <<task, queue, done, dropped, destroyed>> PROVE [TQ!Next]_(TQ!vars)
    BY <1>7 DEF TQ!vars
<1>8. ASSUME NEW c \in Clients, ClientStep(c) PROVE [TQ!Next]_(TQ!vars)
    BY <1>8, <1>2, <1>3, <1>7
    DEF ClientStep, EnqIn, EnqSignal, EnqOut, DesBroadcast, DesCount, Join
<1>9. ASSUME NEW w \in Workers, WorkerStep(w) PROVE [TQ!Next]_(TQ!vars)
    BY <1>9, <1>5, <1>6, <1>7
    DEF WorkerStep, Deq, DeqIn, DeqLock, DeqTest, DeqWait, DeqOut
<1>10. ASSUME NEW t \in Threads, SpuriousWakeup(t) PROVE [TQ!Next]_(TQ!vars)
    BY <1>10, <1>7 DEF SpuriousWakeup
<1>. QED
    BY <1>1, <1>4, <1>7, <1>8, <1>9, <1>10 DEF Next, vars

(* The pool with all its locks implements TaskQueue: first in first out,   *)
(* each task taken at most once, nothing queued or taken after ClosePool   *)
(* set destroyed.                                                          *)
THEOREM PoolRefinesTaskQueue == Spec => TaskQueueSpec
<1>1. Init => TQ!Init
    BY ThreadAssumption DEF Init, TQ!Init, Threads
<1>. QED
    BY <1>1, StepRefines, Invariance, PTL DEF Spec, TaskQueueSpec, TQ!Spec

-----------------------------------------------------------------------------
(* A worker sleeps only while every queued task is seen to. *)
Going      == {w \in Workers : pc[w] \in {"deqLock", "deqTest", "deqPop"}}
Sleeping   == At(Workers, "deqBlocked")
Signalling == At(Clients, "enqSignal")

(* A worker that is about to sleep has q_lock since it saw an empty queue: *)
(* without this the step to sleep could leave tasks behind.                *)
WaitsForNone ==
    \A w \in Workers : pc[w] = "deqWait" /\ ~destroyed => queue = <<>>

LEMMA AtHand ==
    /\ Going \in SUBSET Threads /\ Signalling \in SUBSET Threads
    /\ IsFiniteSet(Going) /\ Cardinality(Going) \in Nat
    /\ IsFiniteSet(Signalling) /\ Cardinality(Signalling) \in Nat
<1>1. Going \in SUBSET Threads /\ Signalling \in SUBSET Threads
    BY DEF Going, Signalling, At, Threads
<1>. QED
    BY <1>1, ThreadSets

(* The same sets, by name. *)
LEMMA ConservingIs ==
    WorkConserving <=> (~destroyed /\ Sleeping # {} =>
                           Len(queue) <= Cardinality(Going) + Cardinality(Signalling))
BY DEF WorkConserving, Sleeping, Going, Signalling

(* Nobody who sees to a task turns away, and no task comes. *)
LEMMA SeenToStill ==
    ASSUME WorkConserving, Len(queue) \in Nat, queue' = queue, ~destroyed,
           Going \subseteq Going', Signalling \subseteq Signalling',
           Sleeping' # {} => Sleeping # {}
    PROVE  WorkConserving'
<1>1. /\ Cardinality(Going) <= Cardinality(Going') /\ Cardinality(Going') \in Nat
      /\ Cardinality(Signalling) <= Cardinality(Signalling')
      /\ Cardinality(Signalling') \in Nat
  <2>1. /\ Going' \in SUBSET Threads /\ Signalling' \in SUBSET Threads
        /\ IsFiniteSet(Going') /\ IsFiniteSet(Signalling')
        /\ Cardinality(Going') \in Nat /\ Cardinality(Signalling') \in Nat
    <3>1. Going' \in SUBSET Threads /\ Signalling' \in SUBSET Threads
        BY DEF Going, Signalling, At, Threads
    <3>. QED
        BY <3>1, ThreadSets
  <2>. QED
      BY <2>1, FS_Subset
<1>2. Sleeping' # {} => Len(queue) <= Cardinality(Going) + Cardinality(Signalling)
    BY ConservingIs
<1>3. Sleeping' # {} => Len(queue') <= Cardinality(Going') + Cardinality(Signalling')
    BY <1>1, <1>2, AtHand
<1>. QED
    BY <1>3 DEF WorkConserving, Sleeping, Going, Signalling

LEMMA StepConserves ==
    Inv /\ WorkConserving /\ WaitsForNone /\ [Next]_vars => WorkConserving' /\ WaitsForNone'
<1>. SUFFICES ASSUME Inv, WorkConserving, WaitsForNone, [Next]_vars, ~destroyed'
              PROVE  WorkConserving' /\ WaitsForNone'
    BY DEF WorkConserving, WaitsForNone
<1>a. /\ TypeOK /\ Kinds /\ LockHeld /\ DestroyedFirst /\ PopFindsTask
      /\ Len(queue) \in Nat
    BY LenProperties DEF Inv, Control, TypeOK
<1>b. ~destroyed /\ qState = "live"
    BY <1>a DEF Next, vars, AddTask, ClientStep, EnqIn, EnqPut, EnqSignal, EnqOut,
        UseAfterFree, DesBroadcast, DesCount, DesFree, Join, ClosePool, WorkerStep, Deq,
        DeqIn, DeqLock, DeqTest, DeqWait, DeqPop, DeqOut, RunTask, SpuriousWakeup,
        DestroyedFirst, TypeOK
<1>. USE ThreadAssumption
<1>1. ASSUME NEW c \in Clients, AddTask(c) PROVE WorkConserving' /\ WaitsForNone'
  <2>1. /\ Going \subseteq Going' /\ Signalling \subseteq Signalling'
        /\ Sleeping' = Sleeping /\ queue' = queue /\ WaitsForNone'
      BY <1>1, <1>a DEF AddTask, Goto, TypeOK, Threads, Kinds, WorkerPCs, Going, Signalling,
          Sleeping, At, WaitsForNone
  <2>. QED
      BY <2>1, <1>a, <1>b, SeenToStill
<1>2. ASSUME NEW c \in Clients, ClientStep(c) PROVE WorkConserving' /\ WaitsForNone'
  <2>1. CASE EnqIn(c) \/ EnqOut(c) \/ UseAfterFree(c)
    <3>1. /\ Going \subseteq Going' /\ Signalling \subseteq Signalling'
          /\ Sleeping' = Sleeping /\ queue' = queue /\ WaitsForNone'
        BY <2>1, <1>a, <1>b DEF EnqIn, EnqOut, UseAfterFree, Goto, LeaveTo, TypeOK, Threads,
            Kinds, WorkerPCs, Going, Signalling, Sleeping, At, WaitsForNone
    <3>. QED
        BY <3>1, <1>a, <1>b, SeenToStill
  <2>2. CASE EnqPut(c)
    <3>1. /\ qLock = NoThread /\ queue' = Append(queue, task[c])
          /\ pc' = [pc EXCEPT ![c] = "enqSignal"] /\ pc[c] = "enqPut"
        BY <2>2, <1>b DEF EnqPut, CanLock, Goto
    <3>2. /\ Going' = Going /\ Sleeping' = Sleeping
          /\ Signalling' = Signalling \cup {c} /\ c \notin Signalling
        BY <3>1, <1>a DEF TypeOK, Threads, Going, Signalling, Sleeping, At
    <3>3. WaitsForNone'
      <4>1. \A w \in Workers : pc[w] # "deqWait"
          BY <3>1, <1>a, <1>b DEF LockHeld
      <4>. QED
          BY <3>1, <4>1, <1>a DEF TypeOK, Threads, WaitsForNone
    <3>4. Cardinality(Signalling') = Cardinality(Signalling) + 1
        BY <3>2, AtHand, FS_AddElement
    <3>5. Len(queue') = Len(queue) + 1
      <4>1. task[c] \in Tasks
          BY <3>1, TaskAssumption DEF Inv, Control, TypeOK, InHand, Threads
      <4>. QED
          BY <3>1, <4>1, <1>a, AppendProperties DEF TypeOK
    <3>6. Sleeping' # {} => Len(queue') <= Cardinality(Going') + Cardinality(Signalling')
        BY <3>2, <3>4, <3>5, <1>a, <1>b, AtHand, ConservingIs
    <3>. QED
        BY <3>3, <3>6 DEF WorkConserving, Sleeping, Going, Signalling
  <2>3. CASE EnqSignal(c)
    <3>1. queue' = queue /\ pc[c] = "enqSignal" /\ c \in Signalling
        BY <2>3 DEF EnqSignal, Signalling, At
    <3>2. CASE Sleeping = {}
      <4>1. Sleeping' = {} /\ WaitsForNone'
          BY <2>3, <3>2, <1>a DEF EnqSignal, SignalReady, Goto, TypeOK, Threads, Sleeping, At,
              WaitsForNone
      <4>. QED
          BY <4>1 DEF WorkConserving, Sleeping
    <3>3. CASE Sleeping # {}
      <4>1. PICK w \in Sleeping : pc' = [pc EXCEPT ![c] = "enqOut", ![w] = "deqLock"]
          BY <2>3, <3>3 DEF EnqSignal, SignalReady, Sleeping
      <4>2. /\ Going' = Going \cup {w} /\ w \notin Going
            /\ Signalling' = Signalling \ {c} /\ WaitsForNone'
          BY <3>1, <4>1, <2>3, <1>a DEF EnqSignal, TypeOK, Threads, Going, Signalling, Sleeping, At,
              WaitsForNone
      <4>3. /\ Cardinality(Going') = Cardinality(Going) + 1
            /\ Cardinality(Signalling') = Cardinality(Signalling) - 1
          BY <3>1, <4>2, AtHand, FS_AddElement, FS_RemoveElement
      <4>4. Len(queue) <= Cardinality(Going) + Cardinality(Signalling)
          BY <3>3, <1>b, ConservingIs
      <4>5. Len(queue') <= Cardinality(Going') + Cardinality(Signalling')
          BY <3>1, <4>3, <4>4, <1>a, AtHand
      <4>. QED
          BY <4>2, <4>5 DEF WorkConserving, Going, Signalling
    <3>. QED
        BY <3>2, <3>3
  <2>4. CASE DesBroadcast(c) \/ DesCount(c) \/ DesFree(c) \/ Join(c)
      BY <2>4, <1>a, <1>b DEF DesBroadcast, DesCount, DesFree, Join, DestroyedFirst, DestroyPCs
  <2>. QED
      BY <1>2, <2>1, <2>2, <2>3, <2>4 DEF ClientStep
<1>3. ASSUME NEW c \in Closers, ClosePool(c) PROVE WorkConserving' /\ WaitsForNone'
    BY <1>3 DEF ClosePool
<1>4. ASSUME NEW w \in Workers, WorkerStep(w) PROVE WorkConserving' /\ WaitsForNone'
  <2>1. CASE Deq(w) \/ DeqIn(w) \/ DeqLock(w) \/ DeqOut(w) \/ RunTask(w)
    <3>1. /\ Going \subseteq Going' /\ Signalling \subseteq Signalling'
          /\ Sleeping' = Sleeping /\ queue' = queue /\ WaitsForNone'
        BY <2>1, <1>a, <1>b DEF Deq, DeqIn, DeqLock, DeqOut, RunTask, Goto, LeaveTo, TypeOK,
            Threads, Kinds, ClientPCs, DestroyPCs, Going, Signalling, Sleeping, At, WaitsForNone
    <3>. QED
        BY <3>1, <1>a, <1>b, SeenToStill
  <2>2. CASE DeqTest(w) /\ queue = <<>>
    <3>1. queue' = <<>> /\ Len(queue') = 0
        BY <2>2 DEF DeqTest
    <3>2. Cardinality(Going') \in Nat /\ Cardinality(Signalling') \in Nat
      <4>1. Going' \in SUBSET Threads /\ Signalling' \in SUBSET Threads
          BY DEF Going, Signalling, At, Threads
      <4>. QED
          BY <4>1, ThreadSets
    <3>3. Len(queue') <= Cardinality(Going') + Cardinality(Signalling')
        BY <3>1, <3>2
    <3>. QED
        BY <3>1, <3>3 DEF WorkConserving, WaitsForNone, Going, Signalling
  <2>3. CASE DeqTest(w) /\ queue # <<>>
    <3>1. /\ Going \subseteq Going' /\ Signalling \subseteq Signalling'
          /\ Sleeping' = Sleeping /\ queue' = queue /\ WaitsForNone'
        BY <2>3, <1>a, <1>b DEF DeqTest, Goto, TypeOK, Threads, Going, Signalling, Sleeping, At,
            WaitsForNone
    <3>. QED
        BY <3>1, <1>a, <1>b, SeenToStill
  <2>4. CASE DeqWait(w)
    <3>1. queue = <<>> /\ queue' = queue /\ Len(queue') = 0
        BY <2>4, <1>b DEF DeqWait, WaitsForNone
    <3>2. Cardinality(Going') \in Nat /\ Cardinality(Signalling') \in Nat
      <4>1. Going' \in SUBSET Threads /\ Signalling' \in SUBSET Threads
          BY DEF Going, Signalling, At, Threads
      <4>. QED
          BY <4>1, ThreadSets
    <3>3. Len(queue') <= Cardinality(Going') + Cardinality(Signalling')
        BY <3>1, <3>2
    <3>. QED
        BY <3>1, <3>3 DEF WorkConserving, WaitsForNone, Going, Signalling
  <2>5. CASE DeqPop(w)
    <3>1. /\ pc[w] = "deqPop" /\ queue # <<>> /\ queue' = Tail(queue)
          /\ pc' = [pc EXCEPT ![w] = "deqOut"]
        BY <2>5, <1>a, <1>b DEF DeqPop, PopFindsTask, Goto
    <3>2. /\ Going' = Going \ {w} /\ w \in Going /\ Sleeping' = Sleeping
          /\ Signalling' = Signalling
        BY <3>1, <1>a DEF TypeOK, Threads, Going, Signalling, Sleeping, At
    <3>3. WaitsForNone'
        BY <3>1, <1>a, <1>b DEF TypeOK, Threads, WaitsForNone, LockHeld
    <3>4. Cardinality(Going') = Cardinality(Going) - 1
        BY <3>2, AtHand, FS_RemoveElement
    <3>5. Len(queue') = Len(queue) - 1
        BY <3>1, <1>a, HeadTailProperties DEF TypeOK
    <3>6. Sleeping' # {} => Len(queue') <= Cardinality(Going') + Cardinality(Signalling')
        BY <3>2, <3>4, <3>5, <1>a, <1>b, AtHand, ConservingIs
    <3>. QED
        BY <3>3, <3>6 DEF WorkConserving, Sleeping, Going, Signalling
  <2>. QED
      BY <1>4, <2>1, <2>2, <2>3, <2>4, <2>5 DEF WorkerStep
<1>5. ASSUME NEW t \in Threads, SpuriousWakeup(t) PROVE WorkConserving' /\ WaitsForNone'
  <2>1. /\ Going \subseteq Going' /\ Signalling \subseteq Signalling'
        /\ Sleeping' \subseteq Sleeping /\ queue' = queue /\ WaitsForNone'
      BY <1>5, <1>a, <1>b DEF SpuriousWakeup, Goto, TypeOK, Threads, Kinds, ClientPCs, DestroyPCs,
          Going, Signalling, Sleeping, At, WaitsForNone
  <2>. QED
      BY <2>1, <1>a, <1>b, SeenToStill
<1>6. ASSUME UNCHANGED vars PROVE WorkConserving' /\ WaitsForNone'
    BY <1>6 DEF vars, WorkConserving, WaitsForNone, At
<1>. QED
    BY <1>1, <1>2, <1>3, <1>4, <1>5, <1>6 DEF Next

(* No wakeup is lost: while a worker sleeps, as many threads are on their  *)
(* way to the queue as it has tasks, though SafeEnque signals after it has *)
(* released q_lock and pthread_cond_wait may return without a signal.      *)
THEOREM NoLostWakeup == Spec => []WorkConserving
<1>1. Init => WorkConserving /\ WaitsForNone
    BY ThreadAssumption DEF Init, WorkConserving, WaitsForNone, At, Threads
<1>2. Inv /\ WorkConserving /\ WaitsForNone /\ [Next]_vars => WorkConserving' /\ WaitsForNone'
    BY StepConserves
<1>. QED
    BY <1>1, <1>2, Invariance, PTL DEF Spec
=============================================================================
