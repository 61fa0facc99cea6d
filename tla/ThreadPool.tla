----------------------------- MODULE ThreadPool -----------------------------
(***************************************************************************)
(* The thread pool of the server (src/src/utils/threadpool/ThreadPool.h):  *)
(* worker threads waiting on a condition variable for a queue under one    *)
(* mutex, callers of enqueue(), and the destructor.                        *)
(*                                                                         *)
(* A task is named by the caller that enqueues it.  The condition variable *)
(* is the set of threads blocked in wait(): notify_one moves one of them,  *)
(* if there is one, to the mutex, and a thread may wake up for no reason.  *)
(***************************************************************************)
EXTENDS Naturals, Sequences, FiniteSets

CONSTANTS
    Tasks,      \* the calls of enqueue(), each with its task
    Workers,    \* the pool's threads
    Destructor, \* the thread that destroys the pool
    None        \* nobody, no task

ASSUME ActorAssumption ==
    /\ None \notin Tasks \cup Workers /\ None # Destructor
    /\ Destructor \notin Tasks \cup Workers
    /\ Tasks \cap Workers = {} /\ Workers # {}

VARIABLES
    tasks,          \* the queue of packaged tasks
    stop,           \* set by the destructor
    queue_mutex,    \* who holds it
    wpc, task,      \* workers: control, the task taken from the queue
    epc,            \* callers of enqueue(): control
    dpc,            \* the destructor: control
    ran             \* history: how often each task was run

vars == <<tasks, stop, queue_mutex, wpc, task, epc, dpc, ran>>

Init ==
    /\ tasks = <<>>
    /\ stop = FALSE
    /\ queue_mutex = None
    /\ wpc = [w \in Workers |-> "lock"]
    /\ task = [w \in Workers |-> None]
    /\ epc = [t \in Tasks |-> "new"]
    /\ dpc = "alive"
    /\ ran = [t \in Tasks |-> 0]

(* The threads blocked in condition.wait(). *)
Blocked == {w \in Workers : wpc[w] = "wait"}

(* notify_one() *)
NotifyOne ==
    \/ Blocked = {} /\ UNCHANGED wpc
    \/ \E w \in Blocked : wpc' = [wpc EXCEPT ![w] = "lock"]

-----------------------------------------------------------------------------
(* The loop of a worker *)

WorkerLock(w) ==
    /\ wpc[w] = "lock"
    /\ queue_mutex = None
    /\ queue_mutex' = w
    /\ wpc' = [wpc EXCEPT ![w] = "check"]
    /\ UNCHANGED <<tasks, stop, task, epc, dpc, ran>>

(* wait(lock, predicate): releases the mutex and blocks in one step. *)
WorkerWait(w) ==
    /\ wpc[w] = "check" /\ ~ stop /\ tasks = <<>>
    /\ queue_mutex' = None
    /\ wpc' = [wpc EXCEPT ![w] = "wait"]
    /\ UNCHANGED <<tasks, stop, task, epc, dpc, ran>>

MutExitOnStop(w) ==
    /\ wpc[w] = "check" /\ stop
    /\ queue_mutex' = None
    /\ wpc' = [wpc EXCEPT ![w] = "exit"]
    /\ UNCHANGED <<tasks, stop, task, epc, dpc, ran>>

WorkerExit(w) ==
    /\ wpc[w] = "check" /\ stop /\ tasks = <<>>
    /\ queue_mutex' = None
    /\ wpc' = [wpc EXCEPT ![w] = "exit"]
    /\ UNCHANGED <<tasks, stop, task, epc, dpc, ran>>

MutNoPop(w) ==
    /\ wpc[w] = "check" /\ tasks # <<>>
    /\ task' = [task EXCEPT ![w] = Head(tasks)]
    /\ queue_mutex' = None
    /\ wpc' = [wpc EXCEPT ![w] = "run"]
    /\ UNCHANGED <<tasks, stop, epc, dpc, ran>>

(* front() and pop(), then the end of the scope of the lock. *)
WorkerTake(w) ==
    /\ wpc[w] = "check" /\ tasks # <<>>
    /\ task' = [task EXCEPT ![w] = Head(tasks)]
    /\ tasks' = Tail(tasks)
    /\ queue_mutex' = None
    /\ wpc' = [wpc EXCEPT ![w] = "run"]
    /\ UNCHANGED <<stop, epc, dpc, ran>>

(* task(): its future becomes ready. *)
WorkerRun(w) ==
    /\ wpc[w] = "run"
    /\ ran' = [ran EXCEPT ![task[w]] = @ + 1]
    /\ task' = [task EXCEPT ![w] = None]
    /\ wpc' = [wpc EXCEPT ![w] = "lock"]
    /\ UNCHANGED <<tasks, stop, queue_mutex, epc, dpc>>

(* wait() returns without a notification. *)
Spurious(w) ==
    /\ wpc[w] = "wait"
    /\ wpc' = [wpc EXCEPT ![w] = "lock"]
    /\ UNCHANGED <<tasks, stop, queue_mutex, task, epc, dpc, ran>>

WorkerStep(w) ==
    WorkerLock(w) \/ WorkerWait(w) \/ WorkerExit(w) \/ WorkerTake(w) \/ WorkerRun(w)

-----------------------------------------------------------------------------
(* enqueue() *)

EnqueueLock(t) ==
    /\ epc[t] = "new"
    /\ queue_mutex = None
    /\ queue_mutex' = t
    /\ epc' = [epc EXCEPT ![t] = "push"]
    /\ UNCHANGED <<tasks, stop, wpc, task, dpc, ran>>

(* A stopped pool refuses the task: the exception releases the mutex. *)
EnqueueThrow(t) ==
    /\ epc[t] = "push" /\ stop
    /\ queue_mutex' = None
    /\ epc' = [epc EXCEPT ![t] = "thrown"]
    /\ UNCHANGED <<tasks, stop, wpc, task, dpc, ran>>

EnqueuePush(t) ==
    /\ epc[t] = "push" /\ ~ stop
    /\ tasks' = Append(tasks, t)
    /\ queue_mutex' = None
    /\ epc' = [epc EXCEPT ![t] = "notify"]
    /\ UNCHANGED <<stop, wpc, task, dpc, ran>>

MutNoNotify(t) ==
    /\ epc[t] = "notify"
    /\ epc' = [epc EXCEPT ![t] = "done"]
    /\ UNCHANGED <<tasks, stop, queue_mutex, wpc, task, dpc, ran>>

(* notify_one() after the mutex was released. *)
EnqueueNotify(t) ==
    /\ epc[t] = "notify"
    /\ NotifyOne
    /\ epc' = [epc EXCEPT ![t] = "done"]
    /\ UNCHANGED <<tasks, stop, queue_mutex, task, dpc, ran>>

EnqueueStep(t) == EnqueueLock(t) \/ EnqueueThrow(t) \/ EnqueuePush(t) \/ EnqueueNotify(t)

-----------------------------------------------------------------------------
(* ~ThreadPool() *)

DestroyLock ==
    /\ dpc = "alive"
    /\ queue_mutex = None
    /\ queue_mutex' = Destructor
    /\ dpc' = "stop"
    /\ UNCHANGED <<tasks, stop, wpc, task, epc, ran>>

DestroyStop ==
    /\ dpc = "stop"
    /\ stop' = TRUE
    /\ queue_mutex' = None
    /\ dpc' = "notify"
    /\ UNCHANGED <<tasks, wpc, task, epc, ran>>

MutNotifyOne ==
    /\ dpc = "notify"
    /\ NotifyOne
    /\ dpc' = "join"
    /\ UNCHANGED <<tasks, stop, queue_mutex, task, epc, ran>>

(* notify_all() *)
DestroyNotify ==
    /\ dpc = "notify"
    /\ wpc' = [w \in Workers |-> IF wpc[w] = "wait" THEN "lock" ELSE wpc[w]]
    /\ dpc' = "join"
    /\ UNCHANGED <<tasks, stop, queue_mutex, task, epc, ran>>

DestroyJoin ==
    /\ dpc = "join"
    /\ \A w \in Workers : wpc[w] = "exit"
    /\ dpc' = "joined"
    /\ UNCHANGED <<tasks, stop, queue_mutex, wpc, task, epc, ran>>

DestroyStep == DestroyLock \/ DestroyStop \/ DestroyNotify \/ DestroyJoin

(* Every call returned and the pool is gone, or nobody destroys it and its *)
(* threads sleep.                                                          *)
Rest ==
    /\ \A t \in Tasks : epc[t] \in {"done", "thrown"}
    /\ dpc = "joined" \/ (dpc = "alive" /\ tasks = <<>> /\ Blocked = Workers)
    /\ UNCHANGED vars

Next ==
    \/ \E w \in Workers : WorkerStep(w) \/ Spurious(w)
    \/ \E t \in Tasks : EnqueueStep(t)
    \/ DestroyStep
    \/ Rest

Spec == Init /\ [][Next]_vars

(* Threads run and a mutex that is free infinitely often is obtained in    *)
(* the end; nothing obliges anybody to destroy the pool, to call enqueue() *)
(* or to wake up spuriously.                                               *)
Fairness ==
    /\ \A w \in Workers : SF_vars(WorkerLock(w)) /\ WF_vars(WorkerStep(w))
    /\ \A t \in Tasks : WF_vars(EnqueueThrow(t) \/ EnqueuePush(t) \/ EnqueueNotify(t))
    /\ WF_vars(DestroyStop \/ DestroyNotify \/ DestroyJoin)

FairSpec == Spec /\ Fairness

-----------------------------------------------------------------------------
Queued == {tasks[i] : i \in DOMAIN tasks}

(* Type correctness of the pool. *)
TypeOK ==
    /\ tasks \in Seq(Tasks)
    /\ stop \in BOOLEAN
    /\ queue_mutex \in Tasks \cup Workers \cup {Destructor, None}
    /\ wpc \in [Workers -> {"lock", "check", "wait", "run", "exit"}]
    /\ task \in [Workers -> Tasks \cup {None}]
    /\ epc \in [Tasks -> {"new", "push", "notify", "done", "thrown"}]
    /\ dpc \in {"alive", "stop", "notify", "join", "joined"}
    /\ ran \in [Tasks -> Nat]

(* enqueue() notifies after it released the mutex: even so a queued task   *)
(* never finds all threads asleep with nobody left who will wake one.      *)
NoLostWakeup ==
    (tasks # <<>> /\ Blocked = Workers) =>
        \E t \in Tasks : epc[t] = "notify"

(* The destructor returns only when every task whose enqueue() returned a  *)
(* future has run, exactly once.                                           *)
AllRanWhenJoined ==
    dpc = "joined" => \A t \in Tasks : ran[t] = (IF epc[t] \in {"notify", "done"} THEN 1 ELSE 0)

(* Every accepted task runs: no sequence of waits, notifications and a     *)
(* destruction strands a future that check() waits for.                    *)
AcceptedRuns == \A t \in Tasks : epc[t] = "notify" ~> ran[t] = 1

(* Destroying the pool ends: notify_all reaches every sleeping thread.     *)
DestructionEnds == dpc = "stop" ~> dpc = "joined"

-----------------------------------------------------------------------------
(* The strengthenings that make the properties inductive. *)

Held == {task[w] : w \in Workers}

(* A thread has a task exactly while it runs it, and a thread left only    *)
(* when the pool was stopped and its queue was empty.                      *)
Control ==
    /\ \A w \in Workers : wpc[w] = "run" <=> task[w] # None
    /\ \A w \in Workers : wpc[w] = "exit" => stop /\ tasks = <<>>
    /\ stop <=> dpc \in {"notify", "join", "joined"}
    /\ dpc = "joined" => \A w \in Workers : wpc[w] = "exit"

(* An accepted task is in one place: once in the queue, with one thread,   *)
(* or done.                                                                *)
OnePlace ==
    /\ \A i, j \in DOMAIN tasks : tasks[i] = tasks[j] => i = j
    /\ \A v, w \in Workers : task[v] = task[w] /\ task[v] # None => v = w
    /\ \A t \in Queued : t \notin Held
    /\ \A t \in (Queued \cup Held) \ {None} : ran[t] = 0
    /\ \A t \in Tasks : ran[t] \in {0, 1}

(* Exactly the calls that pushed have an accepted task. *)
AcceptedCalls ==
    \A t \in Tasks :
        epc[t] \in {"notify", "done"} <=> (t \in Queued \/ t \in Held \/ ran[t] = 1)

PoolInv == TypeOK /\ Control /\ OnePlace /\ AcceptedCalls

-----------------------------------------------------------------------------
(* The abstract pool: a worker that took a task is running it. *)
Pool == INSTANCE TaskPool WITH
    queue    <- tasks,
    active   <- task,
    finished <- {t \in Tasks : ran[t] > 0},
    state    <- IF dpc = "joined" THEN "closed" ELSE IF stop THEN "stopped" ELSE "open",
    Idle     <- None

(* The mutex, the condition variable and the queue implement the pool that *)
(* the server relies on.                                                   *)
ImplementsPool == Pool!Spec
=============================================================================
