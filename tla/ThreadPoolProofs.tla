-------------------------- MODULE ThreadPoolProofs --------------------------
(* Theorems about ThreadPool for any number of threads and calls. *)
EXTENDS ThreadPool, SequenceTheorems, TLAPS

(* What push does to the queue. *)
LEMMA PushFacts ==
    ASSUME tasks \in Seq(Tasks), NEW t \in Tasks, tasks' = Append(tasks, t),
           \A i, j \in DOMAIN tasks : tasks[i] = tasks[j] => i = j, t \notin Queued
    PROVE  /\ tasks' \in Seq(Tasks)
           /\ Queued' = Queued \cup {t}
           /\ \A i, j \in DOMAIN tasks' : tasks'[i] = tasks'[j] => i = j
<1>1. /\ tasks' \in Seq(Tasks) /\ Len(tasks') = Len(tasks) + 1
      /\ \A i \in 1 .. Len(tasks) : tasks'[i] = tasks[i]
      /\ tasks'[Len(tasks) + 1] = t
  BY AppendProperties
<1>2. /\ Len(tasks) \in Nat /\ DOMAIN tasks = 1 .. Len(tasks)
      /\ DOMAIN tasks' = 1 .. (Len(tasks) + 1)
  BY <1>1, LenProperties
<1>3. Queued' = Queued \cup {t}
  BY <1>1, <1>2 DEF Queued
<1>4. \A i, j \in DOMAIN tasks' : tasks'[i] = tasks'[j] => i = j
  BY <1>1, <1>2 DEF Queued
<1> QED
  BY <1>1, <1>3, <1>4

(* What front and pop do to the queue. *)
LEMMA PopFacts ==
    ASSUME tasks \in Seq(Tasks), tasks # <<>>, tasks' = Tail(tasks),
           \A i, j \in DOMAIN tasks : tasks[i] = tasks[j] => i = j
    PROVE  /\ tasks' \in Seq(Tasks)
           /\ Head(tasks) \in Queued /\ Head(tasks) \in Tasks
           /\ Queued' = Queued \ {Head(tasks)}
           /\ \A i, j \in DOMAIN tasks' : tasks'[i] = tasks'[j] => i = j
<1>1. /\ tasks' \in Seq(Tasks) /\ Head(tasks) \in Tasks
      /\ Len(tasks') = Len(tasks) - 1
      /\ \A i \in 1 .. Len(tasks') : tasks'[i] = tasks[i + 1]
  BY HeadTailProperties
<1>2. /\ Len(tasks) \in Nat \ {0} /\ DOMAIN tasks = 1 .. Len(tasks)
      /\ DOMAIN tasks' = 1 .. (Len(tasks) - 1)
  BY <1>1, LenProperties, EmptySeq
<1>3. Head(tasks) = tasks[1]
  OBVIOUS
<1>4. Queued' \subseteq Queued \ {Head(tasks)}
  BY <1>1, <1>2, <1>3 DEF Queued
<1>5. ASSUME NEW i \in DOMAIN tasks, tasks[i] # Head(tasks) PROVE tasks[i] \in Queued'
  <2>1. i - 1 \in DOMAIN tasks' /\ tasks'[i - 1] = tasks[i]
    BY <1>1, <1>2, <1>3, <1>5
  <2> QED
    BY <2>1 DEF Queued
<1>6. Queued' = Queued \ {Head(tasks)}
  BY <1>4, <1>5 DEF Queued
<1>7. \A i, j \in DOMAIN tasks' : tasks'[i] = tasks'[j] => i = j
  BY <1>1, <1>2
<1>8. Head(tasks) \in Queued
  BY <1>2, <1>3 DEF Queued
<1> QED
  BY <1>1, <1>6, <1>7, <1>8

-----------------------------------------------------------------------------
LEMMA InitPool == Init => PoolInv
<1> SUFFICES ASSUME Init PROVE PoolInv
  OBVIOUS
<1>1. TypeOK
  BY EmptySeq DEF Init, TypeOK
<1>2. Control
  BY DEF Init, Control
<1>3. Queued = {} /\ Held \subseteq {None}
  BY DEF Init, Queued, Held
<1>4. OnePlace
  BY <1>3 DEF Init, OnePlace
<1>5. AcceptedCalls
  BY <1>3, ActorAssumption DEF Init, AcceptedCalls
<1> QED
  BY <1>1, <1>2, <1>4, <1>5 DEF PoolInv

(* Steps that leave the queue, the tasks of the threads and the histories  *)
(* alone: only the control changes.                                        *)
LEMMA ControlOnly ==
    ASSUME PoolInv, UNCHANGED <<tasks, task, ran>>,
           \A t \in Tasks : epc'[t] \in {"notify", "done"} <=> epc[t] \in {"notify", "done"}
    PROVE  OnePlace' /\ AcceptedCalls'
<1>1. UNCHANGED <<Queued, Held>>
  BY DEF Queued, Held
<1>2. OnePlace'
  BY <1>1 DEF PoolInv, OnePlace
<1>3. AcceptedCalls'
  BY <1>1 DEF PoolInv, AcceptedCalls
<1> QED
  BY <1>2, <1>3

LEMMA TakeStep == ASSUME PoolInv, NEW w \in Workers, WorkerTake(w) PROVE PoolInv'
<1>1. PICK h : h = Head(tasks)
  OBVIOUS
<1>2. /\ tasks # <<>> /\ tasks' = Tail(tasks) /\ wpc[w] = "check"
      /\ task' = [task EXCEPT ![w] = h]
      /\ wpc' = [wpc EXCEPT ![w] = "run"]
      /\ queue_mutex' = None /\ UNCHANGED <<stop, epc, dpc, ran>>
  BY <1>1 DEF WorkerTake
<1>3. /\ tasks' \in Seq(Tasks) /\ h \in Queued /\ h \in Tasks /\ Queued' = Queued \ {h}
      /\ \A i, j \in DOMAIN tasks' : tasks'[i] = tasks'[j] => i = j
  BY <1>1, <1>2, PopFacts DEF PoolInv, TypeOK, OnePlace
<1>4. task[w] = None /\ h # None
  BY <1>2, <1>3, ActorAssumption DEF PoolInv, Control
<1>5. TypeOK'
  BY <1>2, <1>3 DEF PoolInv, TypeOK
<1>6. /\ task'[w] = h /\ wpc'[w] = "run"
      /\ \A v \in Workers \ {w} : task'[v] = task[v] /\ wpc'[v] = wpc[v]
  BY <1>2 DEF PoolInv, TypeOK
<1>7. Control'
  <2>1. \A v \in Workers : wpc[v] # "exit"
    BY <1>2 DEF PoolInv, Control
  <2> QED
    BY <1>2, <1>4, <1>6, <2>1 DEF PoolInv, Control
<1>8. /\ \A t : t # None => (t \in Held' <=> t \in Held \/ t = h)
  BY <1>4, <1>6 DEF Held
<1>9. h \notin Held /\ ran[h] = 0
  BY <1>3, <1>4 DEF PoolInv, OnePlace
<1>10. OnePlace'
  <2>1. \A u, v \in Workers : task'[u] = task'[v] /\ task'[u] # None => u = v
    BY <1>6, <1>9 DEF PoolInv, OnePlace, Held
  <2>2. \A t \in Queued' : t \notin Held'
    <3>1. None \notin Queued
      BY <1>2, ActorAssumption, ElementOfSeq, LenProperties DEF PoolInv, TypeOK, Queued
    <3> QED
      BY <1>3, <1>8, <3>1 DEF PoolInv, OnePlace
  <2>3. \A t \in (Queued' \cup Held') \ {None} : ran'[t] = 0
    BY <1>2, <1>3, <1>8, <1>9 DEF PoolInv, OnePlace
  <2> QED
    BY <1>2, <1>3, <2>1, <2>2, <2>3 DEF PoolInv, OnePlace
<1>11. AcceptedCalls'
  BY <1>2, <1>3, <1>8, ActorAssumption DEF PoolInv, AcceptedCalls
<1> QED
  BY <1>5, <1>7, <1>10, <1>11 DEF PoolInv

LEMMA RunStep == ASSUME PoolInv, NEW w \in Workers, WorkerRun(w) PROVE PoolInv'
<1>1. PICK h : h = task[w]
  OBVIOUS
<1>2. /\ wpc[w] = "run" /\ task' = [task EXCEPT ![w] = None]
      /\ ran' = [ran EXCEPT ![h] = @ + 1] /\ wpc' = [wpc EXCEPT ![w] = "lock"]
      /\ UNCHANGED <<tasks, stop, queue_mutex, epc, dpc>>
  BY <1>1 DEF WorkerRun
<1>3. h \in Tasks /\ h \in Held /\ h # None /\ h \notin Queued /\ ran[h] = 0
  BY <1>1, <1>2 DEF PoolInv, TypeOK, Control, OnePlace, Held
<1>4. TypeOK'
  BY <1>2, <1>3 DEF PoolInv, TypeOK
<1>5. /\ task'[w] = None /\ wpc'[w] = "lock"
      /\ \A v \in Workers \ {w} : task'[v] = task[v] /\ wpc'[v] = wpc[v]
      /\ ran'[h] = 1 /\ \A t \in Tasks \ {h} : ran'[t] = ran[t]
  BY <1>2, <1>3 DEF PoolInv, TypeOK
<1>6. Control'
  BY <1>2, <1>5 DEF PoolInv, Control
<1>7. Queued' = Queued /\ \A t : t # None => (t \in Held' <=> t \in Held /\ t # h)
  BY <1>1, <1>2, <1>3, <1>5 DEF PoolInv, OnePlace, Held, Queued
<1>8. Queued \subseteq Tasks /\ Held \subseteq Tasks \cup {None} /\ None \notin Queued
  BY ActorAssumption, ElementOfSeq, LenProperties DEF PoolInv, TypeOK, Queued, Held
<1>9. OnePlace'
  <2>1. \A u, v \in Workers : task'[u] = task'[v] /\ task'[u] # None => u = v
    BY <1>5 DEF PoolInv, OnePlace
  <2>2. \A t \in Queued' : t \notin Held'
    BY <1>7, <1>8 DEF PoolInv, OnePlace
  <2>3. \A t \in (Queued' \cup Held') \ {None} : ran'[t] = 0
    BY <1>3, <1>5, <1>7, <1>8 DEF PoolInv, OnePlace
  <2>4. \A t \in Tasks : ran'[t] \in {0, 1}
    BY <1>5 DEF PoolInv, OnePlace
  <2> QED
    BY <1>2, <2>1, <2>2, <2>3, <2>4 DEF PoolInv, OnePlace
<1>10. AcceptedCalls'
  BY <1>2, <1>3, <1>5, <1>7, ActorAssumption DEF PoolInv, AcceptedCalls
<1> QED
  BY <1>4, <1>6, <1>9, <1>10 DEF PoolInv

LEMMA PushStep == ASSUME PoolInv, NEW t \in Tasks, EnqueuePush(t) PROVE PoolInv'
<1>1. /\ epc[t] = "push" /\ ~ stop /\ tasks' = Append(tasks, t)
      /\ epc' = [epc EXCEPT ![t] = "notify"]
      /\ queue_mutex' = None /\ UNCHANGED <<stop, wpc, task, dpc, ran>>
  BY DEF EnqueuePush
<1>2. t \notin Queued /\ t \notin Held /\ ran[t] = 0
  BY <1>1 DEF PoolInv, AcceptedCalls, OnePlace
<1>3. /\ tasks' \in Seq(Tasks) /\ Queued' = Queued \cup {t}
      /\ \A i, j \in DOMAIN tasks' : tasks'[i] = tasks'[j] => i = j
  BY <1>1, <1>2, PushFacts DEF PoolInv, TypeOK, OnePlace
<1>4. TypeOK'
  BY <1>1, <1>3 DEF PoolInv, TypeOK
<1>5. Control'
  BY <1>1 DEF PoolInv, Control
<1>6. Held' = Held
  BY <1>1 DEF Held
<1>7. OnePlace'
  BY <1>1, <1>2, <1>3, <1>6 DEF PoolInv, OnePlace
<1>8. AcceptedCalls'
  BY <1>1, <1>3, <1>6 DEF PoolInv, TypeOK, AcceptedCalls
<1> QED
  BY <1>4, <1>5, <1>7, <1>8 DEF PoolInv

LEMMA StepPool == ASSUME PoolInv, [Next]_vars PROVE PoolInv'
<1>1. ASSUME NEW w \in Workers, WorkerLock(w) \/ WorkerWait(w) \/ Spurious(w) PROVE PoolInv'
  <2>1. TypeOK' /\ Control'
    BY <1>1 DEF WorkerLock, WorkerWait, Spurious, PoolInv, TypeOK, Control
  <2>2. OnePlace' /\ AcceptedCalls'
    BY <1>1, ControlOnly DEF WorkerLock, WorkerWait, Spurious
  <2> QED
    BY <2>1, <2>2 DEF PoolInv
<1>2. ASSUME NEW w \in Workers, WorkerExit(w) PROVE PoolInv'
  <2>1. TypeOK' /\ Control'
    BY <1>2 DEF WorkerExit, PoolInv, TypeOK, Control
  <2>2. OnePlace' /\ AcceptedCalls'
    BY <1>2, ControlOnly DEF WorkerExit
  <2> QED
    BY <2>1, <2>2 DEF PoolInv
<1>3. ASSUME NEW t \in Tasks, EnqueueLock(t) \/ EnqueueThrow(t) PROVE PoolInv'
  <2>1. TypeOK'
    BY <1>3 DEF EnqueueLock, EnqueueThrow, PoolInv, TypeOK
  <2>3. Control'
    BY <1>3 DEF EnqueueLock, EnqueueThrow, PoolInv, Control
  <2>2. OnePlace' /\ AcceptedCalls'
    BY <1>3, ControlOnly DEF EnqueueLock, EnqueueThrow, PoolInv, TypeOK
  <2> QED
    BY <2>1, <2>2, <2>3 DEF PoolInv
<1>4. ASSUME NEW t \in Tasks, EnqueueNotify(t) PROVE PoolInv'
  <2>1. TypeOK' /\ Control'
    BY <1>4 DEF EnqueueNotify, NotifyOne, Blocked, PoolInv, TypeOK, Control
  <2>2. OnePlace' /\ AcceptedCalls'
    BY <1>4, ControlOnly DEF EnqueueNotify, PoolInv, TypeOK
  <2> QED
    BY <2>1, <2>2 DEF PoolInv
<1>5. CASE DestroyStep
  <2>1. TypeOK'
    BY <1>5 DEF DestroyStep, DestroyLock, DestroyStop, DestroyNotify, DestroyJoin, PoolInv,
        TypeOK
  <2>3. Control'
    <3>1. CASE DestroyLock \/ DestroyJoin
      BY <3>1 DEF DestroyLock, DestroyJoin, PoolInv, Control
    <3>2. CASE DestroyStop
      BY <3>2 DEF DestroyStop, PoolInv, Control
    <3>3. CASE DestroyNotify
      BY <3>3 DEF DestroyNotify, PoolInv, Control
    <3> QED
      BY <1>5, <3>1, <3>2, <3>3 DEF DestroyStep
  <2>2. OnePlace' /\ AcceptedCalls'
    BY <1>5, ControlOnly DEF DestroyStep, DestroyLock, DestroyStop, DestroyNotify, DestroyJoin
  <2> QED
    BY <2>1, <2>2, <2>3 DEF PoolInv
<1>6. CASE UNCHANGED vars
  <2>1. TypeOK' /\ Control'
    BY <1>6 DEF vars, PoolInv, TypeOK, Control
  <2>2. OnePlace' /\ AcceptedCalls'
    BY <1>6, ControlOnly DEF vars
  <2> QED
    BY <2>1, <2>2 DEF PoolInv
<1> QED
  BY <1>1, <1>2, <1>3, <1>4, <1>5, <1>6, TakeStep, RunStep, PushStep
  DEF Next, WorkerStep, EnqueueStep, Rest

LEMMA PoolInvariant == Spec => []PoolInv
<1> QED
  BY InitPool, StepPool, PTL DEF Spec

-----------------------------------------------------------------------------
(* ~ThreadPool(): whatever calls and threads race with it, the destructor  *)
(* returns only after each accepted task has run, and has run once.        *)
THEOREM JoinRunsAll == Spec => []AllRanWhenJoined
<1>1. PoolInv => AllRanWhenJoined
  <2> SUFFICES ASSUME PoolInv, dpc = "joined", NEW t \in Tasks
               PROVE  ran[t] = (IF epc[t] \in {"notify", "done"} THEN 1 ELSE 0)
    BY DEF AllRanWhenJoined
  <2>1. \A w \in Workers : wpc[w] = "exit" /\ task[w] = None
    BY DEF PoolInv, Control
  <2>2. tasks = <<>>
    BY <2>1, ActorAssumption DEF PoolInv, Control
  <2>3. Queued = {} /\ t \notin Held
    BY <2>1, <2>2, ActorAssumption DEF Queued, Held
  <2> QED
    BY <2>3 DEF PoolInv, AcceptedCalls, OnePlace
<1> QED
  BY <1>1, PoolInvariant, PTL

(* enqueue() and wait(): a queued task never finds every thread asleep     *)
(* with no notification on its way.                                        *)
THEOREM WakeupKept == Spec => []NoLostWakeup
<1>1. Init => NoLostWakeup
  BY DEF Init, NoLostWakeup
<1>2. PoolInv /\ NoLostWakeup /\ [Next]_vars => NoLostWakeup'
  <2> SUFFICES ASSUME PoolInv, NoLostWakeup, [Next]_vars, tasks' # <<>>, Blocked' = Workers
               PROVE  \E t \in Tasks : epc'[t] = "notify"
    BY DEF NoLostWakeup
  <2>1. \A w \in Workers : wpc'[w] = "wait"
    BY DEF Blocked
  <2>2. ASSUME NEW w \in Workers, WorkerStep(w) \/ Spurious(w) PROVE FALSE
    BY <2>1, <2>2 DEF WorkerStep, WorkerLock, WorkerWait, WorkerExit, WorkerTake, WorkerRun,
        Spurious, PoolInv, TypeOK
  <2>3. ASSUME NEW t \in Tasks, EnqueueNotify(t) PROVE FALSE
    <3>1. PICK w \in Workers : TRUE
      BY ActorAssumption
    <3>2. \A v \in Workers : wpc[v] = "wait" \/ wpc'[v] = wpc[v]
      BY <2>3 DEF EnqueueNotify, NotifyOne, Blocked, PoolInv, TypeOK
    <3>3. Blocked = Workers
      BY <2>1, <3>2 DEF Blocked
    <3>4. \E v \in Workers : wpc'[v] = "lock"
      BY <2>3, <3>1, <3>3 DEF EnqueueNotify, NotifyOne, Blocked, PoolInv, TypeOK
    <3> QED
      BY <2>1, <3>4
  <2>4. ASSUME NEW t \in Tasks, EnqueuePush(t) PROVE epc'[t] = "notify"
    BY <2>4 DEF EnqueuePush, PoolInv, TypeOK
  <2>5. ASSUME NEW t \in Tasks, EnqueueLock(t) \/ EnqueueThrow(t)
        PROVE  \E u \in Tasks : epc'[u] = "notify"
    BY <2>1, <2>5 DEF EnqueueLock, EnqueueThrow, NoLostWakeup, Blocked, PoolInv, TypeOK
  <2>6. CASE DestroyNotify
    BY <2>1, <2>6, ActorAssumption DEF DestroyNotify
  <2>7. CASE DestroyLock \/ DestroyStop \/ DestroyJoin \/ UNCHANGED vars
    BY <2>1, <2>7 DEF DestroyLock, DestroyStop, DestroyJoin, vars, NoLostWakeup, Blocked
  <2> QED
    BY <2>2, <2>3, <2>4, <2>5, <2>6, <2>7 DEF Next, EnqueueStep, DestroyStep, Rest
<1> QED
  BY <1>1, <1>2, PoolInvariant, PTL DEF Spec

-----------------------------------------------------------------------------
(* Every step of the threads is a step of the abstract pool or invisible   *)
(* in it.                                                                  *)
LEMMA StepRefines ==
    ASSUME PoolInv, [Next]_vars PROVE [Pool!Next]_(Pool!poolVars)
<1> DEFINE fin == {t \in Tasks : ran[t] > 0}
           st == IF dpc = "joined" THEN "closed" ELSE IF stop THEN "stopped" ELSE "open"
<1>1. ASSUME UNCHANGED <<tasks, task, ran, stop>>, dpc' = "joined" <=> dpc = "joined"
      PROVE  UNCHANGED Pool!poolVars
  BY <1>1 DEF Pool!poolVars
<1>2. CASE \E w \in Workers : WorkerLock(w) \/ WorkerWait(w) \/ WorkerExit(w) \/ Spurious(w)
  BY <1>1, <1>2 DEF WorkerLock, WorkerWait, WorkerExit, Spurious
<1>3. ASSUME NEW w \in Workers, WorkerTake(w) PROVE Pool!Start(w)
  <2>1. task[w] = None
    BY <1>3 DEF WorkerTake, PoolInv, Control
  <2> QED
    BY <1>3, <2>1 DEF WorkerTake, Pool!Start
<1>4. ASSUME NEW w \in Workers, WorkerRun(w) PROVE Pool!Complete(w)
  <2>1. task[w] \in Tasks /\ task[w] # None
    BY <1>4 DEF WorkerRun, PoolInv, Control, TypeOK
  <2>2. ran' = [ran EXCEPT ![task[w]] = @ + 1] /\ ran \in [Tasks -> Nat]
    BY <1>4 DEF WorkerRun, PoolInv, TypeOK
  <2>3. fin' = fin \cup {task[w]}
    BY <2>1, <2>2
  <2> QED
    BY <1>4, <2>1, <2>3 DEF WorkerRun, Pool!Complete
<1>5. CASE \E t \in Tasks : EnqueueLock(t) \/ EnqueueThrow(t) \/ EnqueueNotify(t)
  BY <1>1, <1>5 DEF EnqueueLock, EnqueueThrow, EnqueueNotify
<1>6. ASSUME NEW t \in Tasks, EnqueuePush(t) PROVE Pool!Enqueue(t)
  <2>1. epc[t] = "push" /\ ~ stop /\ tasks' = Append(tasks, t) /\ UNCHANGED <<stop, task, dpc, ran>>
    BY <1>6 DEF EnqueuePush
  <2>2. t \notin Queued /\ t \notin Held /\ ran[t] = 0
    BY <2>1 DEF PoolInv, AcceptedCalls, OnePlace
  <2>3. t \notin Pool!Accepted
    BY <2>2 DEF Pool!Accepted, Queued, Held
  <2>4. dpc # "joined"
    BY <2>1 DEF PoolInv, Control
  <2> QED
    BY <2>1, <2>3, <2>4 DEF Pool!Enqueue
<1>7. CASE DestroyLock \/ DestroyNotify
  BY <1>1, <1>7 DEF DestroyLock, DestroyNotify
<1>8. CASE DestroyStop
  <2>1. ~ stop
    BY <1>8 DEF DestroyStop, PoolInv, Control
  <2> QED
    BY <1>8, <2>1 DEF DestroyStop, Pool!Next, Pool!Stop
<1>9. CASE DestroyJoin
  <2>1. \A w \in Workers : wpc[w] = "exit" /\ task[w] = None
    BY <1>9 DEF DestroyJoin, PoolInv, Control
  <2>2. stop /\ tasks = <<>>
    BY <2>1, ActorAssumption DEF PoolInv, Control
  <2> QED
    BY <1>9, <2>1, <2>2 DEF DestroyJoin, Pool!Next, Pool!Close
<1>10. CASE UNCHANGED vars
  BY <1>1, <1>10 DEF vars
<1> QED
  BY <1>2, <1>3, <1>4, <1>5, <1>6, <1>7, <1>8, <1>9, <1>10
  DEF Next, WorkerStep, EnqueueStep, DestroyStep, Rest, Pool!Next

(* The pool of the code implements the pool the server relies on: tasks    *)
(* are accepted once, started in order, each by one thread, and the pool   *)
(* closes only when nothing is left.                                       *)
THEOREM PoolImplemented == Spec => ImplementsPool
<1>1. Init => Pool!Init
  BY DEF Init, Pool!Init
<1> QED
  BY <1>1, StepRefines, PoolInvariant, PTL DEF Spec, ImplementsPool, Pool!Spec
=============================================================================
