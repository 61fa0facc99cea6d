------------------------------ MODULE TaskPool ------------------------------
(***************************************************************************)
(* What the server asks of its pool of threads: tasks are started in the   *)
(* order they were accepted, each by one thread, at most as many at a time *)
(* as there are threads; once the pool is stopped it accepts no more but   *)
(* still runs what it accepted, and it closes only when all of it ran.     *)
(* PubSub uses the pool through exactly these steps (PubEnqueue, PoolTake, *)
(* Finish); ThreadPool shows that the code's mutex, condition variable and *)
(* queue implement them.                                                   *)
(***************************************************************************)
EXTENDS Naturals, Sequences, FiniteSets

CONSTANTS
    Tasks,      \* the tasks that may be handed in, each once
    Workers,    \* the threads
    Idle        \* a thread without a task

VARIABLES
    queue,      \* accepted and not started, in order
    active,     \* thread -> the task it runs, or Idle
    finished,   \* tasks that ran
    state       \* "open", "stopped" or "closed"

poolVars == <<queue, active, finished, state>>

Accepted ==
    {queue[i] : i \in DOMAIN queue} \cup {active[w] : w \in Workers} \cup finished

Init ==
    /\ queue = <<>>
    /\ active = [w \in Workers |-> Idle]
    /\ finished = {}
    /\ state = "open"

Enqueue(t) ==
    /\ state = "open"
    /\ t \notin Accepted
    /\ queue' = Append(queue, t)
    /\ UNCHANGED <<active, finished, state>>

Start(w) ==
    /\ queue # <<>>
    /\ active[w] = Idle
    /\ active' = [active EXCEPT ![w] = Head(queue)]
    /\ queue' = Tail(queue)
    /\ UNCHANGED <<finished, state>>

Complete(w) ==
    /\ active[w] # Idle
    /\ finished' = finished \cup {active[w]}
    /\ active' = [active EXCEPT ![w] = Idle]
    /\ UNCHANGED <<queue, state>>

Stop == state = "open" /\ state' = "stopped" /\ UNCHANGED <<queue, active, finished>>

Close ==
    /\ state = "stopped"
    /\ queue = <<>>
    /\ \A w \in Workers : active[w] = Idle
    /\ state' = "closed"
    /\ UNCHANGED <<queue, active, finished>>

Next ==
    \/ \E t \in Tasks : Enqueue(t)
    \/ \E w \in Workers : Start(w) \/ Complete(w)
    \/ Stop
    \/ Close

Spec == Init /\ [][Next]_poolVars
=============================================================================
