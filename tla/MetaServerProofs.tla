-------------------------- MODULE MetaServerProofs --------------------------
(***************************************************************************)
(* Proofs about MetaServer: whatever the clients call and however their    *)
(* handlers interleave, a value is stored once, a duration comes from a    *)
(* recorded time, and a value put into a queue is handed out at most once, *)
(* in its order, and not lost, up to the calls that were in a window with  *)
(* a rival.                                                                *)
(***************************************************************************)
EXTENDS MetaServer, FiniteSetTheorems, TLAPS

(* What the handler of an operation may be about to do. *)
StepsOf(o) ==
    CASE o = "Recordtime"      -> {"start", "stop"}
      [] o = "Recordtimestart" -> {"start"}
      [] o = "Recordtimetick"  -> {"tick"}
      [] o = "Putmeta"         -> {"insert", "push"}
      [] o = "Getmeta"         -> {"take"}
      [] o = "Putmetaspace"    -> {"store"}
      [] o = "Getmetaspace"    -> {"read"}

Messages == {"OK", "NULL", "RPC failed"}

(* Handlers run in a server that listens, each at a step of its operation. *)
Handling ==
    /\ request \in [Calls -> [op : Operations, key : Keys]]
    /\ boot \in Nat /\ up \in {"down", "announced", "listening"}
    /\ DOMAIN pc = Calls
    /\ \A c \in Calls : pc[c] \in {"new", "done"} \cup StepsOf(op(c))
    /\ \A c \in Calls : InHandler(c) => up = "listening"
    /\ raced \subseteq Calls

(* Two handlers that saw the same timer run are both marked, and so is one *)
(* that is about to use a timer that is gone.                              *)
TimerWindows ==
    /\ timerMap \in [Keys -> Calls \cup {None, Zero}]
    /\ DOMAIN measured = Calls
    /\ \A c \in Calls : pc[c] \in {"stop", "tick"} /\ timerMap[key(c)] = None => c \in raced
    /\ \A c, d \in Calls :
          (c # d /\ key(c) = key(d) /\ pc[c] = "stop" /\ pc[d] \in {"stop", "tick"})
          => c \in raced /\ d \in raced

(* A handler about to store a value found the key missing, and it still is *)
(* unless another one found it missing as well.                            *)
StoreWindows ==
    /\ metaSpace \in [Keys -> Calls \cup {None}]
    /\ \A c \in Calls : pc[c] = "store" /\ c \notin raced => metaSpace[key(c)] = None
    /\ \A c, d \in Calls :
          (c # d /\ key(c) = key(d) /\ pc[c] = "store" /\ pc[d] = "store")
          => c \in raced /\ d \in raced

(* The Putmeta of c was answered before that of d. *)
Before(c, d) ==
    \E i, j \in DOMAIN acked : i < j /\ acked[i] = c /\ acked[j] = d

(* The queues hold acknowledged values of their key in the order of the    *)
(* answers, and every value handed out comes before them, once.            *)
QueueOrder ==
    /\ metaMap \in [Keys -> BOOLEAN \X Seq(Calls)]
    /\ DOMAIN reply = Calls
    /\ acked \in Seq(Calls)
    /\ \A c \in Puts : pc[c] = "done"
    /\ \A c \in Calls : ~ Before(c, c)
    /\ \A k \in Keys : \A n \in DOMAIN Queue(k) : Queue(k)[n] \in Puts /\ key(Queue(k)[n]) = k
    /\ \A k \in Keys : \A m, n \in DOMAIN Queue(k) : m < n => Before(Queue(k)[m], Queue(k)[n])
    /\ \A c, d \in Calls : c \in Took(d) => d \in Puts /\ pc[c] = "done"
    /\ \A c, d \in Calls : \A n \in DOMAIN Queue(key(d)) : c \in Took(d) => Before(d, Queue(key(d))[n])
    /\ \A b, c, d \in Calls : b \in Took(d) /\ c \in Took(d) => b = c

(* The value of c was acknowledged by the server that runs. *)
Current(c) == c \in Puts /\ ackedIn[c] = boot /\ up = "listening"

(* A value of the running server has a queue, and is in it or was handed   *)
(* out, unless its handler met another one that found no queue.            *)
Delivered ==
    /\ ackedIn \in [Calls -> Nat]
    /\ \A c \in Calls : ackedIn[c] <= boot /\ (up = "announced" => ackedIn[c] < boot)
    /\ \A c \in Calls : pc[c] = "push" => Present(key(c))
    /\ \A c, d \in Calls :
          (c # d /\ key(c) = key(d) /\ pc[c] \in {"insert", "push"} /\ pc[d] = "insert") => c \in raced
    /\ \A c, d \in Calls : (key(c) = key(d) /\ pc[d] = "insert" /\ Current(c)) => c \in raced
    /\ \A c \in Calls : Current(c) =>
          /\ Present(key(c))
          /\ c \in raced \/ Took(c) # {} \/ \E n \in DOMAIN Queue(key(c)) : Queue(key(c))[n] = c

-----------------------------------------------------------------------------
(* The values that stand for no call. *)
LEMMA Distinct == None \notin Calls /\ Zero \notin Calls /\ None # Zero
BY WorkloadAssumption

(* What the look at the maps makes of a call. *)
LEMMA SeenCases ==
    ASSUME Handling, NEW c \in Calls
    PROVE  /\ Seen(c) \in {"OK", "NULL"} \cup StepsOf(op(c))
           /\ op(c) = "Putmeta" => Seen(c) = IF Present(key(c)) THEN "push" ELSE "insert"
           /\ op(c) = "Putmetaspace" => Seen(c) = StoreSeen(key(c))
           /\ Seen(c) \in {"stop", "tick"} => timerMap[key(c)] # None
<1>1. op(c) \in Operations
  BY DEF Handling, op
<1> QED BY <1>1 DEF Operations, Seen, StepsOf, TickSeen, StoreSeen

(* The steps tell the operations apart. *)
LEMMA StepOps ==
    ASSUME Handling, NEW c \in Calls
    PROVE  /\ pc[c] \in {"insert", "push"} => op(c) = "Putmeta"
           /\ pc[c] = "take" => op(c) = "Getmeta"
           /\ pc[c] \in {"store", "read", "start", "stop", "tick"} => op(c) \notin {"Putmeta", "Getmeta"}
           /\ pc[c] \in {"stop", "tick"} => op(c) \in {"Recordtime", "Recordtimetick"}
           /\ pc[c] \in {"insert", "push", "take", "store", "read", "start", "stop", "tick"} => InHandler(c)
<1>1. op(c) \in Operations /\ pc[c] \in {"new", "done"} \cup StepsOf(op(c))
  BY DEF Handling, op
<1> QED BY <1>1 DEF Operations, StepsOf, InHandler

(* A call is answered: its handler is done and no other one moves. *)
LEMMA Answered ==
    ASSUME Handling, NEW c \in Calls, NEW m, Answer(c, m)
    PROVE  /\ DOMAIN pc' = Calls /\ pc'[c] = "done"
           /\ \A d \in Calls \ {c} : pc'[d] = pc[d]
BY DEF Handling, Answer

(* What a step of a handler leaves alone. *)
LEMMA ActFrame ==
    ASSUME Handling, NEW c \in Calls, Act(c)
    PROVE  /\ UNCHANGED <<request, boot, up, addrFiles, raced>>
           /\ \E m : Answer(c, m)
           /\ InHandler(c)
           /\ pc[c] \in {"insert", "push", "take", "store", "read", "start", "stop", "tick"}
<1>1. UNCHANGED <<request, boot, up, addrFiles, raced>>
  BY DEF Act, Insert, Push, Take, Store, Read, StartTimer, StopTimer, Tick, server, maps
<1>2. pc[c] \in {"insert", "push", "take", "store", "read", "start", "stop", "tick"}
  BY DEF Act, Insert, Push, Take, Store, Read, StartTimer, StopTimer, Tick
<1>3. \E m : Answer(c, m)
  BY DEF Act, Insert, Push, Take, Store, Read, StartTimer, StopTimer, Tick
<1> QED BY <1>1, <1>2, <1>3, StepOps

(* A call that arrives: it is answered, or its handler is at a step. *)
LEMMA Tested ==
    ASSUME Handling, NEW c \in Calls, Test(c)
    PROVE  /\ pc[c] = "new" /\ up = "listening"
           /\ UNCHANGED <<request, boot, up, addrFiles, metaMap, metaSpace, timerMap, measured, undefined>>
           /\ DOMAIN pc' = Calls
           /\ \A d \in Calls \ {c} : pc'[d] = pc[d]
           /\ \/ Seen(c) \in {"OK", "NULL"} /\ Answer(c, Seen(c)) /\ pc'[c] = "done" /\ raced' = raced
              \/ /\ Seen(c) \notin {"OK", "NULL"} /\ pc'[c] = Seen(c)
                 /\ UNCHANGED <<reply, ackedIn, acked>>
                 /\ raced \subseteq raced' /\ raced' \subseteq Calls
                 /\ \A d \in Calls : key(d) = key(c) /\ pc[d] \in Rivals(Seen(c)) => c \in raced' /\ d \in raced'
BY DEF Handling, Test, Answer, server, maps

LEMMA HandlingInit == Init => Handling
<1> SUFFICES ASSUME Init PROVE Handling
  OBVIOUS
<1>1. request \in [Calls -> [op : Operations, key : Keys]]
  BY WorkloadAssumption DEF Init
<1>2. DOMAIN pc = Calls /\ \A c \in Calls : pc[c] = "new"
  BY DEF Init
<1>3. boot \in Nat /\ up = "down" /\ raced = {}
  BY DEF Init
<1> QED BY <1>1, <1>2, <1>3 DEF Handling, InHandler

(* Handlers stay at steps of their operation in a server that listens. *)
LEMMA HandlingStep == Handling /\ [Next]_vars => Handling'
<1> SUFFICES ASSUME Handling, [Next]_vars PROVE Handling'
  OBVIOUS
<1>0. UNCHANGED request => \A c : op(c)' = op(c) /\ key(c)' = key(c)
  BY DEF op, key
<1>1. CASE writeSocket
  BY <1>0, <1>1 DEF writeSocket, Handling, InHandler
<1>2. CASE RunServer
  BY <1>0, <1>2 DEF RunServer, Handling, InHandler
<1>3. CASE Stop
  <2>1. \A c \in Calls : pc'[c] \in {"new", "done"}
    BY <1>3 DEF Stop, InHandler
  <2> QED BY <1>0, <1>3, <2>1 DEF Stop, Handling, InHandler
<1>4. ASSUME NEW c \in Calls, CallFails(c) PROVE Handling'
  BY <1>0, <1>4 DEF CallFails, Handling, InHandler, server
<1>5. ASSUME NEW c \in Calls, Test(c) PROVE Handling'
  <2>1. pc'[c] \in {"done"} \cup StepsOf(op(c)) /\ raced' \subseteq Calls
    BY <1>5, Tested, SeenCases DEF Handling
  <2>2. /\ DOMAIN pc' = Calls /\ \A d \in Calls \ {c} : pc'[d] = pc[d]
        /\ UNCHANGED <<request, boot, up>> /\ up = "listening"
    BY <1>5, Tested
  <2>3. \A d \in Calls : pc'[d] \in {"new", "done"} \cup StepsOf(op(d)')
    BY <1>0, <2>1, <2>2 DEF Handling
  <2> QED BY <1>0, <2>1, <2>2, <2>3 DEF Handling, InHandler
<1>6. ASSUME NEW c \in Calls, Act(c) PROVE Handling'
  <2>1. /\ UNCHANGED <<request, boot, up, raced>>
        /\ DOMAIN pc' = Calls /\ pc'[c] = "done" /\ \A d \in Calls \ {c} : pc'[d] = pc[d]
    BY <1>6, ActFrame, Answered
  <2> QED BY <1>0, <2>1 DEF Handling, InHandler
<1>7. CASE UNCHANGED vars
  BY <1>0, <1>7 DEF vars, server, maps, results, Handling, InHandler
<1> QED BY <1>1, <1>2, <1>3, <1>4, <1>5, <1>6, <1>7 DEF Next, Wait

-----------------------------------------------------------------------------
(* Steps that move no timer: handlers only end. *)
LEMMA TimerFrame ==
    ASSUME TimerWindows, UNCHANGED <<request, timerMap, measured, raced>>,
           \A c \in Calls : pc'[c] = pc[c] \/ pc'[c] \in {"new", "done"}
    PROVE  TimerWindows'
BY DEF TimerWindows, key

LEMMA TimerTest ==
    ASSUME Handling, TimerWindows, NEW c \in Calls, Test(c)
    PROVE  TimerWindows'
<1>1. \A d : key(d)' = key(d)
  BY Tested DEF key
<1>2. CASE Seen(c) \in {"OK", "NULL"}
  <2>1. UNCHANGED <<request, timerMap, measured, raced>>
        /\ \A d \in Calls : pc'[d] = pc[d] \/ pc'[d] \in {"new", "done"}
    BY <1>2, Tested
  <2> QED BY <2>1, TimerFrame
<1>3. CASE Seen(c) \notin {"OK", "NULL"}
  <2>1. /\ pc'[c] = Seen(c) /\ pc[c] = "new" /\ raced \subseteq raced'
        /\ UNCHANGED <<timerMap, measured>>
        /\ \A d \in Calls \ {c} : pc'[d] = pc[d]
        /\ \A d \in Calls : key(d) = key(c) /\ pc[d] \in Rivals(Seen(c)) => c \in raced' /\ d \in raced'
    BY <1>3, Tested
  <2>2. Seen(c) \in {"stop", "tick"} => timerMap[key(c)] # None
    BY SeenCases
  <2>3. \A d \in Calls : pc'[d] \in {"stop", "tick"} /\ timerMap'[key(d)] = None => d \in raced'
    BY <2>1, <2>2 DEF TimerWindows
  <2>4. \A d \in Calls \ {c} : key(c) = key(d) /\ pc'[c] = "stop" /\ pc[d] \in {"stop", "tick"} => c \in raced' /\ d \in raced'
    BY <2>1 DEF Rivals
  <2>5. \A d \in Calls \ {c} : key(c) = key(d) /\ pc'[c] \in {"stop", "tick"} /\ pc[d] = "stop" => c \in raced' /\ d \in raced'
    BY <2>1 DEF Rivals
  <2>6. ASSUME NEW a \in Calls, NEW b \in Calls, a # b, key(a) = key(b), pc'[a] = "stop", pc'[b] \in {"stop", "tick"}
        PROVE  a \in raced' /\ b \in raced'
    <3>1. CASE a = c
      BY <2>1, <2>4, <2>6, <3>1
    <3>2. CASE b = c
      BY <2>1, <2>5, <2>6, <3>2
    <3>3. CASE a # c /\ b # c
      BY <2>1, <2>6, <3>3 DEF TimerWindows
    <3> QED BY <3>1, <3>2, <3>3
  <2> QED BY <1>1, <2>1, <2>3, <2>6 DEF TimerWindows
<1> QED BY <1>2, <1>3

(* Zero in a timer or a duration has a marked call behind it. *)
LEMMA TimerAct ==
    ASSUME Handling, TimerWindows, TimerReal, NEW c \in Calls, Act(c)
    PROVE  TimerWindows' /\ TimerReal'
<1>1. /\ UNCHANGED <<request, raced>> /\ pc'[c] = "done" /\ \A d \in Calls \ {c} : pc'[d] = pc[d]
      /\ \A d : key(d)' = key(d) /\ op(d)' = op(d)
  BY ActFrame, Answered DEF key, op
<1>2. key(c) \in Keys
  BY DEF Handling, key
<1>3. CASE Insert(c) \/ Push(c) \/ Take(c) \/ Store(c) \/ Read(c)
  <2>1. UNCHANGED <<timerMap, measured>>
    BY <1>3 DEF Insert, Push, Take, Store, Read, maps
  <2>2. TimerReal'
    BY <1>1, <2>1 DEF TimerReal
  <2> QED BY <1>1, <2>1, <2>2, TimerFrame
<1>4. CASE StartTimer(c)
  <2>1. UNCHANGED measured /\ timerMap' \in [Keys -> Calls \cup {None, Zero}] /\ timerMap'[key(c)] = c
        /\ \A k \in Keys \ {key(c)} : timerMap'[k] = timerMap[k]
    BY <1>2, <1>4 DEF StartTimer, TimerWindows
  <2>2. TimerWindows'
    BY <1>1, <2>1, Distinct DEF TimerWindows, Handling, key
  <2>3. TimerReal'
    BY <1>1, <2>1, Distinct DEF TimerReal
  <2> QED BY <2>2, <2>3
<1>5. CASE StopTimer(c)
  <2>1. /\ DOMAIN measured' = Calls
        /\ timerMap' \in [Keys -> Calls \cup {None, Zero}] /\ timerMap'[key(c)] = None
        /\ \A k \in Keys \ {key(c)} : timerMap'[k] = timerMap[k]
        /\ measured'[c] = Started(key(c)) /\ \A d \in Calls \ {c} : measured'[d] = measured[d]
        /\ pc[c] = "stop"
    BY <1>2, <1>5 DEF StopTimer, TimerWindows
  <2>2. \A d \in Calls : key(d) \in Keys
    BY DEF Handling, key
  <2>3. \A d \in Calls \ {c} : key(d) = key(c) /\ pc[d] \in {"stop", "tick"} => d \in raced
    BY <2>1 DEF TimerWindows
  <2>4. TimerWindows'
    BY <1>1, <2>1, <2>2, <2>3 DEF TimerWindows
  <2>5. measured'[c] = Zero => timerMap[key(c)] = Zero \/ c \in raced
    BY <2>1 DEF Started, TimerWindows
  <2>6. op(c) \in {"Recordtime", "Recordtimetick"}
    BY <2>1, StepOps
  <2>7. TimerReal'
    BY <1>1, <1>2, <2>1, <2>5, <2>6, Distinct DEF TimerReal
  <2> QED BY <2>4, <2>7
<1>6. CASE Tick(c)
  <2>1. /\ DOMAIN measured' = Calls
        /\ timerMap' \in [Keys -> Calls \cup {None, Zero}] /\ timerMap'[key(c)] = Started(key(c))
        /\ \A k \in Keys \ {key(c)} : timerMap'[k] = timerMap[k]
        /\ measured'[c] = Started(key(c)) /\ \A d \in Calls \ {c} : measured'[d] = measured[d]
        /\ pc[c] = "tick"
    BY <1>2, <1>6 DEF Tick, TimerWindows, Started
  <2>2. \A d \in Calls : key(d) \in Keys
    BY DEF Handling, key
  <2>3. Started(key(c)) # None
    BY WorkloadAssumption DEF Started
  <2>4. TimerWindows'
    BY <1>1, <2>1, <2>2, <2>3 DEF TimerWindows
  <2>5. Started(key(c)) = Zero => timerMap[key(c)] = Zero \/ c \in raced
    BY <2>1 DEF Started, TimerWindows
  <2>6. op(c) \in {"Recordtime", "Recordtimetick"}
    BY <2>1, StepOps
  <2>7. TimerReal'
    BY <1>1, <1>2, <2>1, <2>5, <2>6 DEF TimerReal
  <2> QED BY <2>4, <2>7
<1> QED BY <1>3, <1>4, <1>5, <1>6 DEF Act

LEMMA TimerStep == Handling /\ TimerWindows /\ TimerReal /\ [Next]_vars => TimerWindows' /\ TimerReal'
<1> SUFFICES ASSUME Handling, TimerWindows, TimerReal, [Next]_vars PROVE TimerWindows' /\ TimerReal'
  OBVIOUS
<1>1. CASE writeSocket \/ RunServer \/ (\E c \in Calls : CallFails(c)) \/ UNCHANGED vars
  <2>1. UNCHANGED <<request, timerMap, measured, raced>>
    BY <1>1 DEF writeSocket, RunServer, CallFails, vars, server, maps, results
  <2>2. \A c \in Calls : pc'[c] = pc[c] \/ pc'[c] \in {"new", "done"}
    BY <1>1 DEF writeSocket, RunServer, CallFails, vars, Handling
  <2>3. TimerReal'
    BY <2>1 DEF TimerReal, key, op
  <2> QED BY <2>1, <2>2, <2>3, TimerFrame
<1>2. CASE Stop
  <2>1. /\ UNCHANGED <<request, measured, raced>>
        /\ timerMap' = [k \in Keys |-> None]
        /\ \A c \in Calls : pc'[c] \in {"new", "done"}
    BY <1>2 DEF Stop, InHandler
  <2>2. TimerReal'
    BY <2>1, Distinct DEF TimerReal, key, op
  <2> QED BY <2>1, <2>2 DEF TimerWindows
<1>3. ASSUME NEW c \in Calls, Test(c) PROVE TimerWindows' /\ TimerReal'
  <2>1. UNCHANGED <<request, timerMap, measured>> /\ raced \subseteq raced'
    BY <1>3, Tested
  <2>2. TimerReal'
    BY <2>1 DEF TimerReal, key, op
  <2> QED BY <1>3, <2>2, TimerTest
<1>4. ASSUME NEW c \in Calls, Act(c) PROVE TimerWindows' /\ TimerReal'
  BY <1>4, TimerAct
<1> QED BY <1>1, <1>2, <1>3, <1>4 DEF Next, Wait

(* A duration is computed from a recorded time, for all clients: the time  *)
(* zero that timerMap[key] inserts for a missing key (metaserver.cc        *)
(* Recordtime, Recordtimetick) gets in only when a stop of that key was in *)
(* the window between a handler's look and its critical section.           *)
THEOREM DurationsAreReal == Spec => []TimerReal
<1>1. Init => Handling /\ TimerWindows /\ TimerReal
  <2>1. Init => TimerWindows /\ TimerReal
    BY Distinct DEF Init, TimerWindows, TimerReal, key
  <2> QED BY <2>1, HandlingInit
<1>2. (Handling /\ TimerWindows /\ TimerReal) /\ [Next]_vars => (Handling /\ TimerWindows /\ TimerReal)'
  BY HandlingStep, TimerStep
<1> QED BY <1>1, <1>2, PTL DEF Spec

-----------------------------------------------------------------------------
(* What a step may do to the stored values. *)
SpaceKept ==
    \A k \in Keys :
        metaSpace'[k] # metaSpace[k] => metaSpace[k] = None \/ up' = "down" \/ metaSpace'[k] \in raced

(* Steps that store nothing: handlers only end. *)
LEMMA StoreFrame ==
    ASSUME StoreWindows, UNCHANGED <<request, metaSpace, raced>>,
           \A c \in Calls : pc'[c] = pc[c] \/ pc'[c] \in {"new", "done"}
    PROVE  StoreWindows'
BY DEF StoreWindows, key

LEMMA StoreTest ==
    ASSUME Handling, StoreWindows, NEW c \in Calls, Test(c)
    PROVE  StoreWindows'
<1>1. UNCHANGED <<request, metaSpace>> /\ \A d : key(d)' = key(d)
  BY Tested DEF key
<1>2. CASE Seen(c) \in {"OK", "NULL"}
  <2>1. UNCHANGED raced /\ \A d \in Calls : pc'[d] = pc[d] \/ pc'[d] \in {"new", "done"}
    BY <1>2, Tested
  <2> QED BY <1>1, <2>1, StoreFrame
<1>3. CASE Seen(c) \notin {"OK", "NULL"}
  <2>1. /\ pc'[c] = Seen(c) /\ pc[c] = "new" /\ raced \subseteq raced'
        /\ \A d \in Calls \ {c} : pc'[d] = pc[d]
        /\ \A d \in Calls : key(d) = key(c) /\ pc[d] \in Rivals(Seen(c)) => c \in raced' /\ d \in raced'
    BY <1>3, Tested
  <2>2. Seen(c) = "store" => metaSpace[key(c)] = None
    <3>1. op(c) \in Operations
      BY DEF Handling, op
    <3> QED BY <3>1 DEF Seen, StoreSeen, TickSeen, Operations
  <2>3. \A d \in Calls : pc'[d] = "store" /\ d \notin raced' => metaSpace'[key(d)] = None
    BY <1>1, <2>1, <2>2 DEF StoreWindows
  <2>4. \A d \in Calls \ {c} : key(c) = key(d) /\ pc'[c] = "store" /\ pc[d] = "store" => c \in raced' /\ d \in raced'
    BY <2>1 DEF Rivals
  <2>5. ASSUME NEW a \in Calls, NEW b \in Calls, a # b, key(a) = key(b), pc'[a] = "store", pc'[b] = "store"
        PROVE  a \in raced' /\ b \in raced'
    <3>1. CASE a = c
      BY <2>1, <2>4, <2>5, <3>1
    <3>2. CASE b = c
      BY <2>1, <2>4, <2>5, <3>2
    <3>3. CASE a # c /\ b # c
      BY <2>1, <2>5, <3>3 DEF StoreWindows
    <3> QED BY <3>1, <3>2, <3>3
  <2> QED BY <1>1, <2>3, <2>5 DEF StoreWindows
<1> QED BY <1>2, <1>3

LEMMA StoreAct ==
    ASSUME Handling, StoreWindows, NEW c \in Calls, Act(c)
    PROVE  StoreWindows' /\ SpaceKept
<1>1. /\ UNCHANGED <<request, raced>> /\ pc'[c] = "done" /\ \A d \in Calls \ {c} : pc'[d] = pc[d]
      /\ \A d : key(d)' = key(d)
  BY ActFrame, Answered DEF key
<1>2. \A d \in Calls : key(d) \in Keys
  BY DEF Handling, key
<1>3. CASE Insert(c) \/ Push(c) \/ Take(c) \/ Read(c) \/ StartTimer(c) \/ StopTimer(c) \/ Tick(c)
  <2>1. UNCHANGED metaSpace
    BY <1>3 DEF Insert, Push, Take, Read, StartTimer, StopTimer, Tick, maps
  <2> QED BY <1>1, <2>1, StoreFrame DEF SpaceKept
<1>4. CASE Store(c)
  <2>1. /\ metaSpace' \in [Keys -> Calls \cup {None}] /\ metaSpace'[key(c)] = c
        /\ \A k \in Keys \ {key(c)} : metaSpace'[k] = metaSpace[k]
        /\ pc[c] = "store"
    BY <1>2, <1>4 DEF Store, StoreWindows
  <2>2. \A d \in Calls \ {c} : key(d) = key(c) /\ pc[d] = "store" => d \in raced
    BY <2>1 DEF StoreWindows
  <2>3. StoreWindows'
    BY <1>1, <1>2, <2>1, <2>2 DEF StoreWindows
  <2>4. SpaceKept
    BY <1>2, <2>1 DEF SpaceKept, StoreWindows
  <2> QED BY <2>3, <2>4
<1> QED BY <1>3, <1>4 DEF Act

LEMMA StoreStep == Handling /\ StoreWindows /\ [Next]_vars => StoreWindows' /\ SpaceKept
<1> SUFFICES ASSUME Handling, StoreWindows, [Next]_vars PROVE StoreWindows' /\ SpaceKept
  OBVIOUS
<1>1. CASE writeSocket \/ RunServer \/ (\E c \in Calls : CallFails(c)) \/ UNCHANGED vars
  <2>1. UNCHANGED <<request, metaSpace, raced>>
    BY <1>1 DEF writeSocket, RunServer, CallFails, vars, server, maps, results
  <2>2. \A c \in Calls : pc'[c] = pc[c] \/ pc'[c] \in {"new", "done"}
    BY <1>1 DEF writeSocket, RunServer, CallFails, vars, Handling
  <2> QED BY <2>1, <2>2, StoreFrame DEF SpaceKept
<1>2. CASE Stop
  <2>1. /\ UNCHANGED <<request, raced>> /\ up' = "down"
        /\ metaSpace' = [k \in Keys |-> None]
        /\ \A c \in Calls : pc'[c] \in {"new", "done"}
    BY <1>2 DEF Stop, InHandler
  <2> QED BY <2>1 DEF StoreWindows, SpaceKept
<1>3. ASSUME NEW c \in Calls, Test(c) PROVE StoreWindows' /\ SpaceKept
  <2>1. UNCHANGED metaSpace
    BY <1>3, Tested
  <2> QED BY <1>3, <2>1, StoreTest DEF SpaceKept
<1>4. ASSUME NEW c \in Calls, Act(c) PROVE StoreWindows' /\ SpaceKept
  BY <1>4, StoreAct
<1> QED BY <1>1, <1>2, <1>3, <1>4 DEF Next, Wait

(* Putmetaspace of metaserver.cc stores once, for all clients: a value     *)
(* that is there is replaced by no call, unless that call found the key    *)
(* missing together with another one.                                      *)
THEOREM ValuesAreKept == Spec => MetaSpaceKept
<1>1. Init => Handling /\ StoreWindows
  <2>1. Init => StoreWindows
    BY DEF Init, StoreWindows
  <2> QED BY <2>1, HandlingInit
<1>2. (Handling /\ StoreWindows) /\ [Next]_vars => (Handling /\ StoreWindows)'
  BY HandlingStep, StoreStep
<1>3. (Handling /\ StoreWindows) /\ [Next]_vars =>
      [\A k \in Keys :
        metaSpace'[k] # metaSpace[k] =>
            \/ metaSpace[k] = None
            \/ up' = "down"
            \/ metaSpace'[k] \in raced]_vars
  BY StoreStep DEF SpaceKept
<1> QED BY <1>1, <1>2, <1>3, PTL DEF Spec, MetaSpaceKept

-----------------------------------------------------------------------------
(* An answer to a Putmeta comes after all earlier ones. *)
LEMMA LastAnswer ==
    ASSUME acked \in Seq(Calls), NEW c \in Calls, acked' = Append(acked, c)
    PROVE  /\ acked' \in Seq(Calls) /\ Puts' = Puts \cup {c}
           /\ \A a, b \in Calls : Before(a, b) => Before(a, b)'
           /\ \A a \in Puts : Before(a, c)'
           /\ (c \notin Puts /\ \A a \in Calls : ~ Before(a, a)) => \A a \in Calls : ~ Before(a, a)'
<1> DEFINE n == Len(acked)
<1>1. /\ acked' \in Seq(Calls) /\ n \in Nat
      /\ DOMAIN acked = 1 .. n /\ DOMAIN acked' = 1 .. n + 1
      /\ acked'[n + 1] = c /\ \A i \in 1 .. n : acked'[i] = acked[i]
  OBVIOUS
<1> HIDE DEF n
<1>2. Puts' = Puts \cup {c}
  BY <1>1 DEF Puts
<1>3. ASSUME NEW a \in Calls, NEW b \in Calls, Before(a, b) PROVE Before(a, b)'
  BY <1>1, <1>3 DEF Before
<1>4. ASSUME NEW a \in Puts PROVE Before(a, c)'
  BY <1>1 DEF Before, Puts
<1>5. ASSUME c \notin Puts, \A a \in Calls : ~ Before(a, a), NEW a \in Calls, Before(a, a)'
      PROVE  FALSE
  <2>1. PICK i, j \in 1 .. n + 1 : i < j /\ acked'[i] = a /\ acked'[j] = a
    BY <1>1, <1>5 DEF Before
  <2>2. i \in 1 .. n
    BY <1>1, <2>1
  <2>3. CASE j = n + 1
    BY <1>1, <1>5, <2>1, <2>2, <2>3 DEF Puts
  <2>4. CASE j # n + 1
    BY <1>1, <1>5, <2>1, <2>2, <2>4 DEF Before
  <2> QED BY <2>3, <2>4
<1> QED BY <1>1, <1>2, <1>3, <1>4, <1>5

(* Queues as they are or emptied, no new answer to a Putmeta, nothing new  *)
(* handed out.                                                             *)
LEMMA QueueFrame ==
    ASSUME Handling, QueueOrder, UNCHANGED <<request, acked>>,
           metaMap' \in [Keys -> BOOLEAN \X Seq(Calls)],
           \A k \in Keys : Queue(k)' = Queue(k) \/ Queue(k)' = <<>>,
           DOMAIN reply' = Calls,
           \A c \in Calls : pc[c] = "done" => pc'[c] = "done",
           \A c \in Calls : op(c) = "Getmeta" /\ reply'[c] \in Calls => reply'[c] = reply[c]
    PROVE  QueueOrder'
<1>1. Puts' = Puts /\ \A a, b : Before(a, b)' = Before(a, b)
  BY DEF Puts, Before
<1>2. \A c \in Calls : Took(c)' \subseteq Took(c)
  BY DEF Took, op
<1>3. \A c \in Calls : key(c) \in Keys /\ key(c)' = key(c)
  BY DEF Handling, key
<1>4. Puts \subseteq Calls
  BY DEF QueueOrder, Puts
<1>5. \A c \in Puts : pc'[c] = "done"
  BY <1>4 DEF QueueOrder
<1>6. ASSUME NEW k \in Keys, NEW n \in DOMAIN Queue(k)' PROVE Queue(k)' = Queue(k)
  BY <1>6
<1>7. /\ \A k \in Keys : \A n \in DOMAIN Queue(k)' : Queue(k)'[n] \in Puts /\ key(Queue(k)[n])' = k
      /\ \A k \in Keys : \A m, n \in DOMAIN Queue(k)' : m < n => Before(Queue(k)'[m], Queue(k)'[n])
  BY <1>3, <1>4, <1>6 DEF QueueOrder
<1> QED BY <1>1, <1>2, <1>3, <1>4, <1>5, <1>6, <1>7 DEF QueueOrder


(* A queue that is there. *)
LEMMA PresentQueue ==
    ASSUME NEW q \in Seq(Calls)
    PROVE  <<TRUE, q>> \in BOOLEAN \X Seq(Calls)
<1>1. TRUE \in BOOLEAN
  OBVIOUS
<1> QED BY <1>1, Zenon

(* What a step of Putmeta does to the queues and the history. *)
LEMMA PutEffect ==
    ASSUME Handling, QueueOrder, NEW c \in Calls, Insert(c) \/ Push(c)
    PROVE  /\ metaMap' \in [Keys -> BOOLEAN \X Seq(Calls)]
           /\ UNCHANGED <<request, boot, up, raced>>
           /\ acked' = Append(acked, c) /\ c \notin Puts
           /\ pc[c] \in {"insert", "push"} /\ pc'[c] = "done"
           /\ \A d \in Calls \ {c} : pc'[d] = pc[d] /\ reply'[d] = reply[d]
           /\ DOMAIN reply' = Calls /\ op(c) = "Putmeta"
           /\ \A k \in Keys \ {key(c)} : metaMap'[k] = metaMap[k]
           /\ metaMap'[key(c)][1]
           /\ Insert(c) => metaMap'[key(c)][2] = <<c>>
           /\ Push(c) => metaMap'[key(c)][2] = Append(metaMap[key(c)][2], c)
<1>1. key(c) \in Keys /\ DOMAIN pc = Calls
  BY DEF Handling, key
<1>2. pc[c] \in {"insert", "push"}
  BY DEF Insert, Push
<1>3. op(c) = "Putmeta"
  BY <1>2, StepOps
<1>4. c \notin Puts
  BY <1>2 DEF QueueOrder
<1>5. metaMap[key(c)][2] \in Seq(Calls)
  BY <1>1 DEF QueueOrder
<1>6. /\ UNCHANGED <<request, boot, up, raced>> /\ acked' = Append(acked, c) /\ pc'[c] = "done"
      /\ \A d \in Calls \ {c} : pc'[d] = pc[d] /\ reply'[d] = reply[d]
      /\ DOMAIN reply' = Calls
  BY <1>1, <1>3 DEF Insert, Push, Answer, server, QueueOrder
<1>7. CASE Insert(c)
  <2>1. metaMap' = [metaMap EXCEPT ![key(c)] = <<TRUE, <<c>>>>] /\ pc[c] # "push"
    BY <1>7 DEF Insert
  <2>2. <<TRUE, <<c>>>> \in BOOLEAN \X Seq(Calls)
    <3>1. <<c>> \in Seq(Calls)
      OBVIOUS
    <3> QED BY <3>1, PresentQueue
  <2>3. ~ Push(c)
    BY <2>1 DEF Push
  <2> QED BY <1>1, <1>2, <1>3, <1>4, <1>6, <2>1, <2>2, <2>3 DEF QueueOrder
<1>8. CASE Push(c)
  <2>1. metaMap' = [metaMap EXCEPT ![key(c)] = <<TRUE, Append(metaMap[key(c)][2], c)>>] /\ pc[c] # "insert"
    BY <1>8 DEF Push
  <2>2. <<TRUE, Append(metaMap[key(c)][2], c)>> \in BOOLEAN \X Seq(Calls)
    <3>1. Append(metaMap[key(c)][2], c) \in Seq(Calls)
      BY <1>5
    <3> QED BY <3>1, PresentQueue
  <2>3. ~ Insert(c)
    BY <2>1 DEF Insert
  <2> QED BY <1>1, <1>2, <1>3, <1>4, <1>6, <2>1, <2>2, <2>3 DEF QueueOrder
<1> QED BY <1>7, <1>8

LEMMA QueuePut ==
    ASSUME Handling, QueueOrder, NEW c \in Calls, Insert(c) \/ Push(c)
    PROVE  QueueOrder'
<1> DEFINE q(k) == metaMap[k][2]
           qq(k) == metaMap'[k][2]
<1>1. /\ metaMap' \in [Keys -> BOOLEAN \X Seq(Calls)]
      /\ UNCHANGED request
      /\ acked' = Append(acked, c) /\ c \notin Puts
      /\ pc'[c] = "done"
      /\ \A d \in Calls \ {c} : pc'[d] = pc[d] /\ reply'[d] = reply[d]
      /\ DOMAIN reply' = Calls /\ op(c) = "Putmeta"
  BY PutEffect
<1>2. /\ \A k \in Keys \ {key(c)} : qq(k) = q(k)
      /\ qq(key(c)) = <<c>> \/ qq(key(c)) = Append(q(key(c)), c)
  BY PutEffect
<1>3. \A d \in Calls : key(d) \in Keys /\ key(d)' = key(d) /\ op(d)' = op(d)
  BY <1>1 DEF Handling, key, op
<1>4. /\ acked' \in Seq(Calls) /\ Puts' = Puts \cup {c} /\ Puts \subseteq Calls
      /\ \A a, b \in Calls : Before(a, b) => Before(a, b)'
      /\ \A a \in Puts : Before(a, c)'
      /\ \A a \in Calls : ~ Before(a, a)'
  <2>1. acked \in Seq(Calls) /\ Puts \subseteq Calls /\ \A a \in Calls : ~ Before(a, a)
    BY DEF QueueOrder, Puts
  <2> QED BY <1>1, <2>1, LastAnswer
<1>5. \A d \in Calls : Took(d)' = Took(d)
  BY <1>1, <1>3 DEF Took
<1>6. \A k \in Keys : q(k) \in Seq(Calls)
  BY DEF QueueOrder
<1>7. /\ \A k \in Keys : \A n \in DOMAIN q(k) : q(k)[n] \in Puts /\ key(q(k)[n]) = k
      /\ \A k \in Keys : \A m, n \in DOMAIN q(k) : m < n => Before(q(k)[m], q(k)[n])
      /\ \A a, d \in Calls : a \in Took(d) => d \in Puts /\ pc[a] = "done"
      /\ \A a, d \in Calls : \A n \in DOMAIN q(key(d)) : a \in Took(d) => Before(d, q(key(d))[n])
      /\ \A a, b, d \in Calls : a \in Took(d) /\ b \in Took(d) => a = b
  BY DEF QueueOrder, Queue
<1> HIDE DEF q, qq
<1>8. ASSUME NEW k \in Keys, NEW n \in DOMAIN qq(k)
      PROVE  \/ n \in DOMAIN q(k) /\ qq(k)[n] = q(k)[n]
             \/ k = key(c) /\ qq(k)[n] = c /\ \A m \in DOMAIN qq(k) : m < n => m \in DOMAIN q(k) /\ qq(k)[m] = q(k)[m]
  <2>1. CASE k # key(c)
    BY <1>2, <2>1
  <2>2. CASE k = key(c) /\ qq(k) = <<c>>
    BY <1>8, <2>2
  <2>3. CASE k = key(c) /\ qq(k) = Append(q(k), c)
    <3>1. q(k) \in Seq(Calls)
      BY <1>6
    <3> QED BY <1>8, <2>3, <3>1
  <2> QED BY <1>2, <2>1, <2>2, <2>3
<1>9. ASSUME NEW k \in Keys, NEW n \in DOMAIN qq(k)
      PROVE  qq(k)[n] \in Puts' /\ qq(k)[n] \in Calls /\ key(qq(k)[n]) = k
  BY <1>4, <1>7, <1>8
<1>10. ASSUME NEW k \in Keys, NEW m \in DOMAIN qq(k), NEW n \in DOMAIN qq(k), m < n
       PROVE  \E a, b \in Calls : a = qq(k)[m] /\ b = qq(k)[n] /\ Before(a, b)'
  <2>1. CASE n \in DOMAIN q(k) /\ qq(k)[n] = q(k)[n] /\ m \in DOMAIN q(k) /\ qq(k)[m] = q(k)[m]
    BY <1>4, <1>7, <1>10, <2>1
  <2>2. CASE qq(k)[n] = c /\ m \in DOMAIN q(k) /\ qq(k)[m] = q(k)[m]
    BY <1>4, <1>7, <1>10, <2>2
  <2>3. CASE qq(k)[m] = c /\ k = key(c) /\ n \in DOMAIN q(k) /\ qq(k)[n] = q(k)[n]
    <3>1. m \in DOMAIN q(k)
      <4>1. q(k) \in Seq(Calls) /\ (qq(k) = <<c>> \/ qq(k) = Append(q(k), c))
        BY <1>2, <1>6, <2>3
      <4> QED BY <1>10, <2>3, <4>1
    <3>2. qq(k)[m] = q(k)[m] \/ qq(k) = <<c>>
      <4>1. q(k) \in Seq(Calls) /\ (qq(k) = <<c>> \/ qq(k) = Append(q(k), c))
        BY <1>2, <1>6, <2>3
      <4> QED BY <1>10, <3>1, <4>1
    <3>3. CASE qq(k)[m] = q(k)[m]
      BY <2>1, <2>3, <3>1, <3>3
    <3>4. CASE qq(k) = <<c>>
      BY <1>10, <3>4
    <3> QED BY <3>2, <3>3, <3>4
  <2>4. (m \in DOMAIN q(k) /\ qq(k)[m] = q(k)[m]) \/ (qq(k)[m] = c /\ k = key(c))
    BY <1>8
  <2>5. \/ n \in DOMAIN q(k) /\ qq(k)[n] = q(k)[n]
        \/ qq(k)[n] = c /\ m \in DOMAIN q(k) /\ qq(k)[m] = q(k)[m]
    BY <1>8, <1>10
  <2> QED BY <2>1, <2>2, <2>3, <2>4, <2>5
<1>11. ASSUME NEW a \in Calls, NEW d \in Calls, a \in Took(d), NEW n \in DOMAIN qq(key(d))
       PROVE  \E b \in Calls : b = qq(key(d))[n] /\ Before(d, b)'
  BY <1>3, <1>4, <1>7, <1>8, <1>9, <1>11
<1>12. \A d \in Puts' : d \in Calls /\ pc'[d] = "done"
  BY <1>1, <1>4 DEF QueueOrder
<1>13. /\ \A k \in Keys : \A n \in DOMAIN qq(k) : qq(k)[n] \in Puts' /\ \A b \in Calls : b = qq(k)[n] => key(b)' = k
       /\ \A k \in Keys : \A m, n \in DOMAIN qq(k) : m < n =>
             \A a, b \in Calls : a = qq(k)[m] /\ b = qq(k)[n] => Before(a, b)'
       /\ \A a, d \in Calls : \A n \in DOMAIN qq(key(d)) : a \in Took(d)' =>
             \A b \in Calls : b = qq(key(d))[n] => Before(d, b)'
       /\ \A k \in Keys : \A n \in DOMAIN qq(k) : qq(k)[n] \in Calls
  BY <1>3, <1>5, <1>9, <1>10, <1>11
<1>14. (\A k \in Keys : \A n \in DOMAIN Queue(k) : Queue(k)[n] \in Puts /\ key(Queue(k)[n]) = k)'
  BY <1>13 DEF Queue, qq
<1>15. (\A k \in Keys : \A m, n \in DOMAIN Queue(k) : m < n => Before(Queue(k)[m], Queue(k)[n]))'
  BY <1>13 DEF Queue, qq
<1>16. (\A a, d \in Calls : \A n \in DOMAIN Queue(key(d)) : a \in Took(d) => Before(d, Queue(key(d))[n]))'
  BY <1>3, <1>13 DEF Queue, qq
<1>17. (\A a, d \in Calls : a \in Took(d) => d \in Puts /\ pc[a] = "done")'
       /\ (\A a, b, d \in Calls : a \in Took(d) /\ b \in Took(d) => a = b)'
  <2>1. \A a \in Calls : pc[a] = "done" => pc'[a] = "done"
    BY <1>1
  <2>2. \A a, d \in Calls : a \in Took(d)' => d \in Puts' /\ pc'[a] = "done"
    BY <1>4, <1>5, <1>7, <2>1
  <2> QED BY <1>5, <1>7, <2>2
<1> QED BY <1>1, <1>4, <1>12, <1>14, <1>15, <1>16, <1>17 DEF QueueOrder


(* What a step of Getmeta that finds a value does. *)
LEMMA TakeEffect ==
    ASSUME Handling, QueueOrder, NEW c \in Calls, Take(c), Queue(key(c)) # <<>>
    PROVE  /\ metaMap' \in [Keys -> BOOLEAN \X Seq(Calls)]
           /\ UNCHANGED <<request, boot, up, raced, acked>>
           /\ pc[c] = "take" /\ pc'[c] = "done"
           /\ \A d \in Calls \ {c} : pc'[d] = pc[d] /\ reply'[d] = reply[d]
           /\ DOMAIN reply' = Calls /\ op(c) = "Getmeta"
           /\ \A k \in Keys \ {key(c)} : metaMap'[k] = metaMap[k]
           /\ metaMap'[key(c)][1]
           /\ LET q == metaMap[key(c)][2]
                  qq == metaMap'[key(c)][2]
              IN /\ 1 \in DOMAIN q /\ reply'[c] = q[1]
                 /\ \A n \in DOMAIN qq : n + 1 \in DOMAIN q /\ qq[n] = q[n + 1]
                 /\ \A n \in DOMAIN q : n # 1 => n - 1 \in DOMAIN qq /\ qq[n - 1] = q[n]
                 /\ q \in Seq(Calls)
<1>1. key(c) \in Keys /\ DOMAIN pc = Calls
  BY DEF Handling, key
<1> DEFINE q == metaMap[key(c)][2]
<1>2. pc[c] = "take" /\ op(c) = "Getmeta"
  BY StepOps DEF Take
<1>3. q \in Seq(Calls) /\ q # <<>>
  BY <1>1 DEF QueueOrder, Queue
<1>4. /\ UNCHANGED <<request, boot, up, raced, acked>> /\ pc'[c] = "done"
      /\ \A d \in Calls \ {c} : pc'[d] = pc[d] /\ reply'[d] = reply[d]
      /\ DOMAIN reply' = Calls /\ reply'[c] = Head(q)
      /\ metaMap' = [metaMap EXCEPT ![key(c)] = <<TRUE, Tail(q)>>]
  <2>1. /\ metaMap' = [metaMap EXCEPT ![key(c)] = <<TRUE, Tail(@[2])>>]
        /\ Answer(c, Head(q))
        /\ UNCHANGED <<request, server, raced>>
    BY DEF Take, Queue
  <2>2. metaMap' = [metaMap EXCEPT ![key(c)] = <<TRUE, Tail(q)>>]
    BY <2>1
  <2>3. UNCHANGED <<request, boot, up, raced, acked>> /\ pc'[c] = "done" /\ reply'[c] = Head(q)
        /\ DOMAIN reply' = Calls /\ \A d \in Calls \ {c} : pc'[d] = pc[d] /\ reply'[d] = reply[d]
    BY <1>1, <1>2, <2>1 DEF Answer, server, QueueOrder
  <2> QED BY <2>2, <2>3
<1> HIDE DEF q
<1>5. /\ Tail(q) \in Seq(Calls) /\ 1 \in DOMAIN q /\ Head(q) = q[1]
      /\ \A n \in DOMAIN Tail(q) : n + 1 \in DOMAIN q /\ Tail(q)[n] = q[n + 1]
      /\ \A n \in DOMAIN q : n # 1 => n - 1 \in DOMAIN Tail(q) /\ Tail(q)[n - 1] = q[n]
  BY <1>3
<1>6. <<TRUE, Tail(q)>> \in BOOLEAN \X Seq(Calls)
  BY <1>5, PresentQueue
<1>7. /\ metaMap' \in [Keys -> BOOLEAN \X Seq(Calls)]
      /\ \A k \in Keys \ {key(c)} : metaMap'[k] = metaMap[k]
      /\ metaMap'[key(c)] = <<TRUE, Tail(q)>>
  BY <1>1, <1>4, <1>6, ZenonT(60) DEF QueueOrder
<1>8. metaMap'[key(c)][1] /\ metaMap'[key(c)][2] = Tail(q)
  BY <1>7
<1> QED BY <1>2, <1>3, <1>4, <1>5, <1>7, <1>8 DEF q

LEMMA QueueTake ==
    ASSUME Handling, QueueOrder, NEW c \in Calls, Take(c), Queue(key(c)) # <<>>
    PROVE  QueueOrder'
<1> DEFINE q(k) == metaMap[k][2]
           qq(k) == metaMap'[k][2]
           h == q(key(c))[1]
<1>1. /\ metaMap' \in [Keys -> BOOLEAN \X Seq(Calls)]
      /\ UNCHANGED <<request, acked>>
      /\ pc'[c] = "done"
      /\ \A d \in Calls \ {c} : pc'[d] = pc[d] /\ reply'[d] = reply[d]
      /\ DOMAIN reply' = Calls /\ op(c) = "Getmeta"
  BY TakeEffect
<1>2. /\ \A k \in Keys \ {key(c)} : qq(k) = q(k)
      /\ 1 \in DOMAIN q(key(c)) /\ reply'[c] = h /\ q(key(c)) \in Seq(Calls)
      /\ \A n \in DOMAIN qq(key(c)) : n + 1 \in DOMAIN q(key(c)) /\ qq(key(c))[n] = q(key(c))[n + 1]
  BY TakeEffect
<1>3. \A d \in Calls : key(d) \in Keys /\ key(d)' = key(d) /\ op(d)' = op(d)
  BY <1>1 DEF Handling, key, op
<1>4. Puts' = Puts /\ Puts \subseteq Calls /\ \A a, b : Before(a, b)' = Before(a, b)
  BY <1>1 DEF QueueOrder, Puts, Before
<1>5. /\ \A k \in Keys : \A n \in DOMAIN q(k) : q(k)[n] \in Puts /\ key(q(k)[n]) = k
      /\ \A k \in Keys : \A m, n \in DOMAIN q(k) : m < n => Before(q(k)[m], q(k)[n])
      /\ \A a, d \in Calls : a \in Took(d) => d \in Puts /\ pc[a] = "done"
      /\ \A a, d \in Calls : \A n \in DOMAIN q(key(d)) : a \in Took(d) => Before(d, q(key(d))[n])
      /\ \A a, b, d \in Calls : a \in Took(d) /\ b \in Took(d) => a = b
      /\ \A d \in Calls : ~ Before(d, d)
  BY DEF QueueOrder, Queue
<1>6. qq(key(c)) \in Seq(Calls)
  BY <1>1, <1>3
<1> HIDE DEF q, qq
<1>7. h \in Puts /\ h \in Calls /\ key(h) = key(c)
  BY <1>2, <1>3, <1>4, <1>5
<1> HIDE DEF h
<1>8. \A a \in Calls : a \notin Took(h)
  BY <1>2, <1>5, <1>7 DEF h
<1>9. \A d \in Calls : Took(d)' \subseteq IF d = h THEN {c} ELSE Took(d)
  <2>1. SUFFICES ASSUME NEW d \in Calls, NEW a \in Took(d)' PROVE a \in IF d = h THEN {c} ELSE Took(d)
    OBVIOUS
  <2>2. a \in Calls /\ op(a) = "Getmeta" /\ reply'[a] = d
    BY <1>3 DEF Took
  <2>3. a # c => a \in Took(d)
    BY <1>1, <2>2 DEF Took
  <2> QED BY <1>2, <1>8, <2>2, <2>3
<1>10. ASSUME NEW k \in Keys, NEW n \in DOMAIN qq(k)
       PROVE  \E i \in DOMAIN q(k) : qq(k)[n] = q(k)[i] /\ (k = key(c) => i = n + 1) /\ (k # key(c) => i = n)
  BY <1>2
<1>11. ASSUME NEW k \in Keys, NEW n \in DOMAIN qq(k)
       PROVE  qq(k)[n] \in Puts /\ qq(k)[n] \in Calls /\ key(qq(k)[n]) = k
  BY <1>4, <1>5, <1>10
<1>12. ASSUME NEW k \in Keys, NEW m \in DOMAIN qq(k), NEW n \in DOMAIN qq(k), m < n
       PROVE  Before(qq(k)[m], qq(k)[n])
  <2>1. CASE k = key(c)
    <3>1. m \in Nat /\ n \in Nat
      BY <1>6, <2>1
    <3> QED BY <1>2, <1>5, <1>12, <2>1, <3>1
  <2>2. CASE k # key(c)
    BY <1>2, <1>5, <1>12, <2>2
  <2> QED BY <2>1, <2>2
<1>13. ASSUME NEW a \in Calls, NEW d \in Calls, a \in Took(d)', NEW n \in DOMAIN qq(key(d))
       PROVE  Before(d, qq(key(d))[n])
  <2>1. CASE d = h
    <3>1. n \in Nat /\ n # 0 /\ n \in DOMAIN qq(key(c))
      BY <1>6, <1>7, <1>13, <2>1
    <3>2. n + 1 \in DOMAIN q(key(c)) /\ qq(key(c))[n] = q(key(c))[n + 1] /\ 1 < n + 1
      BY <1>2, <3>1
    <3> QED BY <1>2, <1>3, <1>5, <1>7, <2>1, <3>2 DEF h
  <2>2. CASE d # h
    BY <1>3, <1>5, <1>9, <1>10, <1>13, <2>2
  <2> QED BY <2>1, <2>2
<1>14. \A d \in Puts' : pc'[d] = "done"
  BY <1>1, <1>4 DEF QueueOrder
<1>15. (\A k \in Keys : \A n \in DOMAIN Queue(k) : Queue(k)[n] \in Puts /\ key(Queue(k)[n]) = k)'
  BY <1>3, <1>4, <1>11 DEF Queue, qq
<1>16. (\A k \in Keys : \A m, n \in DOMAIN Queue(k) : m < n => Before(Queue(k)[m], Queue(k)[n]))'
  BY <1>4, <1>12 DEF Queue, qq
<1>17. (\A a, d \in Calls : \A n \in DOMAIN Queue(key(d)) : a \in Took(d) => Before(d, Queue(key(d))[n]))'
  BY <1>3, <1>4, <1>13 DEF Queue, qq
<1>18. (\A a, d \in Calls : a \in Took(d) => d \in Puts /\ pc[a] = "done")'
       /\ (\A a, b, d \in Calls : a \in Took(d) /\ b \in Took(d) => a = b)'
  BY <1>1, <1>4, <1>5, <1>7, <1>9
<1>19. acked' \in Seq(Calls) /\ \A d \in Calls : ~ Before(d, d)'
  BY <1>1, <1>4, <1>5 DEF QueueOrder
<1> QED BY <1>1, <1>14, <1>15, <1>16, <1>17, <1>18, <1>19 DEF QueueOrder

(* The other steps hand out no value and answer no Putmeta. *)
LEMMA QueueOther ==
    ASSUME Handling, QueueOrder, NEW c \in Calls,
           \/ CallFails(c) \/ Test(c) \/ Store(c) \/ Read(c) \/ StartTimer(c) \/ StopTimer(c) \/ Tick(c)
           \/ Take(c) /\ Queue(key(c)) = <<>>
    PROVE  /\ UNCHANGED <<request, metaMap, acked>> /\ DOMAIN reply' = Calls
           /\ \A d \in Calls : pc[d] = "done" => pc'[d] = "done"
           /\ \A d \in Calls : op(d) = "Getmeta" => reply'[d] = reply[d] \/ reply'[d] \notin Calls
           /\ \A d \in Calls : reply'[d] = reply[d] \/ reply'[d] \notin Calls \/ op(d) # "Getmeta"
           /\ \A d \in Calls : reply[d] # reply'[d] => InHandler(d) \/ pc[d] = "new"
<1>0. DOMAIN pc = Calls /\ DOMAIN reply = Calls
  BY DEF Handling, QueueOrder
<1>1. CASE CallFails(c)
  BY <1>0, <1>1, WorkloadAssumption DEF CallFails, maps
<1>2. CASE Test(c)
  <2>1. Seen(c) \in {"OK", "NULL"} => op(c) # "Putmeta"
    BY SeenCases
  <2>2. UNCHANGED <<request, metaMap>> /\ pc[c] = "new" /\ \A d \in Calls \ {c} : pc'[d] = pc[d]
    BY <1>2, Tested
  <2>3. \/ Seen(c) \in {"OK", "NULL"} /\ Answer(c, Seen(c))
        \/ UNCHANGED <<reply, acked>>
    BY <1>2, Tested
  <2>4. CASE Seen(c) \in {"OK", "NULL"} /\ Answer(c, Seen(c))
    <3>1. Seen(c) \notin Calls
      BY <2>4, WorkloadAssumption
    <3> QED BY <1>0, <2>1, <2>2, <2>4, <3>1 DEF Answer
  <2>5. CASE UNCHANGED <<reply, acked>>
    BY <1>0, <2>2, <2>5
  <2> QED BY <2>3, <2>4, <2>5
<1>3. CASE Store(c) \/ Read(c) \/ StartTimer(c) \/ StopTimer(c) \/ Tick(c)
  <2>1. pc[c] \in {"store", "read", "start", "stop", "tick"}
    BY <1>3 DEF Store, Read, StartTimer, StopTimer, Tick
  <2>2. op(c) \notin {"Putmeta", "Getmeta"} /\ InHandler(c)
    BY <2>1, StepOps
  <2>3. UNCHANGED <<request, metaMap>> /\ \E m : Answer(c, m)
    BY <1>3 DEF Store, Read, StartTimer, StopTimer, Tick, maps
  <2> QED BY <1>0, <2>1, <2>2, <2>3 DEF Answer
<1>4. CASE Take(c) /\ Queue(key(c)) = <<>>
  <2>1. op(c) = "Getmeta" /\ InHandler(c) /\ pc[c] = "take"
    BY <1>4, StepOps DEF Take
  <2>2. UNCHANGED <<request, metaMap>> /\ Answer(c, None)
    BY <1>4 DEF Take
  <2> QED BY <1>0, <2>1, <2>2, Distinct DEF Answer
<1> QED BY <1>1, <1>2, <1>3, <1>4

LEMMA QueueStep == Handling /\ QueueOrder /\ [Next]_vars => QueueOrder'
<1> SUFFICES ASSUME Handling, QueueOrder, [Next]_vars PROVE QueueOrder'
  OBVIOUS
<1>1. CASE writeSocket \/ RunServer \/ UNCHANGED vars
  <2>1. UNCHANGED <<request, acked, metaMap, pc, reply>>
    BY <1>1 DEF writeSocket, RunServer, vars, server, maps, results
  <2>2. DOMAIN reply = Calls /\ metaMap \in [Keys -> BOOLEAN \X Seq(Calls)]
    BY DEF QueueOrder
  <2> QED BY <2>1, <2>2, QueueFrame DEF Queue
<1>2. CASE Stop
  <2>1. /\ UNCHANGED <<request, acked>> /\ DOMAIN reply' = Calls
        /\ metaMap' = [k \in Keys |-> Absent]
        /\ \A c \in Calls : reply'[c] = reply[c] \/ reply'[c] = "RPC failed"
        /\ \A c \in Calls : pc[c] = "done" => pc'[c] = "done"
    BY <1>2 DEF Stop
  <2>2. Absent \in BOOLEAN \X Seq(Calls)
    <3>1. FALSE \in BOOLEAN /\ <<>> \in Seq(Calls)
      OBVIOUS
    <3> QED BY <3>1, Zenon DEF Absent
  <2>3. metaMap' \in [Keys -> BOOLEAN \X Seq(Calls)]
    BY <2>1, <2>2
  <2>4. \A k \in Keys : Queue(k)' = <<>>
    BY <2>1 DEF Queue, Absent
  <2>5. "RPC failed" \notin Calls
    BY WorkloadAssumption
  <2> QED BY <2>1, <2>3, <2>4, <2>5, QueueFrame
<1>3. ASSUME NEW c \in Calls, Insert(c) \/ Push(c) PROVE QueueOrder'
  BY <1>3, QueuePut
<1>4. ASSUME NEW c \in Calls, Take(c), Queue(key(c)) # <<>> PROVE QueueOrder'
  BY <1>4, QueueTake
<1>5. ASSUME NEW c \in Calls,
             \/ CallFails(c) \/ Test(c) \/ Store(c) \/ Read(c) \/ StartTimer(c) \/ StopTimer(c) \/ Tick(c)
             \/ Take(c) /\ Queue(key(c)) = <<>>
      PROVE  QueueOrder'
  <2>1. /\ UNCHANGED <<request, metaMap, acked>> /\ DOMAIN reply' = Calls
        /\ \A d \in Calls : pc[d] = "done" => pc'[d] = "done"
        /\ \A d \in Calls : reply'[d] = reply[d] \/ reply'[d] \notin Calls \/ op(d) # "Getmeta"
    BY <1>5, QueueOther
  <2>2. metaMap \in [Keys -> BOOLEAN \X Seq(Calls)]
    BY DEF QueueOrder
  <2> QED BY <2>1, <2>2, QueueFrame DEF Queue
<1> QED BY <1>1, <1>2, <1>3, <1>4, <1>5 DEF Next, Act, Wait

LEMMA QueueInit == Init => QueueOrder
<1> SUFFICES ASSUME Init PROVE QueueOrder
  OBVIOUS
<1>1. /\ acked = <<>> /\ metaMap = [k \in Keys |-> Absent]
      /\ DOMAIN reply = Calls /\ \A c \in Calls : reply[c] = None
  BY DEF Init
<1>2. Absent \in BOOLEAN \X Seq(Calls)
  <2>1. FALSE \in BOOLEAN /\ <<>> \in Seq(Calls)
    OBVIOUS
  <2> QED BY <2>1, Zenon DEF Absent
<1>3. metaMap \in [Keys -> BOOLEAN \X Seq(Calls)]
  BY <1>1, <1>2
<1>4. \A k \in Keys : DOMAIN Queue(k) = {}
  BY <1>1 DEF Queue, Absent
<1>5. \A c \in Calls : Took(c) = {}
  BY <1>1, Distinct DEF Took
<1>6. Puts = {} /\ (\A a, b : ~ Before(a, b)) /\ acked \in Seq(Calls)
  BY <1>1 DEF Puts, Before
<1>7. \A c \in Calls : key(c) \in Keys
  BY HandlingInit DEF Handling, key
<1> QED BY <1>1, <1>3, <1>4, <1>5, <1>6, <1>7 DEF QueueOrder

(* Getmeta of metaserver.cc hands the values of a key out in the order in  *)
(* which their Putmeta was answered, for all clients and runs.             *)
THEOREM HandedOutInOrder == Spec => []MetaInOrder
<1>1. Init => Handling /\ QueueOrder
  BY HandlingInit, QueueInit
<1>2. (Handling /\ QueueOrder) /\ [Next]_vars => (Handling /\ QueueOrder)'
  BY HandlingStep, QueueStep
<1>3. Handling /\ QueueOrder => MetaInOrder
  <2> SUFFICES ASSUME Handling, QueueOrder, NEW i \in DOMAIN acked, NEW j \in DOMAIN acked,
                      i < j, key(acked[i]) = key(acked[j]), Took(acked[j]) # {}
               PROVE  Waiting(acked[i]) = {}
    BY DEF MetaInOrder
  <2> DEFINE a == acked[i]
             b == acked[j]
  <2>1. a \in Calls /\ b \in Calls /\ acked \in Seq(Calls)
    BY DEF QueueOrder
  <2>2. PICK d \in Calls : d \in Took(b)
    BY DEF Took
  <2>3. SUFFICES ASSUME NEW n \in DOMAIN Queue(key(a)), Queue(key(a))[n] = a PROVE FALSE
    BY DEF Waiting
  <2>4. Before(b, a)
    BY <2>1, <2>2, <2>3 DEF QueueOrder
  <2>5. Before(a, a) \/ Before(b, b)
    <3>1. PICK m, n1 \in DOMAIN acked : m < n1 /\ acked[m] = b /\ acked[n1] = a
      BY <2>4 DEF Before
    <3>2. m \in Nat /\ n1 \in Nat /\ i \in Nat /\ j \in Nat
      BY <2>1
    <3>3. CASE i = n1
      BY <3>1, <3>2, <3>3 DEF Before
    <3>4. CASE i # n1
      BY <3>1, <3>2, <3>4 DEF Before
    <3> QED BY <3>3, <3>4
  <2> QED BY <2>1, <2>4, <2>5 DEF QueueOrder
<1> QED BY <1>1, <1>2, <1>3, PTL DEF Spec


-----------------------------------------------------------------------------
(* Steps that leave the queues alone and start no handler of a Putmeta,    *)
(* in a server that goes on or ends.                                       *)
LEMMA DeliverFrame ==
    ASSUME Handling, Delivered, UNCHANGED <<request, metaMap, acked, boot, raced>>,
           up' = up \/ up' = "down", ackedIn' \in [Calls -> Nat],
           \A c \in Calls : pc'[c] = pc[c] \/ pc'[c] \notin {"insert", "push"},
           \A c \in Calls : ackedIn'[c] = ackedIn[c] \/ (ackedIn'[c] = boot /\ up' = "listening"),
           \A c \in Puts : c \in Calls /\ ackedIn'[c] = ackedIn[c],
           \A c \in Calls : Took(c) \subseteq Took(c)'
    PROVE  Delivered'
<1>1. Puts' = Puts /\ \A c \in Calls : Current(c)' => Current(c)
  BY DEF Puts, Current
<1>2. \A c : key(c)' = key(c)
  BY DEF key
<1>3. \A k : Queue(k)' = Queue(k) /\ Present(k)' = Present(k)
  BY DEF Queue, Present
<1>4. boot \in Nat
  BY DEF Handling
<1>5. \A c \in Calls : ackedIn'[c] <= boot' /\ (up' = "announced" => ackedIn'[c] < boot')
  BY <1>4 DEF Delivered
<1> QED BY <1>1, <1>2, <1>3, <1>5 DEF Delivered

LEMMA DeliverPut ==
    ASSUME Handling, QueueOrder, Delivered, NEW c \in Calls, Insert(c) \/ Push(c)
    PROVE  Delivered'
<1> DEFINE q(k) == metaMap[k][2]
           qq(k) == metaMap'[k][2]
<1>1. /\ UNCHANGED <<request, boot, up, raced>>
      /\ acked' = Append(acked, c) /\ c \notin Puts
      /\ pc[c] \in {"insert", "push"} /\ pc'[c] = "done"
      /\ \A d \in Calls \ {c} : pc'[d] = pc[d] /\ reply'[d] = reply[d]
      /\ op(c) = "Putmeta"
  BY PutEffect
<1>2. /\ \A k \in Keys \ {key(c)} : qq(k) = q(k) /\ metaMap'[k][1] = metaMap[k][1]
      /\ metaMap'[key(c)][1]
      /\ Insert(c) => qq(key(c)) = <<c>>
      /\ Push(c) => qq(key(c)) = Append(q(key(c)), c)
  BY PutEffect
<1>3. \A d \in Calls : key(d) \in Keys /\ key(d)' = key(d) /\ op(d)' = op(d)
  BY <1>1 DEF Handling, key, op
<1>4. Puts' = Puts \cup {c}
  BY <1>1, LastAnswer DEF QueueOrder
<1>5. \A d \in Calls : Took(d)' = Took(d)
  BY <1>1, <1>3 DEF Took
<1>6. up = "listening" /\ boot \in Nat
  BY <1>1, StepOps DEF Handling
<1>7. /\ ackedIn' \in [Calls -> Nat] /\ ackedIn'[c] = boot
      /\ \A d \in Calls \ {c} : ackedIn'[d] = ackedIn[d]
  BY <1>6 DEF Insert, Push, Answer, Delivered
<1>8. \A d \in Calls \ {c} : Current(d)' = Current(d)
  BY <1>1, <1>4, <1>7 DEF Current
<1>9. q(key(c)) \in Seq(Calls)
  BY <1>3 DEF QueueOrder
<1>10. /\ \A d \in Calls : pc[d] = "push" => metaMap[key(d)][1]
       /\ \A d \in Calls : Current(d) =>
             /\ metaMap[key(d)][1]
             /\ d \in raced \/ Took(d) # {} \/ \E n \in DOMAIN q(key(d)) : q(key(d))[n] = d
  BY DEF Delivered, Queue, Present
<1> HIDE DEF q, qq
<1>11. \E n \in DOMAIN qq(key(c)) : qq(key(c))[n] = c
  <2>1. CASE Insert(c)
    BY <1>2, <2>1
  <2>2. CASE Push(c)
    <3>1. qq(key(c)) = Append(q(key(c)), c)
      BY <1>2, <2>2
    <3>2. /\ Len(q(key(c))) + 1 \in DOMAIN Append(q(key(c)), c)
          /\ Append(q(key(c)), c)[Len(q(key(c))) + 1] = c
      BY <1>9
    <3> QED BY <3>1, <3>2
  <2> QED BY <2>1, <2>2
<1>12. ASSUME NEW d \in Calls \ {c}, Current(d), d \notin raced, Took(d) = {}
       PROVE  \E n \in DOMAIN qq(key(d)) : qq(key(d))[n] = d
  <2>1. PICK n \in DOMAIN q(key(d)) : q(key(d))[n] = d
    BY <1>10, <1>12
  <2>2. CASE key(d) # key(c)
    BY <1>2, <1>3, <2>1, <2>2
  <2>3. CASE key(d) = key(c) /\ Push(c)
    <3>1. qq(key(d)) = Append(q(key(d)), c) /\ q(key(d)) \in Seq(Calls)
      BY <1>2, <1>9, <2>3
    <3>2. n \in DOMAIN Append(q(key(d)), c) /\ Append(q(key(d)), c)[n] = q(key(d))[n]
      BY <2>1, <3>1
    <3> QED BY <2>1, <3>1, <3>2
  <2>4. CASE key(d) = key(c) /\ Insert(c)
    <3>1. pc[c] = "insert"
      BY <2>4 DEF Insert
    <3> QED BY <1>12, <2>4, <3>1 DEF Delivered
  <2> QED BY <2>2, <2>3, <2>4
<1>13. \A d \in Calls : Current(d)' =>
             /\ metaMap'[key(d)][1]
             /\ d \in raced \/ Took(d) # {} \/ \E n \in DOMAIN qq(key(d)) : qq(key(d))[n] = d
  BY <1>2, <1>3, <1>8, <1>10, <1>11, <1>12
<1>14. \A d \in Calls : pc'[d] = "push" => metaMap'[key(d)][1]
  BY <1>1, <1>2, <1>3, <1>10
<1>15. \A a, d \in Calls :
         (a # d /\ key(a) = key(d) /\ pc'[a] \in {"insert", "push"} /\ pc'[d] = "insert") => a \in raced
  BY <1>1 DEF Delivered
<1>16. ASSUME NEW a \in Calls, NEW d \in Calls, key(a) = key(d), pc'[d] = "insert", Current(a)'
       PROVE  a \in raced
  <2>1. d # c /\ pc[d] = "insert"
    BY <1>1, <1>16
  <2>2. CASE a = c
    BY <1>1, <1>16, <2>1, <2>2 DEF Delivered
  <2>3. CASE a # c
    BY <1>8, <1>16, <2>1, <2>3 DEF Delivered
  <2> QED BY <2>2, <2>3
<1>17. \A d \in Calls : ackedIn'[d] <= boot' /\ (up' = "announced" => ackedIn'[d] < boot')
  BY <1>1, <1>6, <1>7 DEF Delivered
<1>18. (\A d \in Calls : Current(d) =>
          /\ Present(key(d))
          /\ d \in raced \/ Took(d) # {} \/ \E n \in DOMAIN Queue(key(d)) : Queue(key(d))[n] = d)'
  BY <1>1, <1>3, <1>5, <1>13 DEF Queue, Present, qq
<1>19. (\A d \in Calls : pc[d] = "push" => Present(key(d)))'
  BY <1>3, <1>14 DEF Present
<1>20. (\A a, d \in Calls :
          (a # d /\ key(a) = key(d) /\ pc[a] \in {"insert", "push"} /\ pc[d] = "insert") => a \in raced)'
       /\ (\A a, d \in Calls : (key(a) = key(d) /\ pc[d] = "insert" /\ Current(a)) => a \in raced)'
  BY <1>1, <1>3, <1>15, <1>16
<1> QED BY <1>7, <1>17, <1>18, <1>19, <1>20 DEF Delivered

LEMMA DeliverTake ==
    ASSUME Handling, QueueOrder, Delivered, NEW c \in Calls, Take(c), Queue(key(c)) # <<>>
    PROVE  Delivered'
<1> DEFINE q(k) == metaMap[k][2]
           qq(k) == metaMap'[k][2]
<1>1. /\ UNCHANGED <<request, boot, up, raced, acked>>
      /\ pc[c] = "take" /\ pc'[c] = "done"
      /\ \A d \in Calls \ {c} : pc'[d] = pc[d] /\ reply'[d] = reply[d]
      /\ op(c) = "Getmeta"
  BY TakeEffect
<1>2. /\ \A k \in Keys \ {key(c)} : qq(k) = q(k) /\ metaMap'[k][1] = metaMap[k][1]
      /\ metaMap'[key(c)][1]
      /\ 1 \in DOMAIN q(key(c)) /\ reply'[c] = q(key(c))[1]
      /\ \A n \in DOMAIN q(key(c)) : n # 1 => n - 1 \in DOMAIN qq(key(c)) /\ qq(key(c))[n - 1] = q(key(c))[n]
  BY TakeEffect
<1>3. \A d \in Calls : key(d) \in Keys /\ key(d)' = key(d) /\ op(d)' = op(d)
  BY <1>1 DEF Handling, key, op
<1>4. Puts' = Puts
  BY <1>1 DEF Puts
<1>5. c \notin Puts /\ \A d \in Calls : c \notin Took(d)
  BY <1>1 DEF QueueOrder
<1>6. \A d \in Calls : Took(d) \subseteq Took(d)'
  BY <1>1, <1>3, <1>5 DEF Took
<1>7. up = "listening" /\ boot \in Nat
  BY <1>1, StepOps DEF Handling
<1>8. /\ ackedIn' \in [Calls -> Nat] /\ ackedIn'[c] = boot
      /\ \A d \in Calls \ {c} : ackedIn'[d] = ackedIn[d]
  BY <1>7 DEF Take, Answer, Delivered
<1>9. \A d \in Calls : Current(d)' => Current(d)
  BY <1>1, <1>4, <1>5, <1>8 DEF Current
<1>10. /\ \A d \in Calls : pc[d] = "push" => metaMap[key(d)][1]
       /\ \A d \in Calls : Current(d) =>
             /\ metaMap[key(d)][1]
             /\ d \in raced \/ Took(d) # {} \/ \E n \in DOMAIN q(key(d)) : q(key(d))[n] = d
  BY DEF Delivered, Queue, Present
<1> HIDE DEF q, qq
<1>11. ASSUME NEW d \in Calls, Current(d), d \notin raced
       PROVE  Took(d)' # {} \/ \E n \in DOMAIN qq(key(d)) : qq(key(d))[n] = d
  <2>1. CASE Took(d) # {}
    BY <1>6, <2>1
  <2>2. CASE \E n \in DOMAIN q(key(d)) : q(key(d))[n] = d
    <3>1. PICK n \in DOMAIN q(key(d)) : q(key(d))[n] = d
      BY <2>2
    <3>2. CASE key(d) # key(c)
      BY <1>2, <1>3, <3>1, <3>2
    <3>3. CASE key(d) = key(c) /\ n = 1
      <4>1. c \in Took(d)'
        BY <1>1, <1>2, <1>3, <3>1, <3>3 DEF Took
      <4> QED BY <4>1
    <3>4. CASE key(d) = key(c) /\ n # 1
      BY <1>2, <3>1, <3>4
    <3> QED BY <3>2, <3>3, <3>4
  <2> QED BY <1>10, <1>11, <2>1, <2>2
<1>12. (\A d \in Calls : Current(d) =>
          /\ Present(key(d))
          /\ d \in raced \/ Took(d) # {} \/ \E n \in DOMAIN Queue(key(d)) : Queue(key(d))[n] = d)'
  <2>1. \A d \in Calls : Current(d) => metaMap'[key(d)][1]
    BY <1>2, <1>3, <1>10
  <2> QED BY <1>1, <1>3, <1>9, <1>11, <2>1 DEF Queue, Present, qq
<1>13. (\A d \in Calls : pc[d] = "push" => Present(key(d)))'
  BY <1>1, <1>2, <1>3, <1>10 DEF Present
<1>14. (\A a, d \in Calls :
          (a # d /\ key(a) = key(d) /\ pc[a] \in {"insert", "push"} /\ pc[d] = "insert") => a \in raced)'
       /\ (\A a, d \in Calls : (key(a) = key(d) /\ pc[d] = "insert" /\ Current(a)) => a \in raced)'
  BY <1>1, <1>3, <1>9 DEF Delivered
<1>15. \A d \in Calls : ackedIn'[d] <= boot' /\ (up' = "announced" => ackedIn'[d] < boot')
  BY <1>1, <1>7, <1>8 DEF Delivered
<1> QED BY <1>8, <1>12, <1>13, <1>14, <1>15 DEF Delivered

LEMMA DeliverTest ==
    ASSUME Handling, QueueOrder, Delivered, NEW c \in Calls, Test(c)
    PROVE  Delivered'
<1>1. /\ pc[c] = "new" /\ up = "listening"
      /\ UNCHANGED <<request, boot, up, metaMap>>
      /\ \A d \in Calls \ {c} : pc'[d] = pc[d]
  BY Tested
<1>2. boot \in Nat /\ c \notin Puts /\ Puts \subseteq Calls
  <2>1. boot \in Nat /\ c \notin Puts
    BY <1>1 DEF Handling, QueueOrder
  <2> QED BY <2>1 DEF QueueOrder, Puts
<1>3. UNCHANGED acked /\ DOMAIN reply' = Calls /\ \A d \in Calls : Took(d) \subseteq Took(d)'
  <2>1. UNCHANGED acked /\ DOMAIN reply' = Calls
    BY QueueOther
  <2>2. \A d \in Calls \ {c} : reply'[d] = reply[d]
    BY Tested DEF Answer, QueueOrder
  <2>3. \A d \in Calls : c \notin Took(d) /\ op(d)' = op(d)
    BY <1>1 DEF QueueOrder, op
  <2> QED BY <2>1, <2>2, <2>3 DEF Took
<1>4. CASE Seen(c) \in {"OK", "NULL"}
  <2>1. pc'[c] = "done" /\ UNCHANGED raced /\ Answer(c, Seen(c))
    BY <1>4, Tested
  <2>2. /\ ackedIn' \in [Calls -> Nat] /\ ackedIn'[c] = boot
        /\ \A d \in Calls \ {c} : ackedIn'[d] = ackedIn[d]
    BY <1>2, <2>1 DEF Answer, Delivered
  <2> QED BY <1>1, <1>2, <1>3, <2>1, <2>2, DeliverFrame
<1>5. CASE Seen(c) \notin {"OK", "NULL"}
  <2>1. /\ pc'[c] = Seen(c) /\ raced \subseteq raced' /\ UNCHANGED ackedIn
        /\ \A d \in Calls : key(d) = key(c) /\ pc[d] \in Rivals(Seen(c)) => c \in raced' /\ d \in raced'
    BY <1>5, Tested
  <2>2. \A d \in Calls : key(d)' = key(d) /\ Current(d)' = Current(d)
    BY <1>1, <1>3, <2>1 DEF key, Current, Puts
  <2>3. \A k : Queue(k)' = Queue(k) /\ Present(k)' = Present(k)
    BY <1>1 DEF Queue, Present
  <2>4. /\ Seen(c) = "push" => Present(key(c))
        /\ Seen(c) = "insert" => ~ Present(key(c))
    <3>1. op(c) \in Operations
      BY DEF Handling, op
    <3> QED BY <3>1 DEF Seen, StoreSeen, TickSeen, Operations
  <2>5. \A d \in Calls : pc'[d] = "push" => Present(key(d))
    BY <1>1, <2>1, <2>4 DEF Delivered
  <2>6. ASSUME NEW a \in Calls, NEW d \in Calls, a # d, key(a) = key(d),
               pc'[a] \in {"insert", "push"}, pc'[d] = "insert"
        PROVE  a \in raced'
    <3>1. CASE a = c
      BY <1>1, <2>1, <2>6, <3>1 DEF Rivals
    <3>2. CASE d = c /\ pc[a] = "insert"
      BY <2>1, <2>6, <3>2 DEF Rivals
    <3>3. CASE d = c /\ pc[a] = "push"
      BY <2>1, <2>4, <2>6, <3>3 DEF Delivered
    <3>4. CASE a # c /\ d # c
      BY <1>1, <2>1, <2>6, <3>4 DEF Delivered
    <3> QED BY <1>1, <2>6, <3>1, <3>2, <3>3, <3>4
  <2>7. ASSUME NEW a \in Calls, NEW d \in Calls, key(a) = key(d), pc'[d] = "insert", Current(a)
        PROVE  a \in raced'
    <3>1. CASE d = c
      BY <2>1, <2>4, <2>7, <3>1 DEF Delivered
    <3>2. CASE d # c
      BY <1>1, <2>1, <2>7, <3>2 DEF Delivered
    <3> QED BY <3>1, <3>2
  <2>8. \A d \in Calls : Current(d) =>
          /\ Present(key(d))
          /\ d \in raced' \/ Took(d)' # {} \/ \E n \in DOMAIN Queue(key(d)) : Queue(key(d))[n] = d
    BY <1>3, <2>1 DEF Delivered
  <2>9. (\A d \in Calls : Current(d) =>
          /\ Present(key(d))
          /\ d \in raced \/ Took(d) # {} \/ \E n \in DOMAIN Queue(key(d)) : Queue(key(d))[n] = d)'
    BY <2>2, <2>3, <2>8
  <2>10. (\A a, d \in Calls :
          (a # d /\ key(a) = key(d) /\ pc[a] \in {"insert", "push"} /\ pc[d] = "insert") => a \in raced)'
       /\ (\A a, d \in Calls : (key(a) = key(d) /\ pc[d] = "insert" /\ Current(a)) => a \in raced)'
    BY <2>2, <2>6, <2>7
  <2>11. (\A d \in Calls : pc[d] = "push" => Present(key(d)))'
    BY <2>2, <2>3, <2>5
  <2> QED BY <1>1, <2>1, <2>9, <2>10, <2>11 DEF Delivered
<1> QED BY <1>4, <1>5

LEMMA DeliverStep == Handling /\ QueueOrder /\ Delivered /\ [Next]_vars => Delivered'
<1> SUFFICES ASSUME Handling, QueueOrder, Delivered, [Next]_vars PROVE Delivered'
  OBVIOUS
<1>0. Puts \subseteq Calls /\ boot \in Nat /\ ackedIn \in [Calls -> Nat]
  BY DEF QueueOrder, Puts, Handling, Delivered
<1>1. CASE UNCHANGED vars
  <2>1. UNCHANGED <<request, metaMap, acked, boot, raced, up, ackedIn, pc, reply>>
    BY <1>1 DEF vars, server, maps, results
  <2>2. \A c \in Calls : Took(c) \subseteq Took(c)'
    BY <2>1 DEF Took, op
  <2> QED BY <1>0, <2>1, <2>2, DeliverFrame
<1>2. CASE writeSocket \/ RunServer
  <2>1. /\ UNCHANGED <<request, metaMap, acked, raced, ackedIn, pc, reply>>
        /\ \/ up' = "announced" /\ boot' = boot + 1 /\ up = "down"
           \/ up' = "listening" /\ boot' = boot /\ up = "announced"
    BY <1>2 DEF writeSocket, RunServer, maps, results
  <2>2. \A c \in Calls : ~ Current(c)'
    BY <1>0, <2>1 DEF Current, Delivered
  <2>3. \A c \in Calls : ackedIn'[c] <= boot' /\ (up' = "announced" => ackedIn'[c] < boot')
    BY <1>0, <2>1 DEF Delivered
  <2>4. \A c \in Calls : key(c)' = key(c) /\ pc'[c] \notin {"insert", "push"}
    <3>1. \A c \in Calls : ~ InHandler(c)
      BY <2>1 DEF Handling
    <3> QED BY <2>1, <3>1 DEF InHandler, key
  <2> QED BY <1>0, <2>1, <2>2, <2>3, <2>4 DEF Delivered
<1>3. CASE Stop
  <2>1. /\ UNCHANGED <<request, acked, boot, raced, ackedIn>> /\ up' = "down"
        /\ \A c \in Calls : pc'[c] \in {"new", "done"}
    BY <1>3 DEF Stop, InHandler
  <2>2. \A c \in Calls : ~ Current(c)'
    BY <2>1 DEF Current
  <2> QED BY <2>1, <2>2 DEF Delivered
<1>4. ASSUME NEW c \in Calls, Insert(c) \/ Push(c) PROVE Delivered'
  BY <1>4, DeliverPut
<1>5. ASSUME NEW c \in Calls, Take(c), Queue(key(c)) # <<>> PROVE Delivered'
  BY <1>5, DeliverTake
<1>6. ASSUME NEW c \in Calls, Test(c) PROVE Delivered'
  BY <1>6, DeliverTest
<1>7. ASSUME NEW c \in Calls,
             \/ CallFails(c) \/ Store(c) \/ Read(c) \/ StartTimer(c) \/ StopTimer(c) \/ Tick(c)
             \/ Take(c) /\ Queue(key(c)) = <<>>
      PROVE  Delivered'
  <2>1. /\ UNCHANGED <<request, metaMap, acked>> /\ DOMAIN reply' = Calls
        /\ \A d \in Calls : reply[d] # reply'[d] => InHandler(d) \/ pc[d] = "new"
    BY <1>7, QueueOther
  <2>2. UNCHANGED <<boot, up, raced>>
    BY <1>7 DEF CallFails, Store, Read, StartTimer, StopTimer, Tick, Take, server
  <2>3. \A d \in Calls : Took(d) \subseteq Took(d)'
    <3>1. \A a, d \in Calls : a \in Took(d) => reply'[a] = reply[a]
      BY <2>1 DEF QueueOrder, InHandler
    <3> QED BY <2>1, <3>1 DEF Took, op
  <2>4. pc[c] # "done" /\ c \notin Puts
    BY <1>7 DEF CallFails, Store, Read, StartTimer, StopTimer, Tick, Take, QueueOrder
  <2>5. CASE CallFails(c)
    <3>1. UNCHANGED ackedIn /\ \A d \in Calls : pc'[d] = pc[d] \/ pc'[d] \notin {"insert", "push"}
      BY <2>5 DEF CallFails, Handling
    <3> QED BY <1>0, <2>1, <2>2, <2>3, <3>1, DeliverFrame
  <2>6. CASE ~ CallFails(c)
    <3>1. Act(c)
      BY <1>7, <2>6 DEF Act
    <3>2. up = "listening" /\ \E m : Answer(c, m)
      BY <3>1, ActFrame DEF Handling
    <3>3. /\ ackedIn' \in [Calls -> Nat] /\ ackedIn'[c] = boot
          /\ \A d \in Calls \ {c} : ackedIn'[d] = ackedIn[d]
          /\ \A d \in Calls : pc'[d] = pc[d] \/ pc'[d] \notin {"insert", "push"}
      BY <1>0, <3>2 DEF Answer, Handling
    <3>4. \A d \in Puts : d \in Calls /\ ackedIn'[d] = ackedIn[d]
      BY <1>0, <2>4, <3>3
    <3>5. \A d \in Calls : ackedIn'[d] = ackedIn[d] \/ (ackedIn'[d] = boot /\ up' = "listening")
      BY <2>2, <3>2, <3>3
    <3> QED BY <2>1, <2>2, <2>3, <3>3, <3>4, <3>5, DeliverFrame
  <2> QED BY <2>5, <2>6
<1> QED BY <1>1, <1>2, <1>3, <1>4, <1>5, <1>6, <1>7 DEF Next, Act, Wait

(* A value is in the queue once or was handed out once, not both. *)
LEMMA AtMostOnce ==
    ASSUME Handling, QueueOrder, NEW c \in Puts
    PROVE  /\ Took(c) = {} \/ \E d : Took(c) = {d}
           /\ Waiting(c) = {} \/ \E n : Waiting(c) = {n}
           /\ Took(c) = {} \/ Waiting(c) = {}
<1>0. c \in Calls
  BY DEF QueueOrder, Puts
<1>1. c \in Calls /\ key(c) \in Keys /\ Took(c) \subseteq Calls
  <2>1. key(c) \in Keys
    BY <1>0 DEF Handling, key
  <2> QED BY <1>0, <2>1 DEF Took
<1>2. Took(c) = {} \/ \E d : Took(c) = {d}
  <2>1. \A a, b \in Took(c) : a = b
    BY <1>1 DEF QueueOrder
  <2> QED BY <2>1
<1>3. Took(c) = {} \/ Waiting(c) = {}
  BY <1>1 DEF QueueOrder, Waiting
<1>4. ASSUME NEW m \in Waiting(c), NEW n \in Waiting(c) PROVE m = n
  <2>1. Queue(key(c)) \in Seq(Calls)
    BY <1>1 DEF QueueOrder, Queue
  <2>2. m \in DOMAIN Queue(key(c)) /\ n \in DOMAIN Queue(key(c)) /\ m \in Nat /\ n \in Nat
        /\ Queue(key(c))[m] = c /\ Queue(key(c))[n] = c
    BY <1>4, <2>1 DEF Waiting
  <2>3. ~ (m < n) /\ ~ (n < m)
    BY <1>1, <2>2 DEF QueueOrder
  <2> QED BY <2>2, <2>3
<1> QED BY <1>2, <1>3, <1>4

(* Putmeta and Getmeta of metaserver.cc, for all clients and runs: no      *)
(* value is handed out twice or is in its queue after it was, and a value  *)
(* that the running server acknowledged is there or was handed out, unless *)
(* its call raced with one that inserts the queue.                         *)
THEOREM HandedOutOnce == Spec => []MetaDelivered
<1>1. Init => Handling /\ QueueOrder /\ Delivered
  <2>1. Init => Delivered
    <3> SUFFICES ASSUME Init PROVE Delivered
      OBVIOUS
    <3>1. \A c : ~ Current(c)
      BY DEF Init, Current
    <3>2. /\ ackedIn \in [Calls -> Nat] /\ boot = 0 /\ up = "down"
          /\ \A c \in Calls : ackedIn[c] = 0 /\ pc[c] = "new"
      BY DEF Init
    <3> QED BY <3>1, <3>2 DEF Delivered
  <2> QED BY <2>1, HandlingInit, QueueInit
<1>2. (Handling /\ QueueOrder /\ Delivered) /\ [Next]_vars => (Handling /\ QueueOrder /\ Delivered)'
  BY HandlingStep, QueueStep, DeliverStep
<1>3. Handling /\ QueueOrder /\ Delivered => MetaDelivered
  <2> SUFFICES ASSUME Handling, QueueOrder, Delivered, NEW c \in Puts
               PROVE  /\ Cardinality(Took(c)) + Cardinality(Waiting(c)) <= 1
                      /\ (ackedIn[c] = boot /\ up = "listening" /\ c \notin raced)
                           => Cardinality(Took(c)) + Cardinality(Waiting(c)) = 1
    BY DEF MetaDelivered
  <2>1. /\ Cardinality(Took(c)) = IF Took(c) = {} THEN 0 ELSE 1
        /\ Cardinality(Waiting(c)) = IF Waiting(c) = {} THEN 0 ELSE 1
    BY AtMostOnce, FS_EmptySet, FS_Singleton
  <2>2. Took(c) = {} \/ Waiting(c) = {}
    BY AtMostOnce
  <2>3. (ackedIn[c] = boot /\ up = "listening" /\ c \notin raced) => Took(c) # {} \/ Waiting(c) # {}
    <3>1. c \in Calls
      BY DEF QueueOrder, Puts
    <3> QED BY <3>1 DEF Delivered, Current, Waiting
  <2> QED BY <2>1, <2>2, <2>3
<1> QED BY <1>1, <1>2, <1>3, PTL DEF Spec
=============================================================================
