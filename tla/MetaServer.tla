----------------------------- MODULE MetaServer -----------------------------
(***************************************************************************)
(* The metadata server (metaserver.cc) and the calls of its clients        *)
(* (metaclient.cc): queues of metadata, values that are stored once, and   *)
(* timers.  Each handler looks a key up without the mutex, takes the mutex *)
(* and acts on what it saw; handlers of concurrent calls interleave        *)
(* between the two.  The server may be stopped and started again: it comes *)
(* back with empty maps and a new address, and the old address file stays. *)
(*                                                                         *)
(* A call stands for the value it puts and for the time it takes.          *)
(***************************************************************************)
EXTENDS Naturals, Sequences, FiniteSets

CONSTANTS
    Calls, Keys,
    Workloads,  \* what the clients call: sets of functions call -> [op, key]
    MaxBoots,   \* times the server is started
    None, Zero  \* Zero is the timespec that operator[] inserts

Operations == {"Recordtime", "Recordtimestart", "Recordtimetick",
               "Putmeta", "Getmeta", "Putmetaspace", "Getmetaspace"}

ASSUME WorkloadAssumption ==
    /\ Workloads \subseteq [Calls -> [op : Operations, key : Keys]]
    /\ MaxBoots \in Nat \ {0}
    /\ None \notin Calls /\ Zero \notin Calls /\ None # Zero
    /\ Calls \cap {"OK", "NULL", "RPC failed"} = {}  \* a value is not one of the server's own messages

VARIABLES
    request,    \* call -> [op, key], chosen once
    boot, up,   \* how often the server was started; what it is doing
    addrFiles,  \* the runs whose address file is in Metaserver/
    metaMap,    \* key -> <<TRUE, queue>>, or <<FALSE>> when it is not there
    metaSpace,  \* key -> value, or None
    timerMap,   \* key -> start, or None
    pc,         \* call -> what its handler is about to do
    reply,      \* call -> the message it was answered with
    measured,   \* call -> the start it computed a duration from
    ackedIn,    \* history: call -> run of the server that answered it, or 0
    acked,      \* history: Putmeta calls answered OK, in their order
    raced,      \* history: calls that were in their window with a rival
    undefined   \* history: front() was called on an empty queue

maps == <<metaMap, metaSpace, timerMap>>
server == <<boot, up, addrFiles>>
results == <<reply, measured, ackedIn, acked>>
vars == <<request, server, maps, pc, results, raced, undefined>>

op(c) == request[c].op
key(c) == request[c].key

Absent == <<FALSE, <<>>>>
Present(k) == metaMap[k][1]
Queue(k) == metaMap[k][2]

Init ==
    /\ request \in Workloads
    /\ boot = 0 /\ up = "down" /\ addrFiles = {}
    /\ metaMap = [k \in Keys |-> Absent]
    /\ metaSpace = [k \in Keys |-> None]
    /\ timerMap = [k \in Keys |-> None]
    /\ pc = [c \in Calls |-> "new"]
    /\ reply = [c \in Calls |-> None]
    /\ measured = [c \in Calls |-> None]
    /\ ackedIn = [c \in Calls |-> 0]
    /\ acked = <<>>
    /\ raced = {}
    /\ undefined = FALSE

-----------------------------------------------------------------------------
(* writeSocket: the address is announced before the service listens, and   *)
(* addresses of earlier runs are not removed.                              *)
writeSocket ==
    /\ up = "down" /\ boot < MaxBoots
    /\ boot' = boot + 1 /\ up' = "announced"
    /\ addrFiles' = addrFiles \cup {boot + 1}
    /\ UNCHANGED <<request, maps, pc, results, raced, undefined>>

RunServer ==
    /\ up = "announced"
    /\ up' = "listening"
    /\ UNCHANGED <<request, boot, addrFiles, maps, pc, results, raced, undefined>>

InHandler(c) == pc[c] \notin {"new", "done"}

(* The process is stopped: its maps are gone, calls in it fail. *)
Stop ==
    /\ up = "listening" /\ boot < MaxBoots
    /\ up' = "down"
    /\ metaMap' = [k \in Keys |-> Absent]
    /\ metaSpace' = [k \in Keys |-> None]
    /\ timerMap' = [k \in Keys |-> None]
    /\ pc' = [c \in Calls |-> IF InHandler(c) THEN "done" ELSE pc[c]]
    /\ reply' = [c \in Calls |-> IF InHandler(c) THEN "RPC failed" ELSE reply[c]]
    /\ UNCHANGED <<request, boot, addrFiles, measured, ackedIn, acked, raced, undefined>>

-----------------------------------------------------------------------------
Answer(c, message) ==
    /\ pc' = [pc EXCEPT ![c] = "done"]
    /\ reply' = [reply EXCEPT ![c] = message]
    /\ ackedIn' = [ackedIn EXCEPT ![c] = boot]
    /\ acked' = IF op(c) = "Putmeta" THEN Append(acked, c) ELSE acked

(* getAddr: some address of the directory.  There may be none, and it may  *)
(* be one nobody listens at.                                               *)
CallFails(c) ==
    /\ pc[c] = "new"
    /\ \/ addrFiles = {}
       \/ \E a \in addrFiles : a # boot \/ up # "listening"
    /\ pc' = [pc EXCEPT ![c] = "done"]
    /\ reply' = [reply EXCEPT ![c] = "RPC failed"]
    /\ UNCHANGED <<request, server, maps, measured, ackedIn, acked, raced, undefined>>

(* Calls in their windows that can undo each other's test. *)
Rivals(step) ==
    CASE step = "insert" -> {"insert"}
      [] step = "push"   -> {"insert"}
      [] step = "take"   -> {"take"}
      [] step = "start"  -> {"start"}
      [] step = "stop"   -> {"stop", "tick", "start"}
      [] step = "tick"   -> {"stop"}
      [] step = "store"  -> {"store"}
      [] OTHER           -> {}

MutTickAnyway(k) == "tick"

(* Recordtimetick: only a timer that runs. *)
TickSeen(k) == IF timerMap[k] = None THEN "OK" ELSE "tick"

MutStoreAnyway(k) == "store"

(* Putmetaspace: only a key that is not there. *)
StoreSeen(k) == IF metaSpace[k] = None THEN "store" ELSE "OK"

(* What a handler decides on from its look at the map, which it takes      *)
(* without the mutex: an answer, or what it does under the mutex.          *)
Seen(c) ==
    LET k == key(c)
    IN CASE op(c) = "Recordtime"      -> IF timerMap[k] = None THEN "start" ELSE "stop"
         [] op(c) = "Recordtimestart" -> IF timerMap[k] = None THEN "start" ELSE "OK"
         [] op(c) = "Recordtimetick"  -> TickSeen(k)
         [] op(c) = "Putmeta"         -> IF Present(k) THEN "push" ELSE "insert"
         [] op(c) = "Getmeta"         -> IF Present(k) /\ Queue(k) # <<>> THEN "take" ELSE "NULL"
         [] op(c) = "Putmetaspace"    -> StoreSeen(k)
         [] op(c) = "Getmetaspace"    -> IF metaSpace[k] = None THEN "NULL" ELSE "read"

(* The call arrives and its handler looks the key up. *)
Test(c) ==
    /\ pc[c] = "new" /\ up = "listening"
    /\ LET step == Seen(c)
           rivals == {d \in Calls : key(d) = key(c) /\ pc[d] \in Rivals(step)}
       IN IF step \in {"OK", "NULL"}
          THEN Answer(c, step) /\ UNCHANGED raced
          ELSE /\ pc' = [pc EXCEPT ![c] = step]
               /\ raced' = IF rivals = {} THEN raced ELSE raced \cup rivals \cup {c}
               /\ UNCHANGED <<reply, ackedIn, acked>>
    /\ UNCHANGED <<request, server, maps, measured, undefined>>

-----------------------------------------------------------------------------
(* The critical sections *)

(* Putmeta: a queue of its own for a key that was not there. *)
Insert(c) ==
    /\ pc[c] = "insert"
    /\ metaMap' = [metaMap EXCEPT ![key(c)] = <<TRUE, <<c>>>>]
    /\ Answer(c, "OK")
    /\ UNCHANGED <<request, server, metaSpace, timerMap, measured, raced, undefined>>

MutPushFront(c) ==
    /\ pc[c] = "push"
    /\ metaMap' = [metaMap EXCEPT ![key(c)] = <<TRUE, <<c>> \o @[2]>>]
    /\ Answer(c, "OK")
    /\ UNCHANGED <<request, server, metaSpace, timerMap, measured, raced, undefined>>

Push(c) ==
    /\ pc[c] = "push"
    /\ metaMap' = [metaMap EXCEPT ![key(c)] = <<TRUE, Append(@[2], c)>>]
    /\ Answer(c, "OK")
    /\ UNCHANGED <<request, server, metaSpace, timerMap, measured, raced, undefined>>

MutNoPop(c) ==
    /\ pc[c] = "take"
    /\ Queue(key(c)) # <<>>
    /\ Answer(c, Head(Queue(key(c))))
    /\ UNCHANGED <<request, server, maps, measured, raced, undefined>>

(* Getmeta: front and pop, whatever the queue holds by now. *)
Take(c) ==
    /\ pc[c] = "take"
    /\ IF Queue(key(c)) # <<>>
       THEN /\ metaMap' = [metaMap EXCEPT ![key(c)] = <<TRUE, Tail(@[2])>>]
            /\ Answer(c, Head(Queue(key(c))))
            /\ UNCHANGED undefined
       ELSE /\ undefined' = TRUE
            /\ Answer(c, None)
            /\ UNCHANGED metaMap
    /\ UNCHANGED <<request, server, metaSpace, timerMap, measured, raced>>

(* Putmetaspace *)
Store(c) ==
    /\ pc[c] = "store"
    /\ metaSpace' = [metaSpace EXCEPT ![key(c)] = c]
    /\ Answer(c, "OK")
    /\ UNCHANGED <<request, server, metaMap, timerMap, measured, raced, undefined>>

(* Getmetaspace *)
Read(c) ==
    /\ pc[c] = "read"
    /\ Answer(c, metaSpace[key(c)])
    /\ UNCHANGED <<request, server, maps, measured, raced, undefined>>

(* Recordtime and Recordtimestart *)
StartTimer(c) ==
    /\ pc[c] = "start"
    /\ timerMap' = [timerMap EXCEPT ![key(c)] = c]
    /\ Answer(c, "OK")
    /\ UNCHANGED <<request, server, metaMap, metaSpace, measured, raced, undefined>>

(* timerMap[key] on the right-hand side: a key that is gone is inserted    *)
(* with the time zero.                                                     *)
Started(k) == IF timerMap[k] = None THEN Zero ELSE timerMap[k]

StopTimer(c) ==
    /\ pc[c] = "stop"
    /\ measured' = [measured EXCEPT ![c] = Started(key(c))]
    /\ timerMap' = [timerMap EXCEPT ![key(c)] = None]
    /\ Answer(c, "OK")
    /\ UNCHANGED <<request, server, metaMap, metaSpace, raced, undefined>>

(* Recordtimetick leaves an inserted key there. *)
Tick(c) ==
    /\ pc[c] = "tick"
    /\ measured' = [measured EXCEPT ![c] = Started(key(c))]
    /\ timerMap' = [timerMap EXCEPT ![key(c)] = Started(key(c))]
    /\ Answer(c, "OK")
    /\ UNCHANGED <<request, server, metaMap, metaSpace, raced, undefined>>

Act(c) ==
    Insert(c) \/ Push(c) \/ Take(c) \/ Store(c) \/ Read(c) \/ StartTimer(c) \/ StopTimer(c) \/ Tick(c)

(* The server waits for calls. *)
Wait ==
    /\ up = "listening" /\ \A c \in Calls : pc[c] = "done"
    /\ UNCHANGED vars

Next ==
    \/ writeSocket \/ RunServer \/ Stop
    \/ \E c \in Calls : CallFails(c) \/ Test(c) \/ Act(c)
    \/ Wait

Spec == Init /\ [][Next]_vars

-----------------------------------------------------------------------------
Took(c) == {d \in Calls : op(d) = "Getmeta" /\ reply[d] = c}
Waiting(c) == {i \in DOMAIN Queue(key(c)) : Queue(key(c))[i] = c}
Puts == {acked[i] : i \in DOMAIN acked}

(* Putmeta and Getmeta test a key and use it in separate critical sections.*)
(* Still no value is handed out twice, and one whose Putmeta the running   *)
(* server acknowledged is in its queue or was handed out, unless its call  *)
(* was in the window with another call that found no queue, or a queue was *)
(* popped empty.                                                           *)
MetaDelivered ==
    ~ undefined =>
        \A c \in Puts :
            /\ Cardinality(Took(c)) + Cardinality(Waiting(c)) <= 1
            /\ (ackedIn[c] = boot /\ up = "listening" /\ c \notin raced)
                 => Cardinality(Took(c)) + Cardinality(Waiting(c)) = 1

(* Values of a key are handed out in the order in which their Putmeta      *)
(* calls were answered.                                                    *)
MetaInOrder ==
    ~ undefined =>
        \A i, j \in DOMAIN acked :
            (/\ i < j /\ key(acked[i]) = key(acked[j])
             /\ ackedIn[acked[i]] = boot /\ up = "listening"
             /\ Took(acked[j]) # {})
            => Waiting(acked[i]) = {}

(* Putmetaspace stores once: a value stays for as long as the server runs, *)
(* unless two calls found the key missing at the same time.                *)
MetaSpaceKept ==
    [][\A k \in Keys :
        metaSpace'[k] # metaSpace[k] =>
            \/ metaSpace[k] = None
            \/ up' = "down"
            \/ metaSpace'[k] \in raced]_vars

(* A duration is computed from a time that was recorded: zero gets into    *)
(* the timers only when a tick or a stop met another stop of its key in    *)
(* the window.                                                             *)
TimerReal ==
    \A k \in Keys :
        (timerMap[k] = Zero \/ \E c \in Calls : key(c) = k /\ measured[c] = Zero)
            => \E c \in raced : key(c) = k /\ op(c) \in {"Recordtime", "Recordtimetick"}
=============================================================================
