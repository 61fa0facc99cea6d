---------------------------- MODULE PubSubProofs ----------------------------
(* Theorems about PubSub for every set of calls, clients and pool threads. *)
EXTENDS PubSub, FiniteSetTheorems, SequenceTheorems, TLAPS

(* What is known of the contents of the calls. *)
LEMMA MsgFacts ==
    /\ \A s \in SubReqs :
         /\ SubMsg[s].events \in Seq([event : Events, num : Nat])
         /\ Len(SubMsg[s].events) > 0
         /\ IndexEvent(s) \in Events
    /\ \A p \in PubReqs : PubMsg[p].events \in Seq(Events)
<1>1. ASSUME NEW s \in SubReqs
      PROVE  /\ SubMsg[s].events \in Seq([event : Events, num : Nat])
             /\ SubMsg[s].events # <<>>
  BY MsgAssumption DEF SubRequest
<1>2. ASSUME NEW s \in SubReqs
      PROVE  Len(SubMsg[s].events) > 0 /\ IndexEvent(s) \in Events
  <2> DEFINE evs == SubMsg[s].events
  <2>1. evs \in Seq([event : Events, num : Nat]) /\ evs # <<>>
    BY <1>1
  <2> HIDE DEF evs
  <2>2. Len(evs) \in Nat \ {0}
    BY <2>1, EmptySeq
  <2> DEFINE R == [event : Events, num : Nat]
  <2>3. evs[1] \in R
    <3> HIDE DEF R
    <3>1. evs \in Seq(R) /\ 1 \in 1 .. Len(evs)
      BY <2>1, <2>2 DEF R
    <3> QED
      BY <3>1, ElementOfSeq
  <2> QED
    BY <2>2, <2>3 DEF IndexEvent, evs, R
<1>3. ASSUME NEW p \in PubReqs PROVE PubMsg[p].events \in Seq(Events)
  BY MsgAssumption DEF PubRequest
<1> QED
  BY <1>1, <1>2, <1>3

TypeInv == TypeOK /\ Shape

LEMMA InitType == Init => TypeInv
<1> SUFFICES ASSUME Init PROVE TypeInv
  OBVIOUS
<1>1. MapTypes
  BY MsgFacts, PresetAssumption DEF Init, MapTypes
<1>2. WrapperTypes /\ MutexTypes
  BY DEF Init, WrapperTypes, MutexTypes
<1>3. HandlerTypes
  BY DEF Init, HandlerTypes, PubLocations
<1>4. PoolTypes
  BY DEF Init, PoolTypes, WorkerLocations
<1>5. QueueTypes /\ HistoryTypes
  BY DEF Init, QueueTypes, HistoryTypes
<1>6. Shape
  BY DEF Init, Shape, PosShape, TaskShape, QueueShape, Walking
<1> QED
  BY <1>1, <1>2, <1>3, <1>4, <1>5, <1>6 DEF TypeInv, TypeOK

(* Advance keeps the control of a handler inside its event list. *)
LEMMA AdvanceType ==
    ASSUME TypeInv, NEW p \in PubReqs, NEW cs, NEW es, Advance(p, cs, es),
           ppc[p] \in Walking
    PROVE  /\ ppc' \in [PubReqs -> PubLocations]
           /\ pos' \in [PubReqs -> Nat \ {0}]
           /\ PosShape'
<1> DEFINE len == Len(PubMsg[p].events)
<1>1. ppc \in [PubReqs -> PubLocations] /\ pos \in [PubReqs -> Nat \ {0}] /\ PosShape
  BY DEF TypeInv, TypeOK, HandlerTypes, Shape
<1>2. len \in Nat /\ pos[p] <= len
  BY <1>1, MsgFacts, LenProperties DEF PosShape
<1> HIDE DEF len
<1>3. PICK loc \in {"client", "index", "event", "notify"}, q \in Nat \ {0} :
        /\ ppc' = [ppc EXCEPT ![p] = loc]
        /\ pos' = [pos EXCEPT ![p] = q]
        /\ loc # "notify" => q <= len
  <2>1. CASE cs # {}
    BY <1>1, <1>2, <2>1 DEF Advance, len
  <2>2. CASE cs = {} /\ es # {}
    BY <1>1, <1>2, <2>2 DEF Advance, len
  <2>3. CASE cs = {} /\ es = {} /\ pos[p] + 1 <= len
    <3>1. ppc' = [ppc EXCEPT ![p] = "event"] /\ pos' = [pos EXCEPT ![p] = pos[p] + 1]
      BY <2>3 DEF Advance, len
    <3>2. pos[p] + 1 \in Nat \ {0}
      BY <1>1
    <3> QED
      BY <2>3, <3>1, <3>2
  <2>4. CASE cs = {} /\ es = {} /\ pos[p] + 1 > len
    <3>1. ~ (pos[p] + 1 <= len)
      BY <1>1, <1>2, <2>4
    <3>2. ppc' = [ppc EXCEPT ![p] = "notify"] /\ pos' = [pos EXCEPT ![p] = pos[p] + 1]
      BY <2>4, <3>1 DEF Advance, len
    <3>3. pos[p] + 1 \in Nat \ {0}
      BY <1>1
    <3> QED
      BY <3>2, <3>3
  <2> QED
    BY <1>1, <1>2, <2>1, <2>2, <2>3, <2>4
<1>4. ppc' \in [PubReqs -> PubLocations] /\ pos' \in [PubReqs -> Nat \ {0}]
  BY <1>1, <1>3 DEF PubLocations
<1>5. PosShape'
  BY <1>1, <1>3 DEF PosShape, Walking, PubLocations, len
<1> QED
  BY <1>4, <1>5

(* One lemma per thread, one step per action, one leaf per group of variables. *)
LEMMA SubType == ASSUME TypeInv, NEW s \in SubReqs, SubStep(s) PROVE TypeInv'
<1> USE DEF TypeInv, TypeOK, Shape, mapVars, trigVars, mtxVars, subVars, pubVars,
        poolVars, drainVars, obsVars
<1>1. CASE SubCall(s)
  <2>1. HandlerTypes'
    BY <1>1 DEF SubCall, HandlerTypes
  <2>2. ( MapTypes /\ WrapperTypes /\ MutexTypes /\ PoolTypes /\ QueueTypes /\
         HistoryTypes /\ PosShape /\ TaskShape /\ QueueShape)'
    BY <1>1 DEF SubCall, MapTypes, WrapperTypes, MutexTypes, PoolTypes, QueueTypes,
        HistoryTypes, PosShape, TaskShape, QueueShape
  <2> QED
    BY <2>1, <2>2
<1>2. CASE SubIndex(s)
  <2>1. MapTypes'
    BY <1>2, MsgFacts DEF SubIndex, MapTypes
  <2>2. HandlerTypes'
    BY <1>2 DEF SubIndex, HandlerTypes
  <2>3. ( WrapperTypes /\ MutexTypes /\ PoolTypes /\ QueueTypes /\ HistoryTypes /\
         PosShape /\ TaskShape /\ QueueShape)'
    BY <1>2 DEF SubIndex, WrapperTypes, MutexTypes, PoolTypes, QueueTypes,
        HistoryTypes, PosShape, TaskShape, QueueShape
  <2> QED
    BY <2>1, <2>2, <2>3
<1>3. CASE SubInsert(s)
  <2>1. MapTypes'
    BY <1>3, MsgFacts DEF SubInsert, MapTypes, WithClient
  <2>2. HandlerTypes'
    BY <1>3 DEF SubInsert, HandlerTypes
  <2>3. ( WrapperTypes /\ MutexTypes /\ PoolTypes /\ QueueTypes /\ HistoryTypes /\
         PosShape /\ TaskShape /\ QueueShape)'
    BY <1>3 DEF SubInsert, WrapperTypes, MutexTypes, PoolTypes, QueueTypes,
        HistoryTypes, PosShape, TaskShape, QueueShape
  <2> QED
    BY <2>1, <2>2, <2>3
<1> QED
  BY <1>1, <1>2, <1>3 DEF SubStep

LEMMA PubType == ASSUME TypeInv, NEW p \in PubReqs, PubStep(p) PROVE TypeInv'
<1> USE DEF TypeInv, TypeOK, Shape, mapVars, trigVars, mtxVars, subVars, pubVars,
        poolVars, drainVars, obsVars
<1>0. ASSUME ppc[p] \in Walking PROVE Event(p) \in Events
  <2>1. pos[p] \in 1 .. Len(PubMsg[p].events)
    BY <1>0, MsgFacts, LenProperties DEF HandlerTypes, PosShape
  <2> QED
    BY <2>1, MsgFacts, ElementOfSeq DEF Event
<1>1. CASE PubCall(p)
  <2>1. HandlerTypes'
    BY <1>1 DEF PubCall, HandlerTypes, PubLocations
  <2>2. HistoryTypes'
    BY <1>1 DEF PubCall, HistoryTypes
  <2>3. PosShape'
    <3>1. PubMsg[p].events # <<>> => 1 <= Len(PubMsg[p].events)
      BY MsgFacts, EmptySeq
    <3>2. ppc'[p] \in {"event", "notify"} /\ pos'[p] = 1
      BY <1>1 DEF PubCall, PosShape, HandlerTypes
    <3>3. ppc'[p] = "event" => PubMsg[p].events # <<>>
      BY <1>1 DEF PubCall, HandlerTypes
    <3>4. \A q \in PubReqs \ {p} : ppc'[q] = ppc[q] /\ pos'[q] = pos[q]
      BY <1>1 DEF PubCall, HandlerTypes
    <3> QED
      BY <3>1, <3>2, <3>3, <3>4 DEF PosShape, Walking
  <2>4. ( MapTypes /\ WrapperTypes /\ MutexTypes /\ PoolTypes /\ QueueTypes /\
         TaskShape /\ QueueShape)'
    BY <1>1 DEF PubCall, MapTypes, WrapperTypes, MutexTypes, PoolTypes, QueueTypes,
        TaskShape, QueueShape
  <2> QED
    BY <2>1, <2>2, <2>3, <2>4
<1>2. CASE PubEvent(p)
  <2>1. HandlerTypes'
    BY <1>2, <1>0, AdvanceType DEF PubEvent, HandlerTypes, MapTypes, Walking
  <2>2. PosShape'
    BY <1>2, AdvanceType DEF PubEvent, PosShape, Walking
  <2>3. ( MapTypes /\ WrapperTypes /\ MutexTypes /\ PoolTypes /\ QueueTypes /\
         HistoryTypes /\ TaskShape /\ QueueShape)'
    BY <1>2 DEF PubEvent, MapTypes, WrapperTypes, MutexTypes, PoolTypes, QueueTypes,
        HistoryTypes, TaskShape, QueueShape
  <2> QED
    BY <2>1, <2>2, <2>3
<1>3. CASE PubIndex(p)
  <2>1. HandlerTypes'
    BY <1>3, AdvanceType DEF PubIndex, HandlerTypes, MapTypes, Walking, PubLocations
  <2>2. PosShape'
    <3>1. CASE ppc' = [ppc EXCEPT ![p] = "notify"] /\ pos' = pos
      BY <3>1 DEF PosShape, Walking, HandlerTypes
    <3>2. CASE \E cs, es : Advance(p, cs, es)
      BY <1>3, <3>2, AdvanceType DEF PubIndex, Walking
    <3> QED
      BY <1>3, <3>1, <3>2 DEF PubIndex
  <2>3. ( MapTypes /\ WrapperTypes /\ MutexTypes /\ PoolTypes /\ QueueTypes /\
         HistoryTypes /\ TaskShape /\ QueueShape)'
    BY <1>3 DEF PubIndex, MapTypes, WrapperTypes, MutexTypes, PoolTypes, QueueTypes,
        HistoryTypes, TaskShape, QueueShape
  <2> QED
    BY <2>1, <2>2, <2>3
<1>4. CASE PubClient(p)
  <2>1. HandlerTypes'
    <3>1. PICK s \in inner[p] :
            /\ inner' = [inner EXCEPT ![p] = @ \ {s}]
            /\ psw' = [psw EXCEPT ![p] = s]
            /\ \/ /\ val' = [val EXCEPT ![p] = publishedEvent[s][Event(p)]]
                  /\ \E l \in {"init", "store"} : ppc' = [ppc EXCEPT ![p] = l]
                  /\ UNCHANGED pos
               \/ /\ ppc' = [ppc EXCEPT ![p] = "setmeta"]
                  /\ UNCHANGED <<val, pos>>
               \/ Advance(p, inner[p] \ {s}, idxs[p]) /\ UNCHANGED val
      BY <1>4 DEF PubClient
    <3>2. s \in SubReqs /\ publishedEvent[s][Event(p)] \in Nat
      BY <1>4, <1>0, <3>1 DEF PubClient, HandlerTypes, WrapperTypes, Walking
    <3>3. ppc' \in [PubReqs -> PubLocations] /\ pos' \in [PubReqs -> Nat \ {0}]
      BY <1>4, <3>1, AdvanceType DEF PubClient, HandlerTypes, Walking, PubLocations
    <3>4. val' \in [PubReqs -> Nat \cup {Freed}]
      BY <3>1, <3>2 DEF HandlerTypes
    <3> QED
      BY <1>4, <3>1, <3>2, <3>3, <3>4 DEF PubClient, HandlerTypes
  <2>2. HistoryTypes'
    BY <1>4 DEF PubClient, HistoryTypes, HandlerTypes
  <2>3. PosShape'
    <3>1. CASE \E l \in {"init", "store", "setmeta"} : ppc' = [ppc EXCEPT ![p] = l] /\ pos' = pos
      <4>1. ppc[p] \in Walking
        BY <1>4 DEF PubClient, Walking
      <4> QED
        BY <3>1, <4>1 DEF PosShape, Walking, HandlerTypes
    <3>2. CASE \E cs, es : Advance(p, cs, es)
      BY <1>4, <3>2, AdvanceType DEF PubClient, Walking
    <3> QED
      BY <1>4, <3>1, <3>2 DEF PubClient
  <2>4. ( MapTypes /\ WrapperTypes /\ MutexTypes /\ PoolTypes /\ QueueTypes /\
         TaskShape /\ QueueShape)'
    BY <1>4 DEF PubClient, MapTypes, WrapperTypes, MutexTypes, PoolTypes,
        QueueTypes, TaskShape, QueueShape
  <2> QED
    BY <2>1, <2>2, <2>3, <2>4
<1>5. CASE PubStore(p)
  <2>1. WrapperTypes'
    <3>1. CASE val[p] = Freed
      BY <1>5, <3>1 DEF PubStore, WrapperTypes
    <3>2. CASE val[p] # Freed
      <4>1. val[p] + 1 \in Nat
        BY <3>2 DEF HandlerTypes
      <4>2. publishedEvent' = [publishedEvent EXCEPT ![psw[p]][Event(p)] = val[p] + 1]
        BY <1>5, <3>2 DEF PubStore
      <4>3. publishedEvent' \in [SubReqs -> [Events -> Nat]]
        BY <4>1, <4>2 DEF WrapperTypes
      <4> QED
        BY <1>5, <4>3 DEF PubStore, WrapperTypes
    <3> QED
      BY <3>1, <3>2
  <2>2. HandlerTypes'
    BY <1>5 DEF PubStore, HandlerTypes, PubLocations
  <2>3. PosShape'
    BY <1>5 DEF PubStore, PosShape, Walking
  <2>4. ( MapTypes /\ MutexTypes /\ PoolTypes /\ QueueTypes /\ HistoryTypes /\
         TaskShape /\ QueueShape)'
    BY <1>5 DEF PubStore, MapTypes, MutexTypes, PoolTypes, QueueTypes, HistoryTypes,
        TaskShape, QueueShape
  <2> QED
    BY <2>1, <2>2, <2>3, <2>4
<1>13. CASE PubInit(p)
  <2>1. WrapperTypes'
    <3>1. publishedEvent' \in [SubReqs -> [Events -> Nat]]
      BY <1>13 DEF PubInit, WrapperTypes
    <3> QED
      BY <1>13, <3>1 DEF PubInit, WrapperTypes
  <2>2. HandlerTypes'
    BY <1>13 DEF PubInit, HandlerTypes, PubLocations
  <2>3. PosShape'
    BY <1>13 DEF PubInit, PosShape, Walking
  <2>4. ( MapTypes /\ MutexTypes /\ PoolTypes /\ QueueTypes /\ HistoryTypes /\
         TaskShape /\ QueueShape)'
    BY <1>13 DEF PubInit, MapTypes, MutexTypes, PoolTypes, QueueTypes, HistoryTypes,
        TaskShape, QueueShape
  <2> QED
    BY <2>1, <2>2, <2>3, <2>4
<1>6. CASE PubMatch(p)
  <2>1. HandlerTypes'
    BY <1>6, AdvanceType DEF PubMatch, HandlerTypes, Walking, PubLocations
  <2>2. PosShape'
    <3>1. CASE ppc' = [ppc EXCEPT ![p] = "setmeta"] /\ pos' = pos
      BY <1>6, <3>1 DEF PubMatch, PosShape, Walking, HandlerTypes
    <3>2. CASE Advance(p, inner[p], idxs[p])
      BY <1>6, <3>2, AdvanceType DEF PubMatch, Walking
    <3> QED
      BY <1>6, <3>1, <3>2 DEF PubMatch
  <2>3. ( MapTypes /\ WrapperTypes /\ MutexTypes /\ PoolTypes /\ QueueTypes /\
         HistoryTypes /\ TaskShape /\ QueueShape)'
    BY <1>6 DEF PubMatch, MapTypes, WrapperTypes, MutexTypes, PoolTypes, QueueTypes,
        HistoryTypes, TaskShape, QueueShape
  <2> QED
    BY <2>1, <2>2, <2>3
<1>7. CASE PubSetMeta(p)
  <2>1. WrapperTypes'
    BY <1>7 DEF PubSetMeta, WrapperTypes
  <2>2. MutexTypes'
    BY <1>7 DEF PubSetMeta, MutexTypes
  <2>3. HandlerTypes'
    BY <1>7 DEF PubSetMeta, HandlerTypes, PubLocations
  <2>4. PosShape'
    BY <1>7 DEF PubSetMeta, PosShape, Walking
  <2>5. ( MapTypes /\ PoolTypes /\ QueueTypes /\ HistoryTypes /\ TaskShape /\
         QueueShape)'
    BY <1>7 DEF PubSetMeta, MapTypes, PoolTypes, QueueTypes, HistoryTypes,
        TaskShape, QueueShape
  <2> QED
    BY <2>1, <2>2, <2>3, <2>4, <2>5
<1>8. CASE PubSetFlag(p)
  <2>1. WrapperTypes'
    BY <1>8 DEF PubSetFlag, WrapperTypes
  <2>2. MutexTypes'
    BY <1>8 DEF PubSetFlag, MutexTypes
  <2>3. HandlerTypes'
    BY <1>8, AdvanceType DEF PubSetFlag, HandlerTypes, Walking
  <2>4. HistoryTypes'
    <3> DEFINE r == Registered(p)
    <3>1. triggers' = [triggers EXCEPT ![r] = @ + 1]
      BY <1>8 DEF PubSetFlag
    <3> HIDE DEF r
    <3>2. triggers' \in [SubReqs -> Nat]
      <4>1. triggers \in [SubReqs -> Nat]
        BY DEF HistoryTypes
      <4>2. CASE r \in SubReqs
        BY <3>1, <4>1, <4>2
      <4>3. CASE r \notin SubReqs
        BY <3>1, <4>1, <4>3
      <4> QED
        BY <4>2, <4>3
    <3> QED
      BY <1>8, <3>2 DEF PubSetFlag, HistoryTypes
  <2>5. PosShape'
    BY <1>8, AdvanceType DEF PubSetFlag, PosShape, Walking
  <2>6. ( MapTypes /\ PoolTypes /\ QueueTypes /\ TaskShape /\ QueueShape)'
    BY <1>8 DEF PubSetFlag, MapTypes, PoolTypes, QueueTypes, TaskShape, QueueShape
  <2> QED
    BY <2>1, <2>2, <2>3, <2>4, <2>5, <2>6
<1>9. CASE PubNotify(p)
  <2>1. HandlerTypes'
    <3> DEFINE lastEvent == PubMsg[p].events[Len(PubMsg[p].events)]
               indexed == IF PubMsg[p].events = <<>> THEN {} ELSE getIndexMap[lastEvent]
    <3>1. PubMsg[p].events # <<>> => lastEvent \in Events
      BY MsgFacts, EmptySeq, ElementOfSeq
    <3>2. indexed \in SUBSET Events
      BY <3>1 DEF MapTypes
    <3>3. /\ idxs' = [idxs EXCEPT ![p] = indexed]
          /\ ppc' = [ppc EXCEPT ![p] = IF indexed = {} THEN "done" ELSE "nindex"]
      BY <1>9 DEF PubNotify
    <3> HIDE DEF indexed
    <3>4. idxs' \in [PubReqs -> SUBSET Events] /\ ppc' \in [PubReqs -> PubLocations]
      BY <3>2, <3>3 DEF HandlerTypes, PubLocations
    <3> QED
      BY <1>9, <3>4 DEF PubNotify, HandlerTypes
  <2>2. PosShape'
    BY <1>9 DEF PubNotify, PosShape, Walking
  <2>3. ( MapTypes /\ WrapperTypes /\ MutexTypes /\ PoolTypes /\ QueueTypes /\
         HistoryTypes /\ TaskShape /\ QueueShape)'
    BY <1>9 DEF PubNotify, MapTypes, WrapperTypes, MutexTypes, PoolTypes,
        QueueTypes, HistoryTypes, TaskShape, QueueShape
  <2> QED
    BY <2>1, <2>2, <2>3
<1>10. CASE PubNotifyIndex(p)
  <2>1. MapTypes'
    BY <1>10 DEF PubNotifyIndex, MapTypes, HandlerTypes
  <2>2. HandlerTypes'
    BY <1>10 DEF PubNotifyIndex, HandlerTypes, MapTypes, AdvanceNotify, PubLocations
  <2>3. PosShape'
    BY <1>10 DEF PubNotifyIndex, PosShape, AdvanceNotify, Walking
  <2>4. ( WrapperTypes /\ MutexTypes /\ PoolTypes /\ QueueTypes /\ HistoryTypes /\
         TaskShape /\ QueueShape)'
    BY <1>10 DEF PubNotifyIndex, WrapperTypes, MutexTypes, PoolTypes, QueueTypes,
        HistoryTypes, TaskShape, QueueShape
  <2> QED
    BY <2>1, <2>2, <2>3, <2>4
<1>11. CASE PubEnqueue(p)
  <2>1. HandlerTypes'
    BY <1>11, LenProperties DEF PubEnqueue, HandlerTypes, PoolTypes, PubLocations
  <2>2. PoolTypes'
    BY <1>11, AppendProperties, LenProperties DEF PubEnqueue, PoolTypes,
        HandlerTypes
  <2>3. PosShape'
    BY <1>11 DEF PubEnqueue, PosShape, Walking
  <2>4. ( MapTypes /\ WrapperTypes /\ MutexTypes /\ QueueTypes /\ HistoryTypes /\
         TaskShape /\ QueueShape)'
    BY <1>11 DEF PubEnqueue, MapTypes, WrapperTypes, MutexTypes, QueueTypes,
        HistoryTypes, TaskShape, QueueShape
  <2> QED
    BY <2>1, <2>2, <2>3, <2>4
<1>12. CASE PubResult(p)
  <2>1. HandlerTypes'
    BY <1>12 DEF PubResult, HandlerTypes, AdvanceNotify, PubLocations
  <2>2. QueueTypes'
    BY <1>12, AppendProperties DEF PubResult, QueueTypes, HandlerTypes
  <2>3. PosShape'
    BY <1>12 DEF PubResult, PosShape, AdvanceNotify, Walking
  <2>4. QueueShape'
    BY <1>12, AppendProperties DEF PubResult, QueueShape, HandlerTypes, QueueTypes
  <2>5. ( MapTypes /\ WrapperTypes /\ MutexTypes /\ PoolTypes /\ HistoryTypes /\
         TaskShape)'
    BY <1>12 DEF PubResult, MapTypes, WrapperTypes, MutexTypes, PoolTypes,
        HistoryTypes, TaskShape
  <2> QED
    BY <2>1, <2>2, <2>3, <2>4, <2>5
<1> QED
  BY <1>1, <1>2, <1>3, <1>4, <1>5, <1>6, <1>7, <1>8, <1>9, <1>10, <1>11, <1>12, <1>13
  DEF PubStep

LEMMA WorkerType == ASSUME TypeInv, NEW w \in Workers, WorkerStep(w) PROVE TypeInv'
<1> USE DEF TypeInv, TypeOK, Shape, mapVars, trigVars, mtxVars, subVars, pubVars,
        poolVars, drainVars, obsVars
<1>0. ASSUME wpc[w] # "idle" PROVE Task(w) \in SubReqs
  <2>1. wtask[w] \in 1 .. Len(taskLog)
    BY <1>0, LenProperties DEF PoolTypes, TaskShape
  <2> QED
    BY <2>1, ElementOfSeq DEF Task, PoolTypes
<1>1. CASE PoolTake(w)
  <2>1. PoolTypes'
    BY <1>1, LenProperties DEF PoolTake, PoolTypes, WorkerLocations
  <2>2. TaskShape'
    BY <1>1 DEF PoolTake, TaskShape, PoolTypes
  <2>3. ( MapTypes /\ WrapperTypes /\ MutexTypes /\ HandlerTypes /\ QueueTypes /\
         HistoryTypes /\ PosShape /\ QueueShape)'
    BY <1>1 DEF PoolTake, MapTypes, WrapperTypes, MutexTypes, HandlerTypes,
        QueueTypes, HistoryTypes, PosShape, QueueShape
  <2> QED
    BY <2>1, <2>2, <2>3
<1>2. CASE NotifyLock(w)
  <2>1. MutexTypes'
    BY <1>2 DEF NotifyLock, MutexTypes
  <2>2. PoolTypes'
    BY <1>2 DEF NotifyLock, PoolTypes, WorkerLocations
  <2>3. TaskShape'
    BY <1>2 DEF NotifyLock, TaskShape
  <2>4. ( MapTypes /\ WrapperTypes /\ HandlerTypes /\ QueueTypes /\ HistoryTypes /\
         PosShape /\ QueueShape)'
    BY <1>2 DEF NotifyLock, MapTypes, WrapperTypes, HandlerTypes, QueueTypes,
        HistoryTypes, PosShape, QueueShape
  <2> QED
    BY <2>1, <2>2, <2>3, <2>4
<1>3. CASE NotifyTest(w)
  <2>1. MutexTypes'
    BY <1>3 DEF NotifyTest, MutexTypes
  <2>2. PoolTypes'
    <3>1. CASE Finish(w)
      <4>1. UNCHANGED <<taskLog, taken, ninfo>>
        BY <1>3 DEF NotifyTest
      <4> QED
        BY <3>1, <4>1 DEF PoolTypes, Finish, WorkerLocations
    <3>2. CASE wpc' = [wpc EXCEPT ![w] = "claim"] /\ UNCHANGED <<finished, wtask>>
      BY <1>3, <3>2 DEF NotifyTest, PoolTypes, WorkerLocations
    <3> QED
      BY <1>3, <3>1, <3>2 DEF NotifyTest
  <2>3. TaskShape'
    BY <1>3 DEF NotifyTest, TaskShape, Finish, PoolTypes
  <2>4. ( MapTypes /\ WrapperTypes /\ HandlerTypes /\ QueueTypes /\ HistoryTypes /\
         PosShape /\ QueueShape)'
    BY <1>3 DEF NotifyTest, MapTypes, WrapperTypes, HandlerTypes, QueueTypes,
        HistoryTypes, PosShape, QueueShape
  <2> QED
    BY <2>1, <2>2, <2>3, <2>4
<1>4. CASE NotifyClaim(w)
  <2>1. WrapperTypes'
    BY <1>4 DEF NotifyClaim, WrapperTypes
  <2>2. MutexTypes'
    BY <1>4 DEF NotifyClaim, MutexTypes
  <2>3. PoolTypes'
    BY <1>4 DEF NotifyClaim, PoolTypes, WorkerLocations
  <2>4. TaskShape'
    BY <1>4 DEF NotifyClaim, TaskShape
  <2>5. ( MapTypes /\ HandlerTypes /\ QueueTypes /\ HistoryTypes /\ PosShape /\
         QueueShape)'
    BY <1>4 DEF NotifyClaim, MapTypes, HandlerTypes, QueueTypes, HistoryTypes,
        PosShape, QueueShape
  <2> QED
    BY <2>1, <2>2, <2>3, <2>4, <2>5
<1>5. CASE NotifyBuild(w)
  <2>1. PoolTypes'
    BY <1>5, <1>0 DEF NotifyBuild, PoolTypes, WrapperTypes, WorkerLocations
  <2>2. TaskShape'
    BY <1>5 DEF NotifyBuild, TaskShape
  <2>3. ( MapTypes /\ WrapperTypes /\ MutexTypes /\ HandlerTypes /\ QueueTypes /\
         HistoryTypes /\ PosShape /\ QueueShape)'
    BY <1>5 DEF NotifyBuild, MapTypes, WrapperTypes, MutexTypes, HandlerTypes,
        QueueTypes, HistoryTypes, PosShape, QueueShape
  <2> QED
    BY <2>1, <2>2, <2>3
<1>6. CASE NotifyPush(w)
  <2>1. PoolTypes'
    <3>1. CASE Finish(w)
      BY <1>6, <3>1 DEF NotifyPush, PoolTypes, Finish, WorkerLocations
    <3>2. CASE wpc' = [wpc EXCEPT ![w] = "wipe"] /\ UNCHANGED <<finished, wtask>>
      BY <1>6, <3>2 DEF NotifyPush, PoolTypes, WorkerLocations
    <3> QED
      BY <1>6, <3>1, <3>2 DEF NotifyPush
  <2>2. QueueTypes'
    BY <1>6, <1>0, AppendProperties DEF NotifyPush, QueueTypes, NotifyInfo,
        PoolTypes
  <2>3. HistoryTypes'
    BY <1>6, <1>0 DEF NotifyPush, HistoryTypes
  <2>4. TaskShape'
    BY <1>6 DEF NotifyPush, TaskShape, Finish, PoolTypes
  <2>5. QueueShape'
    <3> DEFINE n == [psw |-> Task(w), meta |-> ninfo[w]]
    <3>1. n \in NotifyInfo
      BY <1>6, <1>0 DEF NotifyPush, NotifyInfo, PoolTypes
    <3>2. notifyQueue' = Append(notifyQueue, n)
      BY <1>6 DEF NotifyPush
    <3> HIDE DEF n
    <3>3. notifyQueue' # <<>>
      BY <3>1, <3>2, AppendProperties DEF QueueTypes
    <3> QED
      BY <1>6, <3>3 DEF NotifyPush, QueueShape
  <2>6. ( MapTypes /\ WrapperTypes /\ MutexTypes /\ HandlerTypes /\ PosShape)'
    BY <1>6 DEF NotifyPush, MapTypes, WrapperTypes, MutexTypes, HandlerTypes,
        PosShape
  <2> QED
    BY <2>1, <2>2, <2>3, <2>4, <2>5, <2>6
<1>7. CASE NotifyWipe(w)
  <2>1. WrapperTypes'
    BY <1>7 DEF NotifyWipe, WrapperTypes
  <2>2. HandlerTypes'
    BY <1>7 DEF NotifyWipe, HandlerTypes, Freed
  <2>3. PoolTypes'
    BY <1>7 DEF NotifyWipe, PoolTypes, Finish, WorkerLocations
  <2>4. TaskShape'
    BY <1>7 DEF NotifyWipe, TaskShape, Finish, PoolTypes
  <2>5. ( MapTypes /\ MutexTypes /\ QueueTypes /\ HistoryTypes /\ PosShape /\
         QueueShape)'
    BY <1>7 DEF NotifyWipe, MapTypes, MutexTypes, QueueTypes, HistoryTypes,
        PosShape, QueueShape
  <2> QED
    BY <2>1, <2>2, <2>3, <2>4, <2>5
<1> QED
  BY <1>1, <1>2, <1>3, <1>4, <1>5, <1>6, <1>7 DEF WorkerStep

LEMMA CheckType == ASSUME TypeInv, CheckStep PROVE TypeInv'
<1> USE DEF TypeInv, TypeOK, Shape, mapVars, trigVars, mtxVars, subVars, pubVars,
        poolVars, drainVars, obsVars
<1>1. CASE CheckLock
  <2>1. MutexTypes'
    BY <1>1 DEF CheckLock, MutexTypes
  <2>2. QueueShape'
    BY <1>1 DEF CheckLock, QueueShape
  <2>3. ( MapTypes /\ WrapperTypes /\ HandlerTypes /\ PoolTypes /\ QueueTypes /\
         HistoryTypes /\ PosShape /\ TaskShape)'
    BY <1>1 DEF CheckLock, MapTypes, WrapperTypes, HandlerTypes, PoolTypes,
        QueueTypes, HistoryTypes, PosShape, TaskShape
  <2> QED
    BY <2>1, <2>2, <2>3
<1>2. CASE CheckGet
  <2>1. MutexTypes'
    BY <1>2 DEF CheckGet, MutexTypes
  <2>2. QueueTypes'
    BY <1>2, HeadTailProperties DEF CheckGet, QueueTypes, QueueShape
  <2>3. QueueShape'
    BY <1>2 DEF CheckGet, QueueShape
  <2>4. ( MapTypes /\ WrapperTypes /\ HandlerTypes /\ PoolTypes /\ HistoryTypes /\
         PosShape /\ TaskShape)'
    BY <1>2 DEF CheckGet, MapTypes, WrapperTypes, HandlerTypes, PoolTypes,
        HistoryTypes, PosShape, TaskShape
  <2> QED
    BY <2>1, <2>2, <2>3, <2>4
<1> QED
  BY <1>1, <1>2 DEF CheckStep

LEMMA DrainType == ASSUME TypeInv, DrainStep PROVE TypeInv'
<1> USE DEF TypeInv, TypeOK, Shape, mapVars, trigVars, mtxVars, subVars, pubVars,
        poolVars, drainVars, obsVars
<1>1. CASE DrainSize
  <2>1. QueueTypes'
    BY <1>1, PoolAssumption, LenProperties DEF DrainSize, QueueTypes
  <2>2. QueueShape'
    BY <1>1, PoolAssumption, EmptySeq DEF DrainSize, QueueShape, QueueTypes
  <2>3. ( MapTypes /\ WrapperTypes /\ MutexTypes /\ HandlerTypes /\ PoolTypes /\
         HistoryTypes /\ PosShape /\ TaskShape)'
    BY <1>1 DEF DrainSize, MapTypes, WrapperTypes, MutexTypes, HandlerTypes,
        PoolTypes, HistoryTypes, PosShape, TaskShape
  <2> QED
    BY <2>1, <2>2, <2>3
<1>2. CASE DrainFront
  <2>1. QueueTypes'
    BY <1>2 DEF DrainFront, QueueTypes
  <2>2. HistoryTypes'
    BY <1>2, HeadTailProperties, AppendProperties DEF DrainFront, HistoryTypes,
        QueueTypes
  <2>3. QueueShape'
    BY <1>2 DEF DrainFront, QueueShape
  <2>4. ( MapTypes /\ WrapperTypes /\ MutexTypes /\ HandlerTypes /\ PoolTypes /\
         PosShape /\ TaskShape)'
    BY <1>2 DEF DrainFront, MapTypes, WrapperTypes, MutexTypes, HandlerTypes,
        PoolTypes, PosShape, TaskShape
  <2> QED
    BY <2>1, <2>2, <2>3, <2>4
<1>3. CASE DrainPop
  <2>1. QueueTypes'
    BY <1>3, HeadTailProperties DEF DrainPop, QueueTypes, QueueShape
  <2>2. QueueShape'
    BY <1>3 DEF DrainPop, QueueShape, QueueTypes
  <2>3. ( MapTypes /\ WrapperTypes /\ MutexTypes /\ HandlerTypes /\ PoolTypes /\
         HistoryTypes /\ PosShape /\ TaskShape)'
    BY <1>3 DEF DrainPop, MapTypes, WrapperTypes, MutexTypes, HandlerTypes,
        PoolTypes, HistoryTypes, PosShape, TaskShape
  <2> QED
    BY <2>1, <2>2, <2>3
<1> QED
  BY <1>1, <1>2, <1>3 DEF DrainStep

(* The inductive invariant: types, and positions, task numbers and queue   *)
(* heads that are valid when they are used.                                *)
LEMMA TypeInvariant == Spec => []TypeInv
<1>1. Init => TypeInv
  BY InitType
<1>2. TypeInv /\ [Next]_vars => TypeInv'
  <2> SUFFICES ASSUME TypeInv, [Next]_vars PROVE TypeInv'
    OBVIOUS
  <2>1. CASE UNCHANGED vars
    BY <2>1 DEF vars, mapVars, trigVars, mtxVars, subVars, pubVars, poolVars, drainVars,
        obsVars, TypeInv, TypeOK, Shape, MapTypes, WrapperTypes, MutexTypes, HandlerTypes,
        PoolTypes, QueueTypes, HistoryTypes, PosShape, TaskShape, QueueShape
  <2> QED
    BY <2>1, SubType, PubType, WorkerType, CheckType, DrainType DEF Next, Poll
<1> QED
  BY <1>1, <1>2, PTL DEF Spec

(* The state of the server keeps its types whatever calls arrive. *)
THEOREM TypeCorrect == Spec => []TypeOK
<1>1. TypeInv => TypeOK
  BY DEF TypeInv
<1> QED
  BY <1>1, TypeInvariant, PTL

-----------------------------------------------------------------------------
(* The entry a publication is about to trigger exists *)

LEMMA RegisteredStep == ASSUME TypeInv, StillRegistered, [Next]_vars PROVE StillRegistered'
<1> USE DEF TypeInv, TypeOK, Shape
<1> DEFINE Entry(e, c) == \E t \in subtoClient[e] : SubMsg[t].client = c
<1>1. CASE UNCHANGED <<ppc, idx, inner, psw, subtoClient>>
  BY <1>1 DEF StillRegistered, HasEntry
<1>2. ASSUME NEW s \in SubReqs, SubInsert(s) PROVE StillRegistered'
  <2>1. UNCHANGED <<ppc, idx, inner, psw>>
    BY <1>2 DEF SubInsert, pubVars
  <2>2. subtoClient' = [subtoClient EXCEPT ![IndexEvent(s)] = WithClient(IndexEvent(s), s)]
    BY <1>2 DEF SubInsert
  <2>3. ASSUME NEW e \in Events, NEW c, Entry(e, c) PROVE Entry(e, c)'
    <3>1. CASE e # IndexEvent(s)
      BY <2>2, <2>3, <3>1 DEF MapTypes
    <3>2. CASE e = IndexEvent(s)
      <4>1. subtoClient'[e] = WithClient(e, s)
        BY <2>2, <3>2 DEF MapTypes
      <4> QED
        BY <2>3, <4>1 DEF WithClient
    <3> QED
      BY <3>1, <3>2
  <2>4. ASSUME NEW p \in PubReqs, NEW r, idx[p] \in Events, HasEntry(p, r)
        PROVE  HasEntry(p, r)'
    <3>1. Entry(idx[p], SubMsg[r].client)
      BY <2>4 DEF HasEntry
    <3>2. Entry(idx[p], SubMsg[r].client)'
      BY <2>1, <2>3, <2>4, <3>1
    <3> QED
      BY <2>1, <3>2 DEF HasEntry
  <2> QED
    BY <2>1, <2>4 DEF StillRegistered
<1>3. ASSUME NEW p \in PubReqs, PubStep(p), UNCHANGED subtoClient
      PROVE  StillRegistered'
  <2> USE DEF mapVars, trigVars, mtxVars, subVars, pubVars
  <2>1. ASSUME NEW q \in PubReqs, q # p
        PROVE  /\ ppc'[q] = ppc[q] /\ idx'[q] = idx[q]
               /\ inner'[q] = inner[q] /\ psw'[q] = psw[q]
    BY <1>3, <2>1, ZenonT(60) DEF PubStep, PubCall, PubEvent, PubIndex, PubClient, PubInit, PubStore, PubMatch,
        PubSetMeta, PubSetFlag, PubNotify, PubNotifyIndex, PubEnqueue, PubResult, Advance,
        AdvanceNotify, HandlerTypes
  <2> DEFINE Good(q) ==
        /\ ppc[q] \in Matching \cup {"client"} =>
             idx[q] \in Events /\ \A s \in inner[q] : HasEntry(q, s)
        /\ ppc[q] \in Matching => psw[q] \in SubReqs /\ HasEntry(q, psw[q])
  <2>2. \A q \in PubReqs : Good(q)
    BY DEF StillRegistered
  <2>3. ASSUME NEW q \in PubReqs, q # p PROVE Good(q)'
    BY <1>3, <2>1, <2>2, <2>3 DEF HasEntry
  <2>4. Good(p)'
    <3>1. CASE ppc'[p] \notin Matching \cup {"client"}
      BY <3>1
    <3>2. CASE PubIndex(p)
      <4>1. CASE ppc' = [ppc EXCEPT ![p] = "notify"]
        BY <4>1 DEF HandlerTypes, Matching
      <4>2. CASE \E e \in idxs[p] : idx' = [idx EXCEPT ![p] = e]
                                    /\ inner' = [inner EXCEPT ![p] = subtoClient[e]]
        <5>1. PICK e \in idxs[p] : idx' = [idx EXCEPT ![p] = e]
                                   /\ inner' = [inner EXCEPT ![p] = subtoClient[e]]
          BY <4>2
        <5>2. idx'[p] = e /\ inner'[p] = subtoClient'[e] /\ e \in Events
          BY <1>3, <5>1 DEF HandlerTypes
        <5>3. ppc'[p] \notin Matching
          BY <3>2 DEF PubIndex, Advance, HandlerTypes, Matching
        <5> QED
          BY <5>2, <5>3 DEF HasEntry
      <4> QED
        BY <3>2, <4>1, <4>2 DEF PubIndex
    <3>3. CASE PubClient(p)
      <4>1. PICK s \in inner[p] : inner' = [inner EXCEPT ![p] = @ \ {s}]
                                  /\ psw' = [psw EXCEPT ![p] = s]
        BY <3>3 DEF PubClient
      <4>2. /\ idx'[p] = idx[p] /\ inner'[p] \subseteq inner[p]
            /\ psw'[p] = s /\ s \in SubReqs
        BY <3>3, <4>1 DEF PubClient, HandlerTypes
      <4>3. idx[p] \in Events /\ \A r \in inner[p] : HasEntry(p, r)
        BY <2>2, <3>3 DEF PubClient
      <4> QED
        BY <1>3, <4>2, <4>3 DEF HasEntry
    <3>4. CASE /\ ppc[p] \in Matching
               /\ UNCHANGED <<idx, inner, psw>>
      BY <1>3, <2>2, <3>4 DEF HasEntry
    <3> QED
      BY <1>3, <3>1, <3>2, <3>3, <3>4, ZenonT(60) DEF PubStep, PubCall, PubEvent, PubInit, PubStore, PubMatch,
        PubSetMeta, PubSetFlag, PubNotify, PubNotifyIndex, PubEnqueue, PubResult, Advance,
        AdvanceNotify, HandlerTypes, Matching
  <2> QED
    BY <2>3, <2>4 DEF StillRegistered
<1>4. CASE \E s \in SubReqs : SubCall(s) \/ SubIndex(s)
  BY <1>1, <1>4 DEF SubCall, SubIndex, pubVars, mapVars
<1>5. CASE (\E w \in Workers : WorkerStep(w)) \/ CheckStep \/ DrainStep \/ UNCHANGED vars
  BY <1>1, <1>5, ZenonT(60) DEF WorkerStep, PoolTake, NotifyLock, NotifyTest, NotifyClaim, NotifyBuild,
        NotifyPush, NotifyWipe, CheckStep, CheckLock, CheckGet, DrainStep, DrainSize,
        DrainFront, DrainPop, vars, pubVars, mapVars
<1>6. ASSUME NEW p \in PubReqs, PubStep(p) PROVE UNCHANGED subtoClient
  BY <1>6 DEF PubStep, PubCall, PubEvent, PubIndex, PubClient, PubInit, PubStore, PubMatch,
        PubSetMeta, PubSetFlag, PubNotify, PubNotifyIndex, PubEnqueue, PubResult, mapVars
<1> QED
  BY <1>2, <1>3, <1>4, <1>5, <1>6 DEF Next, SubStep, Poll

(* Whatever subscriptions race with it, a publication that goes back to    *)
(* subtoClient to set a trigger finds an entry there.                      *)
THEOREM EntryExists == Spec => []StillRegistered
<1>1. Init => StillRegistered
  BY DEF Init, StillRegistered, Matching
<1>2. TypeInv /\ StillRegistered /\ [Next]_vars => StillRegistered'
  BY RegisteredStep
<1> QED
  BY <1>1, <1>2, TypeInvariant, PTL DEF Spec

-----------------------------------------------------------------------------
(* No more notifications than triggers *)

(* The task of a running pool thread is a wrapper, and stays the same one  *)
(* when tasks are added to the queue.                                      *)
LEMMA TaskStable ==
    ASSUME TypeInv, NEW w \in Workers, wpc[w] # "idle"
    PROVE  /\ Task(w) \in SubReqs
           /\ wtask'[w] = wtask[w] /\ taskLog' = taskLog => Task(w)' = Task(w)
           /\ \A s \in SubReqs :
                wtask'[w] = wtask[w] /\ taskLog' = Append(taskLog, s) => Task(w)' = Task(w)
<1>1. taskLog \in Seq(SubReqs) /\ wtask[w] \in 1 .. Len(taskLog)
  BY LenProperties DEF TypeInv, TypeOK, Shape, PoolTypes, TaskShape
<1>2. Task(w) \in SubReqs
  BY <1>1, ElementOfSeq DEF Task
<1>3. ASSUME NEW s \in SubReqs, wtask'[w] = wtask[w], taskLog' = Append(taskLog, s)
      PROVE  Task(w)' = Task(w)
  BY <1>1, <1>3, AppendProperties DEF Task
<1> QED
  BY <1>2, <1>3 DEF Task

LEMMA ClaimsFinite ==
    \A s : IsFiniteSet(Claims(s)) /\ Cardinality(Claims(s)) \in Nat
<1> SUFFICES ASSUME NEW s PROVE IsFiniteSet(Claims(s)) /\ Cardinality(Claims(s)) \in Nat
  OBVIOUS
<1>1. Claims(s) \in SUBSET Workers
  BY DEF Claims
<1>2. IsFiniteSet(Claims(s))
  BY <1>1, FS_Subset, PoolAssumption
<1> QED
  BY <1>2, FS_CardinalityType

ClaimInv == ClaimSafe /\ NotifyBounded

(* Steps of the other threads: nothing a pool thread relies on changes. *)
LEMMA ClaimFrame ==
    ASSUME TypeInv, ClaimInv,
           UNCHANGED <<wpc, wtask, pswmtx, iftrigure, notified, triggers>>,
           taskLog' = taskLog \/ \E s \in SubReqs : taskLog' = Append(taskLog, s)
    PROVE  ClaimInv'
<1>1. \A w \in Workers : wpc[w] # "idle" => Task(w)' = Task(w)
  BY TaskStable
<1>2. \A s : Claims(s)' = Claims(s)
  BY <1>1 DEF Claims
<1>3. ClaimSafe'
  BY <1>1 DEF ClaimInv, ClaimSafe
<1>4. NotifyBounded'
  BY <1>2 DEF ClaimInv, NotifyBounded
<1> QED
  BY <1>3, <1>4 DEF ClaimInv

LEMMA ClaimSetFlag ==
    ASSUME TypeInv, ClaimInv, NEW p \in PubReqs, PubSetFlag(p) PROVE ClaimInv'
<1> DEFINE r == Registered(p)
<1>1. /\ iftrigure' = [iftrigure EXCEPT ![r] = TRUE]
      /\ triggers' = [triggers EXCEPT ![r] = @ + 1]
      /\ UNCHANGED <<wpc, wtask, pswmtx, notified, taskLog>>
  BY DEF PubSetFlag, poolVars
<1> HIDE DEF r
<1>2. /\ iftrigure \in [SubReqs -> BOOLEAN]
      /\ triggers \in [SubReqs -> Nat] /\ notified \in [SubReqs -> Nat]
  BY DEF TypeInv, TypeOK, WrapperTypes, HistoryTypes
<1>3. \A w \in Workers : wpc[w] # "idle" => Task(w)' = Task(w) /\ Task(w) \in SubReqs
  BY <1>1, TaskStable
<1>4. \A s : Claims(s)' = Claims(s)
  BY <1>1, <1>3 DEF Claims
<1>5. ClaimSafe'
  BY <1>1, <1>2, <1>3 DEF ClaimInv, ClaimSafe
<1>6. ASSUME NEW s \in SubReqs
      PROVE (notified[s] + Cardinality(Claims(s)) + (IF iftrigure[s] THEN 1 ELSE 0)
                <= triggers[s])'
  <2>1. /\ notified[s] + Cardinality(Claims(s)) + (IF iftrigure[s] THEN 1 ELSE 0)
             <= triggers[s]
        /\ Cardinality(Claims(s)) \in Nat
    BY ClaimsFinite DEF ClaimInv, NotifyBounded
  <2>2. CASE s = r
    <3>1. triggers'[s] = triggers[s] + 1 /\ iftrigure'[s] = TRUE
      BY <1>1, <1>2, <2>2
    <3> QED
      BY <1>1, <1>2, <1>4, <2>1, <3>1
  <2>3. CASE s # r
    BY <1>1, <1>2, <1>4, <2>1, <2>3
  <2> QED
    BY <2>2, <2>3
<1> QED
  BY <1>5, <1>6 DEF ClaimInv, NotifyBounded

(* A pool thread w moves.  Only the holder of a wrapper's mutex can touch  *)
(* its trigger, so the trigger that w takes is one nobody else took.       *)
LEMMA ClaimWorker ==
    ASSUME TypeInv, ClaimInv, NEW w \in Workers, WorkerStep(w) PROVE ClaimInv'
<1> USE DEF mapVars, trigVars, mtxVars, subVars, pubVars, drainVars, obsVars
<1>0. PICK r : r = Task(w)
  OBVIOUS
<1>1. /\ iftrigure \in [SubReqs -> BOOLEAN] /\ pswmtx \in [SubReqs -> Workers \cup {None}]
      /\ triggers \in [SubReqs -> Nat] /\ notified \in [SubReqs -> Nat]
      /\ wpc \in [Workers -> WorkerLocations] /\ wtask \in [Workers -> Nat]
  BY DEF TypeInv, TypeOK, WrapperTypes, MutexTypes, HistoryTypes, PoolTypes
<1>2. taskLog' = taskLog /\ triggers' = triggers
  BY DEF WorkerStep, PoolTake, NotifyLock, NotifyTest, NotifyClaim, NotifyBuild,
        NotifyPush, NotifyWipe
<1>3. \A v \in Workers \ {w} : wpc'[v] = wpc[v] /\ wtask'[v] = wtask[v]
  BY <1>1 DEF WorkerStep, PoolTake, NotifyLock, NotifyTest, NotifyClaim, NotifyBuild,
        NotifyPush, NotifyWipe, Finish
<1>4. \A v \in Workers : wpc[v] # "idle" => Task(v) \in SubReqs
  BY TaskStable
<1>5. \A v \in Workers \ {w} : wpc[v] # "idle" => Task(v)' = Task(v)
  BY <1>2, <1>3, TaskStable
<1>6. wpc[w] # "idle" /\ wtask'[w] = wtask[w] => Task(w)' = r
  BY <1>0, <1>2, TaskStable
<1>7. None \notin Workers
  BY PoolAssumption
<1>8. ASSUME NEW s \in SubReqs
      PROVE  /\ Cardinality(Claims(s)) \in Nat /\ IsFiniteSet(Claims(s))
             /\ notified[s] + Cardinality(Claims(s)) + (IF iftrigure[s] THEN 1 ELSE 0)
                  <= triggers[s]
  BY ClaimsFinite DEF ClaimInv, NotifyBounded
<1>9. ASSUME UNCHANGED <<iftrigure, notified>>, \A s \in SubReqs : Claims(s)' = Claims(s)
      PROVE  NotifyBounded'
  BY <1>2, <1>9 DEF ClaimInv, NotifyBounded
<1>10. ASSUME wpc[w] \notin {"build", "push"}, wpc'[w] \notin {"build", "push"}
       PROVE  \A s \in SubReqs : Claims(s)' = Claims(s)
  BY <1>3, <1>5, <1>10 DEF Claims
<1>11. CASE PoolTake(w)
  <2>1. UNCHANGED <<iftrigure, notified, pswmtx>> /\ wpc[w] = "idle" /\ wpc'[w] = "lock"
    BY <1>1, <1>11 DEF PoolTake
  <2>2. ClaimSafe'
    BY <1>3, <1>5, <2>1 DEF ClaimInv, ClaimSafe
  <2> QED
    BY <1>9, <1>10, <2>1, <2>2 DEF ClaimInv
<1>12. CASE NotifyLock(w)
  <2>1. /\ UNCHANGED <<iftrigure, notified, wtask>>
        /\ wpc[w] = "lock" /\ wpc'[w] = "test"
        /\ pswmtx[r] = None /\ pswmtx' = [pswmtx EXCEPT ![r] = w]
    BY <1>0, <1>1, <1>12 DEF NotifyLock
  <2>2. r \in SubReqs /\ Task(w)' = r
    BY <1>0, <1>4, <1>6, <2>1
  <2>3. ClaimSafe'
    BY <1>1, <1>3, <1>4, <1>5, <1>7, <2>1, <2>2 DEF ClaimInv, ClaimSafe
  <2> QED
    BY <1>9, <1>10, <2>1, <2>3 DEF ClaimInv
<1>13. CASE NotifyTest(w)
  <2>1. CASE ~ iftrigure[r]
    <3>1. /\ UNCHANGED <<iftrigure, notified>>
          /\ wpc[w] = "test" /\ wpc'[w] = "idle"
          /\ pswmtx' = [pswmtx EXCEPT ![r] = None]
      BY <1>0, <1>1, <1>13, <2>1 DEF NotifyTest, Finish
    <3>2. pswmtx[r] = w /\ r \in SubReqs
      BY <1>0, <1>4, <3>1 DEF ClaimInv, ClaimSafe
    <3>3. ClaimSafe'
      BY <1>1, <1>3, <1>4, <1>5, <3>1, <3>2 DEF ClaimInv, ClaimSafe
    <3> QED
      BY <1>9, <1>10, <3>1, <3>3 DEF ClaimInv
  <2>2. CASE iftrigure[r]
    <3>1. /\ UNCHANGED <<iftrigure, notified, pswmtx, wtask>>
          /\ wpc[w] = "test" /\ wpc'[w] = "claim"
      BY <1>0, <1>1, <1>13, <2>2 DEF NotifyTest
    <3>2. Task(w)' = r /\ pswmtx[r] = w
      BY <1>0, <1>6, <3>1 DEF ClaimInv, ClaimSafe
    <3>3. ClaimSafe'
      BY <1>3, <1>5, <2>2, <3>1, <3>2 DEF ClaimInv, ClaimSafe
    <3> QED
      BY <1>9, <1>10, <3>1, <3>3 DEF ClaimInv
  <2> QED
    BY <2>1, <2>2
<1>14. CASE NotifyClaim(w)
  <2>1. /\ iftrigure' = [iftrigure EXCEPT ![r] = FALSE]
        /\ pswmtx' = [pswmtx EXCEPT ![r] = None]
        /\ wpc[w] = "claim" /\ wpc'[w] = "build"
        /\ UNCHANGED <<notified, wtask>>
    BY <1>0, <1>1, <1>14 DEF NotifyClaim
  <2>2. pswmtx[r] = w /\ iftrigure[r] /\ r \in SubReqs /\ Task(w)' = r
    BY <1>0, <1>4, <1>6, <2>1 DEF ClaimInv, ClaimSafe
  <2>3. ClaimSafe'
    BY <1>1, <1>3, <1>4, <1>5, <2>1, <2>2 DEF ClaimInv, ClaimSafe
  <2>4. \A s \in SubReqs \ {r} : Claims(s)' = Claims(s)
    BY <1>0, <1>3, <1>5, <2>1, <2>2 DEF Claims
  <2>5. Claims(r)' = Claims(r) \cup {w} /\ w \notin Claims(r)
    BY <1>0, <1>3, <1>5, <2>1, <2>2 DEF Claims
  <2>6. Cardinality(Claims(r)') = Cardinality(Claims(r)) + 1
    BY <1>8, <2>2, <2>5, FS_AddElement
  <2>7. ASSUME NEW s \in SubReqs
        PROVE (notified[s] + Cardinality(Claims(s)) + (IF iftrigure[s] THEN 1 ELSE 0)
                  <= triggers[s])'
    <3>1. CASE s = r
      BY <1>1, <1>2, <1>8, <2>1, <2>2, <2>6, <3>1
    <3>2. CASE s # r
      BY <1>1, <1>2, <1>8, <2>1, <2>4, <3>2
    <3> QED
      BY <3>1, <3>2
  <2> QED
    BY <2>3, <2>7 DEF ClaimInv, NotifyBounded
<1>15. CASE NotifyBuild(w)
  <2>1. /\ UNCHANGED <<iftrigure, notified, pswmtx, wtask>>
        /\ wpc[w] = "build" /\ wpc'[w] = "push"
    BY <1>1, <1>15 DEF NotifyBuild
  <2>2. \A s \in SubReqs : Claims(s)' = Claims(s)
    BY <1>0, <1>3, <1>5, <1>6, <2>1 DEF Claims
  <2>3. ClaimSafe'
    BY <1>3, <1>5, <2>1 DEF ClaimInv, ClaimSafe
  <2> QED
    BY <1>9, <2>1, <2>2, <2>3 DEF ClaimInv
<1>16. CASE NotifyPush(w)
  <2>1. /\ notified' = [notified EXCEPT ![r] = @ + 1]
        /\ UNCHANGED <<iftrigure, pswmtx>>
        /\ wpc[w] = "push" /\ wpc'[w] \in {"wipe", "idle"}
    BY <1>0, <1>1, <1>16 DEF NotifyPush, Finish
  <2>2. r \in SubReqs
    BY <1>0, <1>4, <2>1
  <2>3. ClaimSafe'
    BY <1>3, <1>5, <2>1 DEF ClaimInv, ClaimSafe
  <2>4. \A s \in SubReqs \ {r} : Claims(s)' = Claims(s)
    BY <1>0, <1>3, <1>5, <2>1 DEF Claims
  <2>5. Claims(r)' = Claims(r) \ {w} /\ w \in Claims(r)
    BY <1>0, <1>3, <1>5, <2>1 DEF Claims
  <2>6. Cardinality(Claims(r)') = Cardinality(Claims(r)) - 1
    BY <1>8, <2>2, <2>5, FS_RemoveElement
  <2>7. ASSUME NEW s \in SubReqs
        PROVE (notified[s] + Cardinality(Claims(s)) + (IF iftrigure[s] THEN 1 ELSE 0)
                  <= triggers[s])'
    <3>1. CASE s = r
      BY <1>1, <1>2, <1>8, <2>1, <2>6, <3>1
    <3>2. CASE s # r
      BY <1>1, <1>2, <1>8, <2>1, <2>4, <3>2
    <3> QED
      BY <3>1, <3>2
  <2> QED
    BY <2>3, <2>7 DEF ClaimInv, NotifyBounded
<1>17. CASE NotifyWipe(w)
  <2>1. /\ UNCHANGED <<iftrigure, notified, pswmtx>>
        /\ wpc[w] = "wipe" /\ wpc'[w] = "idle"
    BY <1>1, <1>17 DEF NotifyWipe, Finish
  <2>2. ClaimSafe'
    BY <1>3, <1>5, <2>1 DEF ClaimInv, ClaimSafe
  <2> QED
    BY <1>9, <1>10, <2>1, <2>2 DEF ClaimInv
<1> QED
  BY <1>11, <1>12, <1>13, <1>14, <1>15, <1>16, <1>17 DEF WorkerStep

LEMMA ClaimStep == ASSUME TypeInv, ClaimInv, [Next]_vars PROVE ClaimInv'
<1> USE DEF mapVars, trigVars, mtxVars, subVars, pubVars, poolVars, drainVars, obsVars
<1>1. ASSUME NEW s \in SubReqs, SubStep(s) PROVE ClaimInv'
  BY <1>1, ClaimFrame DEF SubStep, SubCall, SubIndex, SubInsert
<1>2. ASSUME NEW p \in PubReqs, PubStep(p) PROVE ClaimInv'
  <2>1. CASE PubSetFlag(p)
    BY <2>1, ClaimSetFlag
  <2>2. CASE PubEnqueue(p)
    <3>1. UNCHANGED <<wpc, wtask, pswmtx, iftrigure, notified, triggers>>
      BY <2>2 DEF PubEnqueue
    <3>2. \E s \in SubReqs : taskLog' = Append(taskLog, s)
      BY <2>2 DEF PubEnqueue, TypeInv, TypeOK, HandlerTypes
    <3> QED
      BY <3>1, <3>2, ClaimFrame
  <2>3. CASE \/ PubCall(p) \/ PubEvent(p) \/ PubIndex(p) \/ PubClient(p) \/ PubInit(p) \/ PubStore(p)
             \/ PubMatch(p) \/ PubSetMeta(p) \/ PubNotify(p) \/ PubNotifyIndex(p)
             \/ PubResult(p)
    BY <2>3, ClaimFrame DEF PubCall, PubEvent, PubIndex, PubClient, PubInit, PubStore, PubMatch,
        PubSetMeta, PubNotify, PubNotifyIndex, PubResult
  <2> QED
    BY <1>2, <2>1, <2>2, <2>3 DEF PubStep
<1>3. CASE CheckStep \/ DrainStep
  BY <1>3, ClaimFrame DEF CheckStep, CheckLock, CheckGet, DrainStep, DrainSize, DrainFront,
        DrainPop
<1>4. CASE UNCHANGED vars
  BY <1>4, ClaimFrame DEF vars
<1> QED
  BY <1>1, <1>2, <1>3, <1>4, ClaimWorker DEF Next, Poll

LEMMA InitClaim == Init => ClaimInv
<1> SUFFICES ASSUME Init PROVE ClaimInv
  OBVIOUS
<1>1. ClaimSafe
  BY DEF Init, ClaimSafe
<1>2. \A s : Claims(s) = {}
  BY DEF Init, Claims
<1>3. ASSUME NEW s \in SubReqs
      PROVE  notified[s] = 0 /\ triggers[s] = 0 /\ ~ iftrigure[s]
             /\ Cardinality(Claims(s)) = 0
  BY <1>2, FS_EmptySet DEF Init
<1>4. NotifyBounded
  BY <1>3 DEF NotifyBounded
<1> QED
  BY <1>1, <1>4 DEF ClaimInv

(* "avoid notify multiple times": for any number of calls and pool threads *)
(* a client gets no more notifications than it was triggered.  The         *)
(* argument rests on the wrapper's mutex: between the test of iftrigure    *)
(* and its reset only its holder can reset it.                             *)
THEOREM NoExtraNotification == Spec => []NotifyBounded
<1>1. Init => ClaimInv
  BY InitClaim
<1>2. TypeInv /\ ClaimInv /\ [Next]_vars => ClaimInv'
  BY ClaimStep
<1>3. ClaimInv => NotifyBounded
  BY DEF ClaimInv
<1> QED
  BY <1>1, <1>2, <1>3, TypeInvariant, PTL DEF Spec

-----------------------------------------------------------------------------
(* Metadata before the flag *)

LEMMA RegisteredWrapper ==
    ASSUME TypeInv, StillRegistered, NEW p \in PubReqs, ppc[p] \in Matching
    PROVE  Registered(p) \in SubReqs
<1>1. idx[p] \in Events /\ \E t \in subtoClient[idx[p]] : SubMsg[t].client = SubMsg[psw[p]].client
  BY DEF StillRegistered, HasEntry
<1>2. Registered(p) \in subtoClient[idx[p]]
  BY <1>1 DEF Registered
<1> QED
  BY <1>1, <1>2 DEF TypeInv, TypeOK, MapTypes

(* A wrapper that got metadata keeps some: it is only ever overwritten. *)
LEMMA MetadataKept ==
    ASSUME TypeInv, StillRegistered, [Next]_vars
    PROVE  \A s \in SubReqs : pubMetadata[s] # None => pubMetadata'[s] # None
<1> USE DEF trigVars
<1>1. ASSUME NEW p \in PubReqs, PubSetMeta(p)
      PROVE  \A s \in SubReqs : pubMetadata[s] # None => pubMetadata'[s] # None
  BY <1>1, PoolAssumption DEF PubSetMeta, TypeInv, TypeOK, WrapperTypes
<1>2. CASE \E s \in SubReqs : SubStep(s)
  BY <1>2 DEF SubStep, SubCall, SubIndex, SubInsert
<1>3. CASE \E p \in PubReqs : PubStep(p)
  BY <1>1, <1>3, ZenonT(60) DEF PubStep, PubCall, PubEvent, PubIndex, PubClient, PubInit, PubStore, PubMatch,
        PubSetFlag, PubNotify, PubNotifyIndex, PubEnqueue, PubResult
<1>4. CASE \E w \in Workers : WorkerStep(w)
  BY <1>4 DEF WorkerStep, PoolTake, NotifyLock, NotifyTest, NotifyClaim, NotifyBuild,
        NotifyPush, NotifyWipe
<1>5. CASE CheckStep \/ DrainStep \/ UNCHANGED vars
  BY <1>5 DEF CheckStep, CheckLock, CheckGet, DrainStep, DrainSize, DrainFront, DrainPop, vars
<1> QED
  BY <1>2, <1>3, <1>4, <1>5 DEF Next, Poll

(* Only the holder of subtoClientMtx is between the two assignments, and   *)
(* nobody changes the client's entry meanwhile.                            *)
LEMMA FlagStep ==
    ASSUME TypeInv, StillRegistered, FlagReady, [Next]_vars PROVE FlagReady'
<1> USE DEF mapVars, mtxVars, pubVars
<1>1. ASSUME UNCHANGED <<subtoClient, subtoClientMtx, ppc, idx, psw>> PROVE FlagReady'
  <2> SUFFICES ASSUME NEW p \in PubReqs, ppc'[p] = "setflag"
               PROVE  subtoClientMtx' = p /\ (pubMetadata[Registered(p)] # None)'
    BY DEF FlagReady
  <2>1. ppc[p] = "setflag" /\ Registered(p)' = Registered(p)
    BY <1>1 DEF Registered
  <2>2. Registered(p) \in SubReqs
    BY <2>1, RegisteredWrapper DEF Matching
  <2> QED
    BY <1>1, <2>1, <2>2, MetadataKept DEF FlagReady
<1>2. ASSUME NEW s \in SubReqs, SubInsert(s) PROVE FlagReady'
  BY <1>2, PoolAssumption DEF SubInsert, FlagReady
<1>3. ASSUME NEW p \in PubReqs, PubStep(p) PROVE FlagReady'
  <2>1. UNCHANGED subtoClient
    BY <1>3 DEF PubStep, PubCall, PubEvent, PubIndex, PubClient, PubInit, PubStore, PubMatch,
        PubSetMeta, PubSetFlag, PubNotify, PubNotifyIndex, PubEnqueue, PubResult
  <2>2. ASSUME NEW q \in PubReqs, q # p
        PROVE  ppc'[q] = ppc[q] /\ idx'[q] = idx[q] /\ psw'[q] = psw[q]
    BY <1>3, <2>2 DEF PubStep, PubCall, PubEvent, PubIndex, PubClient, PubInit, PubStore, PubMatch,
        PubSetMeta, PubSetFlag, PubNotify, PubNotifyIndex, PubEnqueue, PubResult, Advance,
        AdvanceNotify, TypeInv, TypeOK, HandlerTypes
  <2>3. CASE PubSetMeta(p)
    <3>1. /\ subtoClientMtx = None /\ subtoClientMtx' = p
          /\ ppc[p] = "setmeta" /\ UNCHANGED <<idx, psw>>
          /\ pubMetadata' = [pubMetadata EXCEPT ![Registered(p)] = p]
      BY <2>3 DEF PubSetMeta
    <3>2. Registered(p) \in SubReqs
      BY <3>1, RegisteredWrapper DEF Matching
    <3>3. Registered(p)' = Registered(p)
      BY <2>1, <3>1 DEF Registered
    <3>4. (pubMetadata[Registered(p)] # None)'
      BY <3>1, <3>2, <3>3, PoolAssumption DEF TypeInv, TypeOK, WrapperTypes
    <3>5. ASSUME NEW q \in PubReqs, q # p PROVE ppc'[q] # "setflag"
      BY <2>2, <3>1, <3>5, PoolAssumption DEF FlagReady
    <3> QED
      BY <3>1, <3>4, <3>5 DEF FlagReady
  <2>4. CASE PubSetFlag(p)
    <3>1. ppc'[p] # "setflag" /\ subtoClientMtx = p
      BY <2>4 DEF PubSetFlag, Advance, FlagReady, TypeInv, TypeOK, HandlerTypes
    <3>2. ASSUME NEW q \in PubReqs, q # p PROVE ppc'[q] # "setflag"
      BY <2>2, <3>1, <3>2 DEF FlagReady
    <3> QED
      BY <3>1, <3>2 DEF FlagReady
  <2>5. CASE ~ PubSetMeta(p) /\ ~ PubSetFlag(p)
    <3>1. UNCHANGED subtoClientMtx /\ ppc'[p] # "setflag"
      BY <1>3, <2>5, ZenonT(60) DEF PubStep, PubCall, PubEvent, PubIndex, PubClient, PubInit, PubStore, PubMatch,
        PubNotify, PubNotifyIndex, PubEnqueue, PubResult, Advance, AdvanceNotify, TypeInv,
        TypeOK, HandlerTypes
    <3>2. ASSUME NEW q \in PubReqs, q # p, ppc'[q] = "setflag"
          PROVE  subtoClientMtx' = q /\ (pubMetadata[Registered(q)] # None)'
      <4>1. ppc[q] = "setflag" /\ Registered(q)' = Registered(q)
        BY <2>1, <2>2, <3>2 DEF Registered
      <4>2. Registered(q) \in SubReqs
        BY <4>1, RegisteredWrapper DEF Matching
      <4> QED
        BY <3>1, <4>1, <4>2, MetadataKept DEF FlagReady
    <3> QED
      BY <3>1, <3>2 DEF FlagReady
  <2> QED
    BY <2>3, <2>4, <2>5
<1>4. CASE \E s \in SubReqs : SubCall(s) \/ SubIndex(s)
  BY <1>1, <1>4 DEF SubCall, SubIndex
<1>5. CASE (\E w \in Workers : WorkerStep(w)) \/ CheckStep \/ DrainStep \/ UNCHANGED vars
  <2>1. UNCHANGED <<subtoClient, subtoClientMtx, ppc, idx, psw>>
    BY <1>5 DEF WorkerStep, PoolTake, NotifyLock, NotifyTest, NotifyClaim, NotifyBuild,
        NotifyPush, NotifyWipe, CheckStep, CheckLock, CheckGet, DrainStep, DrainSize,
        DrainFront, DrainPop, vars
  <2> QED
    BY <1>1, <2>1
<1> QED
  BY <1>2, <1>3, <1>4, <1>5 DEF Next, SubStep, Poll

(* A pool thread that is building a NotifyInfo finds metadata. *)
LEMMA ClaimReadyStep ==
    ASSUME TypeInv, StillRegistered, ClaimSafe, FlagReady, ClaimReady, [Next]_vars
    PROVE  ClaimReady'
<1> USE DEF trigVars, poolVars
<1>1. /\ pubMetadata \in [SubReqs -> PubReqs \cup {None}] /\ iftrigure \in [SubReqs -> BOOLEAN]
      /\ wpc \in [Workers -> WorkerLocations] /\ ninfo \in [Workers -> PubReqs \cup {None}]
      /\ wtask \in [Workers -> Nat]
  BY DEF TypeInv, TypeOK, WrapperTypes, PoolTypes
<1>2. \A s \in SubReqs : pubMetadata[s] # None => pubMetadata'[s] # None
  BY MetadataKept
<1>3. \A w \in Workers : wpc[w] # "idle" => Task(w) \in SubReqs
  BY TaskStable
<1>4. ASSUME UNCHANGED <<wpc, wtask, ninfo>>,
             taskLog' = taskLog \/ \E s \in SubReqs : taskLog' = Append(taskLog, s),
             \A s \in SubReqs : iftrigure'[s] => iftrigure[s] \/ pubMetadata[s] # None
      PROVE  ClaimReady'
  <2>1. \A w \in Workers : wpc[w] # "idle" => Task(w)' = Task(w)
    BY <1>4, TaskStable
  <2> QED
    BY <1>2, <1>3, <1>4, <2>1 DEF ClaimReady
<1>5. CASE \E s \in SubReqs : SubStep(s)
  <2>1. UNCHANGED <<wpc, wtask, ninfo, taskLog, iftrigure>>
    BY <1>5 DEF SubStep, SubCall, SubIndex, SubInsert
  <2> QED
    BY <1>4, <2>1
<1>6. ASSUME NEW p \in PubReqs, PubStep(p) PROVE ClaimReady'
  <2>1. CASE PubSetFlag(p)
    <3>1. /\ UNCHANGED <<wpc, wtask, ninfo, taskLog>>
          /\ iftrigure' = [iftrigure EXCEPT ![Registered(p)] = TRUE]
          /\ pubMetadata[Registered(p)] # None
      BY <2>1 DEF PubSetFlag, FlagReady
    <3>2. \A s \in SubReqs : iftrigure'[s] => iftrigure[s] \/ pubMetadata[s] # None
      BY <1>1, <3>1
    <3> QED
      BY <1>4, <3>1, <3>2
  <2>2. CASE PubEnqueue(p)
    <3>1. UNCHANGED <<wpc, wtask, ninfo, iftrigure>>
      BY <2>2 DEF PubEnqueue
    <3>2. \E s \in SubReqs : taskLog' = Append(taskLog, s)
      BY <2>2 DEF PubEnqueue, TypeInv, TypeOK, HandlerTypes
    <3> QED
      BY <1>4, <3>1, <3>2
  <2>3. CASE ~ PubSetFlag(p) /\ ~ PubEnqueue(p)
    <3>1. UNCHANGED <<wpc, wtask, ninfo, taskLog, iftrigure>>
      BY <1>6, <2>3 DEF PubStep, PubCall, PubEvent, PubIndex, PubClient, PubInit, PubStore, PubMatch,
        PubSetMeta, PubNotify, PubNotifyIndex, PubResult
    <3> QED
      BY <1>4, <3>1
  <2> QED
    BY <2>1, <2>2, <2>3
<1>7. ASSUME NEW w \in Workers, WorkerStep(w) PROVE ClaimReady'
  <2>1. /\ taskLog' = taskLog /\ pubMetadata' = pubMetadata
        /\ \A s \in SubReqs : iftrigure'[s] => iftrigure[s]
    BY <1>1, <1>7 DEF WorkerStep, PoolTake, NotifyLock, NotifyTest, NotifyClaim, NotifyBuild,
        NotifyPush, NotifyWipe
  <2>2. \A v \in Workers \ {w} :
          wpc'[v] = wpc[v] /\ wtask'[v] = wtask[v] /\ ninfo'[v] = ninfo[v]
    BY <1>1, <1>7 DEF WorkerStep, PoolTake, NotifyLock, NotifyTest, NotifyClaim, NotifyBuild,
        NotifyPush, NotifyWipe, Finish
  <2>3. \A v \in Workers \ {w} : wpc[v] # "idle" => Task(v)' = Task(v)
    BY <2>1, <2>2, TaskStable
  <2>4. CASE NotifyClaim(w)
    <3>1. wpc[w] = "claim" /\ wpc'[w] = "build" /\ wtask' = wtask
      BY <1>1, <2>4 DEF NotifyClaim
    <3>2. iftrigure[Task(w)] /\ Task(w)' = Task(w) /\ Task(w) \in SubReqs
      BY <1>3, <2>1, <3>1, TaskStable DEF ClaimSafe
    <3> QED
      BY <2>1, <2>2, <2>3, <3>1, <3>2 DEF ClaimReady
  <2>5. CASE NotifyBuild(w)
    <3>1. /\ wpc[w] = "build" /\ wpc'[w] = "push"
          /\ ninfo'[w] = pubMetadata[Task(w)]
      BY <1>1, <2>5 DEF NotifyBuild
    <3> QED
      BY <2>1, <2>2, <2>3, <3>1 DEF ClaimReady
  <2>6. CASE ~ NotifyClaim(w) /\ ~ NotifyBuild(w)
    <3>1. wpc'[w] \notin {"build", "push"}
      BY <1>1, <1>7, <2>6 DEF WorkerStep, PoolTake, NotifyLock, NotifyTest, NotifyPush,
        NotifyWipe, Finish
    <3> QED
      BY <2>1, <2>2, <2>3, <3>1 DEF ClaimReady
  <2> QED
    BY <2>4, <2>5, <2>6
<1>8. CASE CheckStep \/ DrainStep \/ UNCHANGED vars
  <2>1. UNCHANGED <<wpc, wtask, ninfo, taskLog, iftrigure>>
    BY <1>8 DEF CheckStep, CheckLock, CheckGet, DrainStep, DrainSize, DrainFront, DrainPop, vars
  <2> QED
    BY <1>4, <2>1
<1> QED
  BY <1>5, <1>6, <1>7, <1>8 DEF Next, Poll

LEMMA QueueReadyStep ==
    ASSUME TypeInv, ClaimReady, QueueReady, [Next]_vars PROVE QueueReady'
<1> USE DEF drainVars
<1>1. notifyQueue \in Seq(NotifyInfo) /\ started \in Seq(NotifyInfo)
  BY DEF TypeInv, TypeOK, QueueTypes, HistoryTypes
<1>2. CASE UNCHANGED <<notifyQueue, started>>
  BY <1>2 DEF QueueReady
<1>3. ASSUME NEW w \in Workers, NotifyPush(w) PROVE QueueReady'
  <2> DEFINE n == [psw |-> Task(w), meta |-> ninfo[w]]
  <2>1. notifyQueue' = Append(notifyQueue, n) /\ started' = started /\ wpc[w] = "push"
    BY <1>3 DEF NotifyPush
  <2>2. Task(w) \in SubReqs /\ ninfo[w] \in PubReqs
    BY <2>1, TaskStable DEF ClaimReady, TypeInv, TypeOK, PoolTypes
  <2>3. n \in NotifyInfo /\ n.meta # None
    BY <2>2, PoolAssumption DEF NotifyInfo
  <2> HIDE DEF n
  <2>4. /\ Len(notifyQueue') = Len(notifyQueue) + 1
        /\ \A i \in 1 .. Len(notifyQueue) : notifyQueue'[i] = notifyQueue[i]
        /\ notifyQueue'[Len(notifyQueue) + 1] = n
        /\ notifyQueue' \in Seq(NotifyInfo)
    BY <1>1, <2>1, <2>3, AppendProperties
  <2>5. \A i \in 1 .. Len(notifyQueue') : notifyQueue'[i].meta # None
    BY <1>1, <2>3, <2>4, LenProperties DEF QueueReady
  <2> QED
    BY <2>1, <2>4, <2>5, LenProperties DEF QueueReady
<1>4. CASE DrainFront
  <2> DEFINE h == Head(notifyQueue)
  <2>1. started' = Append(started, h) /\ notifyQueue' = notifyQueue /\ notifyQueue # <<>>
    BY <1>4 DEF DrainFront
  <2>2. h \in NotifyInfo /\ h = notifyQueue[1] /\ 1 \in DOMAIN notifyQueue
    BY <1>1, <2>1, HeadTailProperties, EmptySeq, LenProperties
  <2>3. h.meta # None
    BY <2>2 DEF QueueReady
  <2> HIDE DEF h
  <2>4. /\ Len(started') = Len(started) + 1
        /\ \A i \in 1 .. Len(started) : started'[i] = started[i]
        /\ started'[Len(started) + 1] = h
        /\ started' \in Seq(NotifyInfo)
    BY <1>1, <2>1, <2>2, AppendProperties
  <2>5. \A i \in 1 .. Len(started') : started'[i].meta # None
    BY <1>1, <2>3, <2>4, LenProperties DEF QueueReady
  <2> QED
    BY <2>1, <2>4, <2>5, LenProperties DEF QueueReady
<1>5. CASE DrainPop
  <2>1. notifyQueue' = Tail(notifyQueue) /\ started' = started /\ notifyQueue # <<>>
    BY <1>5 DEF DrainPop, TypeInv, Shape, QueueShape
  <2>2. /\ Len(notifyQueue') = Len(notifyQueue) - 1
        /\ \A i \in 1 .. Len(notifyQueue') : notifyQueue'[i] = notifyQueue[i + 1]
        /\ notifyQueue' \in Seq(NotifyInfo)
    BY <1>1, <2>1, HeadTailProperties
  <2>3. \A i \in 1 .. Len(notifyQueue') : notifyQueue'[i].meta # None
    BY <1>1, <2>2, LenProperties DEF QueueReady
  <2> QED
    BY <2>1, <2>2, <2>3, LenProperties DEF QueueReady
<1>6. CASE \E s \in SubReqs : SubStep(s)
  BY <1>2, <1>6 DEF SubStep, SubCall, SubIndex, SubInsert
<1>7. CASE \E p \in PubReqs : PubStep(p)
  <2>1. UNCHANGED <<notifyQueue, started>>
    BY <1>7, ZenonT(60) DEF PubStep, PubCall, PubEvent, PubIndex, PubClient, PubInit, PubStore, PubMatch,
        PubSetMeta, PubSetFlag, PubNotify, PubNotifyIndex, PubEnqueue, PubResult
  <2> QED
    BY <1>2, <2>1
<1>8. CASE \E w \in Workers : WorkerStep(w)
  BY <1>2, <1>3, <1>8 DEF WorkerStep, PoolTake, NotifyLock, NotifyTest, NotifyClaim,
        NotifyBuild, NotifyWipe
<1>9. CASE CheckStep \/ DrainSize \/ UNCHANGED vars
  BY <1>2, <1>9 DEF CheckStep, CheckLock, CheckGet, DrainSize, vars
<1> QED
  BY <1>4, <1>5, <1>6, <1>7, <1>8, <1>9 DEF Next, DrainStep, Poll

(* What NotifyLog shows is what is in the queue and in the started tasks. *)
LEMMA LogReady == TypeInv /\ MetadataReady => NoEmptyMetadata
<1> SUFFICES ASSUME TypeInv, MetadataReady PROVE NoEmptyMetadata
  OBVIOUS
<1> DEFINE rest == IF npc = "pop" THEN Tail(notifyQueue) ELSE notifyQueue
<1>1. notifyQueue \in Seq(NotifyInfo) /\ started \in Seq(NotifyInfo)
  BY DEF TypeInv, TypeOK, QueueTypes, HistoryTypes
<1>2. rest \in Seq(NotifyInfo) /\ \A i \in 1 .. Len(rest) : rest[i].meta # None
  <2>1. CASE npc = "pop"
    <3>1. notifyQueue # <<>>
      BY <2>1 DEF TypeInv, Shape, QueueShape
    <3>2. /\ Tail(notifyQueue) \in Seq(NotifyInfo)
          /\ Len(Tail(notifyQueue)) = Len(notifyQueue) - 1
          /\ \A i \in 1 .. Len(Tail(notifyQueue)) : Tail(notifyQueue)[i] = notifyQueue[i + 1]
      BY <1>1, <3>1, HeadTailProperties
    <3> QED
      BY <1>1, <2>1, <3>2, LenProperties DEF MetadataReady, QueueReady
  <2>2. CASE npc # "pop"
    BY <1>1, <2>2, LenProperties DEF MetadataReady, QueueReady
  <2> QED
    BY <2>1, <2>2
<1>3. NotifyLog = started \o rest
  BY DEF NotifyLog
<1> HIDE DEF rest
<1>4. /\ NotifyLog \in Seq(NotifyInfo)
      /\ Len(NotifyLog) = Len(started) + Len(rest)
      /\ \A i \in 1 .. Len(started) + Len(rest) :
           NotifyLog[i] = IF i <= Len(started) THEN started[i] ELSE rest[i - Len(started)]
  BY <1>1, <1>2, <1>3, ConcatProperties
<1>5. Len(started) \in Nat /\ Len(rest) \in Nat /\ DOMAIN NotifyLog = 1 .. Len(NotifyLog)
      /\ DOMAIN started = 1 .. Len(started)
  BY <1>1, <1>2, <1>4, LenProperties
<1>6. ASSUME NEW i \in 1 .. Len(started) + Len(rest) PROVE NotifyLog[i].meta # None
  <2>1. CASE i <= Len(started)
    BY <1>4, <1>5, <2>1 DEF MetadataReady, QueueReady
  <2>2. CASE ~ (i <= Len(started))
    <3>1. i - Len(started) \in 1 .. Len(rest)
      BY <1>5, <2>2
    <3> QED
      BY <1>2, <1>4, <2>2, <3>1
  <2> QED
    BY <2>1, <2>2
<1> QED
  BY <1>4, <1>5, <1>6 DEF NoEmptyMetadata, MetadataReady, ClaimReady

(* Although checkNotify reads pubMetadata with no lock, no notification is *)
(* sent without the metadata of a triggering publication.  The argument    *)
(* rests on the order of the two assignments of pubsubPublish and on       *)
(* subtoClientMtx keeping the client's entry in place between them.        *)
THEOREM MetadataBeforeNotify == Spec => []NoEmptyMetadata
<1>1. Init => MetadataReady /\ ClaimInv
  <2>1. Init => MetadataReady
    BY DEF Init, MetadataReady, FlagReady, ClaimReady, QueueReady
  <2> QED
    BY <2>1, InitClaim
<1>2. TypeInv /\ StillRegistered /\ ClaimInv /\ MetadataReady /\ [Next]_vars
        => MetadataReady' /\ ClaimInv'
  BY FlagStep, ClaimReadyStep, QueueReadyStep, ClaimStep DEF ClaimInv, MetadataReady
<1>3. TypeInv /\ MetadataReady => NoEmptyMetadata
  BY LogReady
<1> QED
  BY <1>1, <1>2, <1>3, TypeInvariant, EntryExists, PTL DEF Spec


-----------------------------------------------------------------------------
(* Every queued notification is started, once *)

(* What is added at the end of the queue, or moved from its front to the   *)
(* end of the started tasks, in terms of the whole log.                    *)
LEMMA LogSequences ==
    ASSUME NEW a \in Seq(NotifyInfo), NEW q \in Seq(NotifyInfo), NEW n \in NotifyInfo
    PROVE  /\ a \o Append(q, n) = Append(a \o q, n)
           /\ q # <<>> => Tail(Append(q, n)) = Append(Tail(q), n)
           /\ q # <<>> => Append(a, Head(q)) \o Tail(q) = a \o q
<1>1. a \o Append(q, n) = Append(a \o q, n)
  OBVIOUS
<1>2. q # <<>> => Tail(Append(q, n)) = Append(Tail(q), n)
  OBVIOUS
<1>3. q # <<>> => Append(a, Head(q)) \o Tail(q) = a \o q
  OBVIOUS
<1> QED
  BY <1>1, <1>2, <1>3

(* How often a wrapper is in a log. *)
Times(log, s) == {i \in DOMAIN log : log[i].psw = s}

LEMMA TimesAppend ==
    ASSUME NEW log \in Seq(NotifyInfo), NEW n \in NotifyInfo, NEW s
    PROVE  /\ IsFiniteSet(Times(log, s)) /\ Cardinality(Times(log, s)) \in Nat
           /\ Cardinality(Times(Append(log, n), s)) =
                Cardinality(Times(log, s)) + (IF n.psw = s THEN 1 ELSE 0)
<1>1. /\ Len(log) \in Nat /\ DOMAIN log = 1 .. Len(log)
      /\ DOMAIN Append(log, n) = 1 .. Len(log) + 1
      /\ \A i \in 1 .. Len(log) : Append(log, n)[i] = log[i]
      /\ Append(log, n)[Len(log) + 1] = n
  OBVIOUS
<1>2. IsFiniteSet(Times(log, s)) /\ Cardinality(Times(log, s)) \in Nat
  <2>1. Times(log, s) \subseteq 1 .. Len(log)
    BY <1>1 DEF Times
  <2>2. 1 \in Int /\ Len(log) \in Int
    BY <1>1
  <2>3. IsFiniteSet(1 .. Len(log))
    BY <2>2, FS_Interval
  <2> QED
    BY <2>1, <2>3, FS_Subset, FS_CardinalityType
<1>3. CASE n.psw = s
  <2>1. Times(Append(log, n), s) = Times(log, s) \cup {Len(log) + 1}
    BY <1>1, <1>3 DEF Times
  <2>2. Len(log) + 1 \notin Times(log, s)
    BY <1>1 DEF Times
  <2> QED
    BY <1>2, <1>3, <2>1, <2>2, FS_AddElement
<1>4. CASE n.psw # s
  <2>1. Times(Append(log, n), s) = Times(log, s)
    BY <1>1, <1>4 DEF Times
  <2> QED
    BY <1>2, <1>4, <2>1
<1> QED
  BY <1>2, <1>3, <1>4

(* The log grows by what checkNotify pushes, and by nothing else. *)
LEMMA LogStep ==
    ASSUME TypeInv, [Next]_vars
    PROVE  \/ NotifyLog' = NotifyLog /\ notified' = notified
           \/ \E n \in NotifyInfo : /\ NotifyLog' = Append(NotifyLog, n)
                                    /\ notified' = [notified EXCEPT ![n.psw] = @ + 1]
<1> USE DEF drainVars
<1>1. notifyQueue \in Seq(NotifyInfo) /\ started \in Seq(NotifyInfo)
  BY DEF TypeInv, TypeOK, QueueTypes, HistoryTypes
<1>2. CASE UNCHANGED <<notifyQueue, started, npc, notified>>
  BY <1>2 DEF NotifyLog
<1>3. ASSUME NEW w \in Workers, NotifyPush(w)
      PROVE  \E n \in NotifyInfo : /\ NotifyLog' = Append(NotifyLog, n)
                                   /\ notified' = [notified EXCEPT ![n.psw] = @ + 1]
  <2> DEFINE n == [psw |-> Task(w), meta |-> ninfo[w]]
  <2>1. /\ notifyQueue' = Append(notifyQueue, n) /\ started' = started /\ npc' = npc
        /\ notified' = [notified EXCEPT ![n.psw] = @ + 1] /\ wpc[w] = "push"
    BY <1>3 DEF NotifyPush
  <2>2. n \in NotifyInfo
    BY <2>1, TaskStable DEF NotifyInfo, TypeInv, TypeOK, PoolTypes
  <2> HIDE DEF n
  <2>3. CASE npc = "pop"
    <3>1. notifyQueue # <<>> /\ Tail(notifyQueue) \in Seq(NotifyInfo)
      BY <1>1, <2>3, HeadTailProperties DEF TypeInv, Shape, QueueShape
    <3>2. Tail(notifyQueue') = Append(Tail(notifyQueue), n)
      BY <1>1, <2>1, <2>2, <3>1, LogSequences
    <3>3. NotifyLog' = started \o Append(Tail(notifyQueue), n)
      BY <2>1, <2>3, <3>2 DEF NotifyLog
    <3>4. NotifyLog' = Append(NotifyLog, n)
      BY <1>1, <2>2, <2>3, <3>1, <3>3, LogSequences DEF NotifyLog
    <3> QED
      BY <2>1, <2>2, <3>4
  <2>4. CASE npc # "pop"
    <3>1. NotifyLog' = started \o Append(notifyQueue, n)
      BY <2>1, <2>4 DEF NotifyLog
    <3>2. NotifyLog' = Append(NotifyLog, n)
      BY <1>1, <2>2, <2>4, <3>1, LogSequences DEF NotifyLog
    <3> QED
      BY <2>1, <2>2, <3>2
  <2> QED
    BY <2>3, <2>4
<1>4. CASE DrainFront
  <2>1. /\ started' = Append(started, Head(notifyQueue)) /\ notifyQueue' = notifyQueue
        /\ notifyQueue # <<>> /\ npc = "front" /\ npc' = "pop" /\ notified' = notified
    BY <1>4 DEF DrainFront
  <2>2. Head(notifyQueue) \in NotifyInfo
    BY <1>1, <2>1, HeadTailProperties
  <2>3. Append(started, Head(notifyQueue)) \o Tail(notifyQueue) = started \o notifyQueue
    BY <1>1, <2>1, <2>2, LogSequences
  <2> QED
    BY <2>1, <2>3 DEF NotifyLog
<1>5. CASE DrainPop
  <2>1. /\ notifyQueue' = Tail(notifyQueue) /\ started' = started /\ notified' = notified
        /\ npc = "pop" /\ npc' # "pop"
    BY <1>5 DEF DrainPop
  <2> QED
    BY <2>1 DEF NotifyLog
<1>6. CASE DrainSize
  <2>1. UNCHANGED <<notifyQueue, started, notified>> /\ npc = "size" /\ npc' = "front"
    BY <1>6 DEF DrainSize
  <2> QED
    BY <2>1 DEF NotifyLog
<1>7. CASE \E s \in SubReqs : SubStep(s)
  BY <1>2, <1>7 DEF SubStep, SubCall, SubIndex, SubInsert
<1>8. CASE \E p \in PubReqs : PubStep(p)
  <2>1. UNCHANGED <<notifyQueue, started, npc, notified>>
    BY <1>8, ZenonT(60) DEF PubStep, PubCall, PubEvent, PubIndex, PubClient, PubInit, PubStore, PubMatch,
        PubSetMeta, PubSetFlag, PubNotify, PubNotifyIndex, PubEnqueue, PubResult
  <2> QED
    BY <1>2, <2>1
<1>9. CASE \E w \in Workers : WorkerStep(w)
  <2>1. PICK w \in Workers : WorkerStep(w)
    BY <1>9
  <2>2. CASE NotifyPush(w)
    BY <1>3, <2>2
  <2>3. CASE ~ NotifyPush(w)
    BY <1>2, <2>1, <2>3 DEF WorkerStep, PoolTake, NotifyLock, NotifyTest, NotifyClaim,
        NotifyBuild, NotifyWipe
  <2> QED
    BY <2>2, <2>3
<1>10. CASE CheckStep \/ UNCHANGED vars
  BY <1>2, <1>10 DEF CheckStep, CheckLock, CheckGet, vars
<1> QED
  BY <1>4, <1>5, <1>6, <1>7, <1>8, <1>9, <1>10 DEF Next, DrainStep, Poll

LEMMA LogType == TypeInv => NotifyLog \in Seq(NotifyInfo)
<1> SUFFICES ASSUME TypeInv PROVE NotifyLog \in Seq(NotifyInfo)
  OBVIOUS
<1>1. notifyQueue \in Seq(NotifyInfo) /\ started \in Seq(NotifyInfo)
  BY DEF TypeInv, TypeOK, QueueTypes, HistoryTypes
<1>2. CASE npc = "pop"
  BY <1>1, <1>2, HeadTailProperties, ConcatProperties DEF NotifyLog, TypeInv, Shape, QueueShape
<1>3. CASE npc # "pop"
  BY <1>1, <1>3, ConcatProperties DEF NotifyLog
<1> QED
  BY <1>2, <1>3

(* getElementFromNotifyQ reads the front of the queue without nqmutex and  *)
(* pops it under it, after the task was started, while any number of pool  *)
(* threads push: each notification that checkNotify queued is started or   *)
(* still to be started, once.                                              *)
THEOREM NotificationStartedOnce == Spec => []StartedOnce
<1>1. Init => StartedOnce
  <2> SUFFICES ASSUME Init, NEW s \in SubReqs
               PROVE  Cardinality({i \in DOMAIN NotifyLog : NotifyLog[i].psw = s}) = notified[s]
    BY DEF StartedOnce
  <2>1. NotifyLog = <<>> /\ notified[s] = 0
    BY DEF Init, NotifyLog
  <2>2. {i \in DOMAIN NotifyLog : NotifyLog[i].psw = s} = {}
    BY <2>1
  <2> QED
    BY <2>1, <2>2, FS_EmptySet
<1>2. TypeInv /\ StartedOnce /\ [Next]_vars => StartedOnce'
  <2> SUFFICES ASSUME TypeInv, StartedOnce, [Next]_vars, NEW s \in SubReqs
               PROVE  Cardinality(Times(NotifyLog', s)) = notified'[s]
    BY DEF StartedOnce, Times
  <2>1. NotifyLog \in Seq(NotifyInfo) /\ notified \in [SubReqs -> Nat]
    BY LogType DEF TypeInv, TypeOK, HistoryTypes
  <2>2. Cardinality(Times(NotifyLog, s)) = notified[s]
    BY DEF StartedOnce, Times
  <2>3. CASE NotifyLog' = NotifyLog /\ notified' = notified
    BY <2>2, <2>3
  <2>4. ASSUME NEW n \in NotifyInfo, NotifyLog' = Append(NotifyLog, n),
               notified' = [notified EXCEPT ![n.psw] = @ + 1]
        PROVE  Cardinality(Times(NotifyLog', s)) = notified'[s]
    <3>1. Cardinality(Times(NotifyLog', s)) = notified[s] + (IF n.psw = s THEN 1 ELSE 0)
      BY <2>1, <2>2, <2>4, TimesAppend
    <3> QED
      BY <2>1, <2>4, <3>1
  <2> QED
    BY <2>3, <2>4, LogStep
<1> QED
  BY <1>1, <1>2, TypeInvariant, PTL DEF Spec


-----------------------------------------------------------------------------
(* No subscription is passed over *)

(* What addNewClient has indexed: the events before its position, all of   *)
(* them once its loop is over.                                             *)
Indexed(s, i) == IndexEvent(s) \in getIndexMap[SubMsg[s].events[i].event]

IndexInv ==
    \A s \in SubReqs :
        /\ spc[s] = "new" => spos[s] = 1
        /\ spc[s] \in {"index", "insert"} => SubMsg[s].client # ""
        /\ spc[s] = "index" =>
             /\ spos[s] <= Len(SubMsg[s].events)
             /\ \A i \in 1 .. Len(SubMsg[s].events) : i < spos[s] => Indexed(s, i)
        /\ (spc[s] = "insert" \/ (spc[s] = "done" /\ SubMsg[s].client # "")) =>
             \A i \in 1 .. Len(SubMsg[s].events) : Indexed(s, i)

KnownInv ==
    \A p \in PubReqs :
        /\ ppc[p] = "new" => known[p] = {}
        /\ \A s \in known[p] : spc[s] = "done" /\ SubMsg[s].client # ""

(* Wrapper s is owed a visit for position i of publication p. *)
Owed(p, s, i) ==
    /\ s \in known[p]
    /\ s \in subtoClient[IndexEvent(s)]
    /\ PubMsg[p].events[i] \in {r.event : r \in requiredeventMap(s)}

(* The positions that p has left behind are settled; at its own position   *)
(* what is owed is still in the copies that its loops walk.                *)
Settled(p) ==
    \A s \in SubReqs, i \in DOMAIN PubMsg[p].events :
        Owed(p, s, i) =>
            /\ i < pos[p] => <<i, s>> \in visited[p]
            /\ i = pos[p] /\ ppc[p] = "index" =>
                 <<i, s>> \in visited[p] \/ IndexEvent(s) \in idxs[p]
            /\ i = pos[p] /\ ppc[p] \in Matching \cup {"client"} =>
                 <<i, s>> \in visited[p] \/ IndexEvent(s) \in idxs[p] \/ s \in inner[p]

ReachInv == IndexInv /\ KnownInv /\ \A p \in PubReqs : Settled(p)

(* Where Advance leaves the handler, by what is left of its loops. *)
LEMMA AdvanceCases ==
    ASSUME NEW p, NEW cs, NEW es, Advance(p, cs, es)
    PROVE  \/ cs # {} /\ pos' = pos /\ ppc' = [ppc EXCEPT ![p] = "client"]
           \/ cs = {} /\ es # {} /\ pos' = pos /\ ppc' = [ppc EXCEPT ![p] = "index"]
           \/ /\ cs = {} /\ es = {}
              /\ pos' = [pos EXCEPT ![p] = pos[p] + 1]
              /\ \/ ppc' = [ppc EXCEPT ![p] = "event"]
                 \/ ppc' = [ppc EXCEPT ![p] = "notify"]
  BY DEF Advance

(* A step of one handler leaves the local state of the others alone. *)
LEMMA OtherHandlers ==
    ASSUME TypeInv, NEW p \in PubReqs, PubStep(p), NEW q \in PubReqs, q # p
    PROVE  /\ ppc'[q] = ppc[q] /\ pos'[q] = pos[q] /\ idxs'[q] = idxs[q] /\ idx'[q] = idx[q]
           /\ inner'[q] = inner[q] /\ psw'[q] = psw[q] /\ val'[q] = val[q]
           /\ known'[q] = known[q] /\ visited'[q] = visited[q]
<1> USE DEF TypeInv, TypeOK, HandlerTypes, HistoryTypes, pubVars, obsVars
<1>1. CASE PubCall(p) \/ PubEvent(p) \/ PubIndex(p)
  BY <1>1, ZenonT(60) DEF PubCall, PubEvent, PubIndex, Advance
<1>2. CASE PubClient(p)
  BY <1>2 DEF PubClient, Advance
<1>3. CASE PubInit(p) \/ PubStore(p) \/ PubMatch(p) \/ PubSetMeta(p) \/ PubSetFlag(p)
  BY <1>3 DEF PubInit, PubStore, PubMatch, PubSetMeta, PubSetFlag, Advance
<1>4. CASE PubNotify(p) \/ PubNotifyIndex(p) \/ PubEnqueue(p) \/ PubResult(p)
  BY <1>4 DEF PubNotify, PubNotifyIndex, PubEnqueue, PubResult, AdvanceNotify
<1> QED
  BY <1>1, <1>2, <1>3, <1>4 DEF PubStep

(* The steps that are not a handler's keep the local state of all of them, *)
(* but for an increment that deletePubEvent overtakes.                     *)
LEMMA HandlersKept ==
    ASSUME [Next]_vars
    PROVE  \/ \E p \in PubReqs : PubStep(p)
           \/ UNCHANGED <<ppc, pos, idxs, idx, inner, psw, known, visited>>
<1> USE DEF pubVars, obsVars
<1>1. CASE \E s \in SubReqs : SubStep(s)
  BY <1>1 DEF SubStep, SubCall, SubIndex, SubInsert
<1>2. CASE \E w \in Workers : WorkerStep(w)
  BY <1>2 DEF WorkerStep, PoolTake, NotifyLock, NotifyTest, NotifyClaim, NotifyBuild,
        NotifyPush, NotifyWipe
<1>3. CASE CheckStep \/ DrainStep \/ UNCHANGED vars
  BY <1>3 DEF CheckStep, CheckLock, CheckGet, DrainStep, DrainSize, DrainFront, DrainPop, vars
<1> QED
  BY <1>1, <1>2, <1>3 DEF Next, Poll

(* Only a Subscribe changes the index, the clients and its own control. *)
LEMMA SubscribersKept ==
    ASSUME [Next]_vars
    PROVE  \/ \E s \in SubReqs : SubStep(s)
           \/ UNCHANGED <<getIndexMap, subtoClient, spc, spos>>
<1> USE DEF mapVars, subVars
<1>1. ASSUME NEW p \in PubReqs, PubStep(p) PROVE UNCHANGED <<getIndexMap, subtoClient, spc, spos>>
  <2>1. CASE PubCall(p) \/ PubEvent(p) \/ PubIndex(p) \/ PubClient(p)
    BY <2>1 DEF PubCall, PubEvent, PubIndex, PubClient
  <2>2. CASE PubInit(p) \/ PubStore(p) \/ PubMatch(p) \/ PubSetMeta(p) \/ PubSetFlag(p)
    BY <2>2 DEF PubInit, PubStore, PubMatch, PubSetMeta, PubSetFlag
  <2>3. CASE PubNotify(p) \/ PubNotifyIndex(p) \/ PubEnqueue(p) \/ PubResult(p)
    BY <2>3 DEF PubNotify, PubNotifyIndex, PubEnqueue, PubResult
  <2> QED
    BY <1>1, <2>1, <2>2, <2>3 DEF PubStep
<1>2. CASE \E w \in Workers : WorkerStep(w)
  BY <1>2 DEF WorkerStep, PoolTake, NotifyLock, NotifyTest, NotifyClaim, NotifyBuild,
        NotifyPush, NotifyWipe
<1>3. CASE CheckStep \/ DrainStep \/ UNCHANGED vars
  BY <1>3 DEF CheckStep, CheckLock, CheckGet, DrainStep, DrainSize, DrainFront, DrainPop, vars
<1> QED
  BY <1>1, <1>2, <1>3 DEF Next, Poll

LEMMA RequiredEvent ==
    ASSUME NEW s \in SubReqs, NEW i \in 1 .. Len(SubMsg[s].events)
    PROVE  SubMsg[s].events[i] \in requiredeventMap(s) /\ SubMsg[s].events[i].event \in Events
<1> DEFINE R == [event : Events, num : Nat]
           evs == SubMsg[s].events
<1>1. evs \in Seq(R)
  BY MsgFacts
<1>2. evs[i] \in R /\ i \in DOMAIN evs
  <2> HIDE DEF R, evs
  <2>1. i \in 1 .. Len(evs)
    BY DEF evs
  <2> QED
    BY <1>1, <2>1, ElementOfSeq, LenProperties
<1> QED
  BY <1>2 DEF requiredeventMap

(* One round of the loop of addNewClient over the event list. *)
LEMMA IndexRound ==
    ASSUME TypeInv, IndexInv, NEW s \in SubReqs, SubIndex(s)
    PROVE  /\ spos[s] \in 1 .. Len(SubMsg[s].events) /\ SubMsg[s].client # ""
           /\ getIndexMap' = [getIndexMap EXCEPT ![SubMsg[s].events[spos[s]].event] =
                                @ \cup {IndexEvent(s)}]
           /\ spos' = [spos EXCEPT ![s] = @ + 1]
           /\ spc' = [spc EXCEPT ![s] = IF spos[s] = Len(SubMsg[s].events)
                                        THEN "insert" ELSE "index"]
<1>1. spos[s] \in Nat \ {0} /\ Len(SubMsg[s].events) \in Nat
  BY MsgFacts, LenProperties DEF TypeInv, TypeOK, HandlerTypes
<1>2. spc[s] = "index"
  BY DEF SubIndex
<1>3. spos[s] <= Len(SubMsg[s].events) /\ SubMsg[s].client # ""
  BY <1>2 DEF IndexInv
<1>4. spos[s] \in 1 .. Len(SubMsg[s].events)
  <2>1. PICK n \in Nat, k \in Nat \ {0} : n = Len(SubMsg[s].events) /\ k = spos[s]
    BY <1>1
  <2>2. k <= n
    BY <1>3, <2>1
  <2>3. k \in 1 .. n
    BY <2>2
  <2> QED
    BY <2>1, <2>3
<1>5. /\ getIndexMap' = [getIndexMap EXCEPT ![SubMsg[s].events[spos[s]].event] =
                            @ \cup {IndexEvent(s)}]
      /\ spos' = [spos EXCEPT ![s] = @ + 1]
      /\ spc' = [spc EXCEPT ![s] = IF spos[s] = Len(SubMsg[s].events) THEN "insert" ELSE "index"]
  BY DEF SubIndex
<1> QED
  BY <1>3, <1>4, <1>5

LEMMA IndexStep == ASSUME TypeInv, IndexInv, [Next]_vars PROVE IndexInv'
<1> USE DEF TypeInv, TypeOK, HandlerTypes, MapTypes
<1> DEFINE Good(s) ==
        /\ spc[s] = "new" => spos[s] = 1
        /\ spc[s] \in {"index", "insert"} => SubMsg[s].client # ""
        /\ spc[s] = "index" =>
             /\ spos[s] <= Len(SubMsg[s].events)
             /\ \A i \in 1 .. Len(SubMsg[s].events) : i < spos[s] => Indexed(s, i)
        /\ (spc[s] = "insert" \/ (spc[s] = "done" /\ SubMsg[s].client # "")) =>
             \A i \in 1 .. Len(SubMsg[s].events) : Indexed(s, i)
<1>1. \A s \in SubReqs : Good(s)
  BY DEF IndexInv
<1>2. ASSUME UNCHANGED <<getIndexMap, spc, spos>> PROVE IndexInv'
  BY <1>1, <1>2 DEF IndexInv, Indexed
<1>3. ASSUME NEW s \in SubReqs, SubStep(s) PROVE IndexInv'
  <2>1. \A t \in SubReqs : t # s => spc'[t] = spc[t] /\ spos'[t] = spos[t]
    BY <1>3 DEF SubStep, SubCall, SubIndex, SubInsert, subVars
  <2>2. \A e \in Events : getIndexMap[e] \subseteq getIndexMap'[e]
    <3>1. CASE SubCall(s) \/ SubInsert(s)
      BY <3>1 DEF SubCall, SubInsert, mapVars
    <3>2. CASE SubIndex(s)
      <4>1. PICK f \in Events : getIndexMap' = [getIndexMap EXCEPT ![f] = @ \cup {IndexEvent(s)}]
        BY <3>2, IndexRound, RequiredEvent
      <4> QED
        BY <4>1
    <3> QED
      BY <1>3, <3>1, <3>2 DEF SubStep
  <2>3. ASSUME NEW t \in SubReqs, NEW i \in 1 .. Len(SubMsg[t].events), Indexed(t, i)
        PROVE  Indexed(t, i)'
    <3>1. SubMsg[t].events[i].event \in Events
      BY RequiredEvent
    <3> QED
      BY <2>2, <2>3, <3>1 DEF Indexed
  <2>4. ASSUME NEW t \in SubReqs, t # s PROVE Good(t)'
    BY <1>1, <2>1, <2>3, <2>4
  <2>5. Good(s)'
    <3>1. Len(SubMsg[s].events) \in Nat /\ Len(SubMsg[s].events) > 0 /\ spos[s] \in Nat
      BY MsgFacts, LenProperties
    <3>2. CASE SubCall(s)
      <4>1. spos'[s] = 1
        BY <1>1, <3>2 DEF SubCall
      <4>2. spc'[s] = IF SubMsg[s].client = "" THEN "done" ELSE "index"
        BY <3>2 DEF SubCall
      <4>3. 1 <= Len(SubMsg[s].events) /\ \A i \in 1 .. Len(SubMsg[s].events) : ~ (i < 1)
        BY <3>1
      <4> QED
        BY <4>1, <4>2, <4>3
    <3>3. CASE SubIndex(s)
      <4>1. spos[s] \in 1 .. Len(SubMsg[s].events) /\ SubMsg[s].client # ""
        BY <3>3, IndexRound
      <4>2. PICK i \in 1 .. Len(SubMsg[s].events) : i = spos[s]
        BY <4>1
      <4>3. Indexed(s, i)'
        <5>1. PICK e \in Events : e = SubMsg[s].events[i].event
          BY RequiredEvent
        <5>2. getIndexMap' = [getIndexMap EXCEPT ![e] = @ \cup {IndexEvent(s)}]
          BY <3>3, <4>2, <5>1, IndexRound
        <5>3. IndexEvent(s) \in getIndexMap'[e]
          BY <5>2
        <5> QED
          BY <5>1, <5>3 DEF Indexed
      <4>4. \A j \in 1 .. Len(SubMsg[s].events) : j < i => Indexed(s, j)'
        BY <1>1, <2>3, <3>3, <4>2 DEF SubIndex
      <4>5. /\ spos'[s] = i + 1
            /\ spc'[s] = IF i = Len(SubMsg[s].events) THEN "insert" ELSE "index"
        BY <3>3, <4>2, IndexRound, ZenonT(60)
      <4>6. \A j \in 1 .. Len(SubMsg[s].events) : j < i + 1 => Indexed(s, j)'
        BY <3>1, <4>3, <4>4, SMTT(30)
      <4>7. CASE i = Len(SubMsg[s].events)
        <5>1. \A j \in 1 .. Len(SubMsg[s].events) : Indexed(s, j)'
          BY <3>1, <4>6, <4>7
        <5> QED
          BY <4>1, <4>5, <4>7, <5>1
      <4>8. CASE i # Len(SubMsg[s].events)
        <5>1. i + 1 <= Len(SubMsg[s].events)
          BY <3>1, <4>8
        <5> QED
          BY <4>1, <4>5, <4>6, <4>8, <5>1
      <4> QED
        BY <4>7, <4>8
    <3>4. CASE SubInsert(s)
      <4>1. spc'[s] = "done" /\ spc[s] = "insert"
        BY <3>4 DEF SubInsert
      <4> QED
        BY <1>1, <2>3, <4>1
    <3> QED
      BY <1>3, <3>2, <3>3, <3>4 DEF SubStep
  <2> QED
    BY <2>4, <2>5 DEF IndexInv
<1> QED
  BY <1>2, <1>3, SubscribersKept

LEMMA KnownStep == ASSUME TypeInv, KnownInv, [Next]_vars PROVE KnownInv'
<1> USE DEF TypeInv, TypeOK, HandlerTypes, HistoryTypes
<1>1. \A s \in SubReqs : spc[s] = "done" => spc'[s] = "done"
  <2>1. CASE \E s \in SubReqs : SubStep(s)
    BY <2>1 DEF SubStep, SubCall, SubIndex, SubInsert
  <2> QED
    BY <2>1, SubscribersKept
<1>2. \A p \in PubReqs : known[p] \subseteq SubReqs
  OBVIOUS
<1>3. CASE UNCHANGED <<ppc, known>>
  BY <1>1, <1>2, <1>3 DEF KnownInv
<1>4. ASSUME NEW p \in PubReqs, PubStep(p) PROVE KnownInv'
  <2>1. UNCHANGED spc
    BY <1>4 DEF PubStep, PubCall, PubEvent, PubIndex, PubClient, PubInit, PubStore, PubMatch,
        PubSetMeta, PubSetFlag, PubNotify, PubNotifyIndex, PubEnqueue, PubResult, subVars
  <2>2. \A q \in PubReqs : q # p => ppc'[q] = ppc[q] /\ known'[q] = known[q]
    BY <1>4, OtherHandlers
  <2>3. ppc'[p] # "new" /\ \A s \in known'[p] : spc'[s] = "done" /\ SubMsg[s].client # ""
    <3>1. CASE PubCall(p)
      BY <2>1, <3>1 DEF PubCall
    <3>2. CASE known' = known /\ ppc'[p] # "new"
      BY <2>1, <3>2 DEF KnownInv
    <3>3. CASE PubEvent(p) \/ PubIndex(p) \/ PubClient(p)
      BY <3>2, <3>3 DEF PubEvent, PubIndex, PubClient, Advance, obsVars
    <3>4. CASE PubInit(p) \/ PubStore(p) \/ PubMatch(p) \/ PubSetMeta(p) \/ PubSetFlag(p)
      BY <3>2, <3>4 DEF PubInit, PubStore, PubMatch, PubSetMeta, PubSetFlag, Advance, obsVars
    <3>5. CASE PubNotify(p) \/ PubNotifyIndex(p) \/ PubEnqueue(p) \/ PubResult(p)
      BY <3>2, <3>5 DEF PubNotify, PubNotifyIndex, PubEnqueue, PubResult, AdvanceNotify, obsVars
    <3> QED
      BY <1>4, <3>1, <3>3, <3>4, <3>5 DEF PubStep
  <2> QED
    BY <2>1, <2>2, <2>3 DEF KnownInv
<1> QED
  BY <1>3, <1>4, HandlersKept

(* A subscription that was complete when p began is not inserted again:    *)
(* what is owed to it after a step was owed to it before.                  *)
LEMMA OwedBefore ==
    ASSUME TypeInv, KnownInv, [Next]_vars, NEW p \in PubReqs, NEW s \in SubReqs, NEW i,
           known'[p] = known[p], Owed(p, s, i)'
    PROVE  Owed(p, s, i)
<1> USE DEF TypeInv, TypeOK, MapTypes, HandlerTypes
<1>1. s \in known[p] /\ spc[s] = "done" /\ s \in subtoClient'[IndexEvent(s)]
  BY DEF Owed, KnownInv
<1>2. IndexEvent(s) \in Events
  BY MsgFacts
<1>3. ASSUME NEW t \in SubReqs, SubStep(t) PROVE s \in subtoClient[IndexEvent(s)]
  <2>1. CASE SubCall(t) \/ SubIndex(t)
    BY <1>1, <2>1 DEF SubCall, SubIndex, mapVars
  <2>2. CASE SubInsert(t)
    <3>1. s # t
      BY <1>1, <2>2 DEF SubInsert
    <3>2. subtoClient' = [subtoClient EXCEPT ![IndexEvent(t)] = WithClient(IndexEvent(t), t)]
      BY <2>2 DEF SubInsert
    <3>3. subtoClient'[IndexEvent(s)] \subseteq subtoClient[IndexEvent(s)] \cup {t}
      BY <1>2, <3>2 DEF WithClient
    <3> QED
      BY <1>1, <3>1, <3>3
  <2> QED
    BY <1>3, <2>1, <2>2 DEF SubStep
<1>4. s \in subtoClient[IndexEvent(s)]
  BY <1>1, <1>3, SubscribersKept
<1> QED
  BY <1>1, <1>4 DEF Owed

(* What is owed at the position of p has its index event in getIndexMap. *)
LEMMA OwedIndexed ==
    ASSUME IndexInv, KnownInv, NEW p \in PubReqs, NEW s \in SubReqs, Owed(p, s, pos[p])
    PROVE  IndexEvent(s) \in getIndexMap[Event(p)]
<1>1. spc[s] = "done" /\ SubMsg[s].client # ""
  BY DEF Owed, KnownInv
<1>2. PICK r \in requiredeventMap(s) : r.event = Event(p)
  BY DEF Owed, Event
<1>3. PICK j \in DOMAIN SubMsg[s].events : r = SubMsg[s].events[j]
  BY <1>2 DEF requiredeventMap
<1>4. j \in 1 .. Len(SubMsg[s].events)
  BY <1>3, MsgFacts, LenProperties
<1>5. Indexed(s, j)
  BY <1>1, <1>4 DEF IndexInv
<1> QED
  BY <1>2, <1>3, <1>5 DEF Indexed

(* Leaving a loop settles what was owed there: both copies are empty. *)
LEMMA SettledAdvance ==
    ASSUME TypeInv, NEW p \in PubReqs, ppc[p] \in Walking, NEW cs, NEW es, Advance(p, cs, es),
           idxs'[p] = es, cs # {} => inner'[p] = cs,
           \A s \in SubReqs, i \in DOMAIN PubMsg[p].events :
              Owed(p, s, i)' =>
                /\ i < pos[p] => <<i, s>> \in visited'[p]
                /\ i = pos[p] => <<i, s>> \in visited'[p] \/ IndexEvent(s) \in es \/ s \in cs
    PROVE  Settled(p)'
<1>1. pos[p] \in Nat /\ DOMAIN PubMsg[p].events \subseteq Nat
      /\ pos \in [PubReqs -> Nat \ {0}] /\ ppc \in [PubReqs -> PubLocations]
  BY MsgFacts, LenProperties DEF TypeInv, TypeOK, HandlerTypes
<1> SUFFICES ASSUME NEW s \in SubReqs, NEW i \in DOMAIN PubMsg[p].events, Owed(p, s, i)'
             PROVE  /\ i < pos'[p] => <<i, s>> \in visited'[p]
                    /\ i = pos'[p] /\ ppc'[p] = "index" =>
                         <<i, s>> \in visited'[p] \/ IndexEvent(s) \in idxs'[p]
                    /\ i = pos'[p] /\ ppc'[p] \in Matching \cup {"client"} =>
                         <<i, s>> \in visited'[p] \/ IndexEvent(s) \in idxs'[p] \/ s \in inner'[p]
  BY DEF Settled
<1>2. i \in Nat
  BY <1>1
<1>3. CASE cs # {} /\ pos' = pos /\ ppc' = [ppc EXCEPT ![p] = "client"]
  BY <1>1, <1>3
<1>4. CASE cs = {} /\ es # {} /\ pos' = pos /\ ppc' = [ppc EXCEPT ![p] = "index"]
  <2>1. ppc'[p] = "index" /\ pos'[p] = pos[p]
    BY <1>1, <1>4
  <2> QED
    BY <1>4, <2>1 DEF Matching
<1>5. CASE /\ cs = {} /\ es = {}
           /\ pos' = [pos EXCEPT ![p] = pos[p] + 1]
           /\ \/ ppc' = [ppc EXCEPT ![p] = "event"]
              \/ ppc' = [ppc EXCEPT ![p] = "notify"]
  <2>1. pos'[p] = pos[p] + 1 /\ ppc'[p] \in {"event", "notify"}
    BY <1>1, <1>5
  <2>2. i < pos'[p] => i < pos[p] \/ i = pos[p]
    BY <1>1, <1>2, <2>1
  <2> QED
    BY <1>5, <2>1, <2>2 DEF Matching
<1> QED
  BY <1>3, <1>4, <1>5, AdvanceCases

LEMMA SettledStep ==
    ASSUME TypeInv, IndexInv, KnownInv, [Next]_vars, NEW p \in PubReqs, Settled(p), PubStep(p)
    PROVE  Settled(p)'
<1> USE DEF pubVars, obsVars
<1>1. /\ ppc \in [PubReqs -> PubLocations] /\ pos \in [PubReqs -> Nat \ {0}]
      /\ idxs \in [PubReqs -> SUBSET Events] /\ inner \in [PubReqs -> SUBSET SubReqs]
      /\ visited \in [PubReqs -> SUBSET (Nat \X SubReqs)]
      /\ known \in [PubReqs -> SUBSET SubReqs] /\ PosShape
      /\ DOMAIN PubMsg[p].events = 1 .. Len(PubMsg[p].events)
      /\ Len(PubMsg[p].events) \in Nat
  BY MsgFacts, LenProperties DEF TypeInv, TypeOK, HandlerTypes, HistoryTypes, Shape
<1>2. CASE PubCall(p)
  <2>1. pos'[p] = 1 /\ ppc'[p] \in {"event", "notify"}
    BY <1>1, <1>2 DEF PubCall, PosShape
  <2>2. \A i \in DOMAIN PubMsg[p].events : ~ (i < pos'[p])
    BY <1>1, <2>1
  <2> QED
    BY <2>1, <2>2 DEF Settled, Matching
<1>3. ASSUME known' = known
      PROVE  \A s \in SubReqs, i \in DOMAIN PubMsg[p].events : Owed(p, s, i)' => Owed(p, s, i)
  BY <1>3, OwedBefore
<1>4. CASE PubEvent(p)
  <2> DEFINE es == getIndexMap[Event(p)]
  <2>1. /\ ppc[p] \in Walking /\ idxs'[p] = es /\ Advance(p, {}, es)
        /\ visited' = visited /\ known' = known
    BY <1>1, <1>4 DEF PubEvent, Walking
  <2>2. \A s \in SubReqs, i \in DOMAIN PubMsg[p].events :
          Owed(p, s, i) => /\ i < pos[p] => <<i, s>> \in visited[p]
                           /\ i = pos[p] => IndexEvent(s) \in es
    BY OwedIndexed DEF Settled
  <2> HIDE DEF es
  <2> QED
    BY <1>3, <2>1, <2>2, SettledAdvance
<1>5. CASE PubIndex(p)
  <2>1. ppc[p] = "index" /\ visited' = visited /\ known' = known
    BY <1>5 DEF PubIndex
  <2>2. \A s \in SubReqs, i \in DOMAIN PubMsg[p].events :
          Owed(p, s, i)' =>
            /\ s \in subtoClient[IndexEvent(s)]
            /\ i < pos[p] => <<i, s>> \in visited[p]
            /\ i = pos[p] => <<i, s>> \in visited[p] \/ IndexEvent(s) \in idxs[p]
    BY <1>3, <2>1 DEF Settled, Owed
  <2>3. PICK e \in idxs[p] :
          /\ idxs' = [idxs EXCEPT ![p] = @ \ {e}]
          /\ \/ ppc' = [ppc EXCEPT ![p] = "notify"] /\ pos' = pos
             \/ /\ inner' = [inner EXCEPT ![p] = subtoClient[e]]
                /\ Advance(p, subtoClient[e], idxs[p] \ {e})
    BY <1>5 DEF PubIndex
  <2>4. CASE ppc' = [ppc EXCEPT ![p] = "notify"] /\ pos' = pos
    <3>1. ppc'[p] = "notify"
      BY <1>1, <2>4
    <3> QED
      BY <2>1, <2>2, <2>4, <3>1 DEF Settled, Matching
  <2>5. CASE /\ inner' = [inner EXCEPT ![p] = subtoClient[e]]
             /\ Advance(p, subtoClient[e], idxs[p] \ {e})
    <3>1. inner'[p] = subtoClient[e] /\ idxs'[p] = idxs[p] \ {e} /\ ppc[p] \in Walking
      BY <1>1, <2>1, <2>3, <2>5 DEF Walking
    <3>2. \A s \in SubReqs, i \in DOMAIN PubMsg[p].events :
            Owed(p, s, i)' =>
              /\ i < pos[p] => <<i, s>> \in visited'[p]
              /\ i = pos[p] => \/ <<i, s>> \in visited'[p]
                               \/ IndexEvent(s) \in idxs[p] \ {e}
                               \/ s \in subtoClient[e]
      BY <2>1, <2>2
    <3> QED
      BY <2>5, <3>1, <3>2, SettledAdvance
  <2> QED
    BY <2>3, <2>4, <2>5
<1>6. ASSUME ppc[p] \in Matching \cup {"client"}, known' = known
      PROVE  \A s \in SubReqs, i \in DOMAIN PubMsg[p].events :
               Owed(p, s, i)' =>
                 /\ i < pos[p] => <<i, s>> \in visited[p]
                 /\ i = pos[p] => \/ <<i, s>> \in visited[p]
                                  \/ IndexEvent(s) \in idxs[p] \/ s \in inner[p]
  BY <1>3, <1>6 DEF Settled
<1>7. CASE PubClient(p)
  <2>1. ppc[p] = "client" /\ known' = known /\ idxs' = idxs
    BY <1>7 DEF PubClient
  <2>2. PICK t \in inner[p] :
          /\ inner' = [inner EXCEPT ![p] = @ \ {t}]
          /\ visited' = [visited EXCEPT ![p] = @ \cup {<<pos[p], t>>}]
          /\ \/ pos' = pos /\ \E loc \in Matching : ppc' = [ppc EXCEPT ![p] = loc]
             \/ Advance(p, inner[p] \ {t}, idxs[p])
    BY <1>7 DEF PubClient, Matching
  <2>3. inner'[p] = inner[p] \ {t} /\ visited'[p] = visited[p] \cup {<<pos[p], t>>}
    BY <1>1, <2>2
  <2>4. \A s \in SubReqs, i \in DOMAIN PubMsg[p].events :
          Owed(p, s, i)' =>
            /\ i < pos[p] => <<i, s>> \in visited'[p]
            /\ i = pos[p] => \/ <<i, s>> \in visited'[p]
                             \/ IndexEvent(s) \in idxs[p] \/ s \in inner[p] \ {t}
    BY <1>6, <2>1, <2>3
  <2>5. CASE pos' = pos /\ \E loc \in Matching : ppc' = [ppc EXCEPT ![p] = loc]
    <3>1. ppc'[p] \in Matching /\ ppc'[p] # "index"
      BY <1>1, <2>5 DEF Matching
    <3> QED
      BY <2>1, <2>3, <2>4, <2>5, <3>1 DEF Settled
  <2>6. CASE Advance(p, inner[p] \ {t}, idxs[p])
    BY <2>1, <2>3, <2>4, <2>6, SettledAdvance DEF Walking
  <2> QED
    BY <2>2, <2>5, <2>6
<1>8. CASE PubInit(p) \/ PubStore(p) \/ PubMatch(p) \/ PubSetMeta(p) \/ PubSetFlag(p)
  <2>1. /\ ppc[p] \in Matching
        /\ known' = known /\ visited' = visited /\ idxs' = idxs /\ inner' = inner
        /\ \/ pos' = pos /\ \E loc \in Matching : ppc' = [ppc EXCEPT ![p] = loc]
           \/ Advance(p, inner[p], idxs[p])
    BY <1>8 DEF PubInit, PubStore, PubMatch, PubSetMeta, PubSetFlag, Matching
  <2>2. CASE pos' = pos /\ \E loc \in Matching : ppc' = [ppc EXCEPT ![p] = loc]
    <3>1. ppc'[p] \in Matching /\ ppc'[p] # "index"
      BY <1>1, <2>2 DEF Matching
    <3> QED
      BY <1>6, <2>1, <2>2, <3>1 DEF Settled
  <2>3. CASE Advance(p, inner[p], idxs[p])
    <3>1. ppc[p] \in Walking
      BY <2>1 DEF Matching, Walking
    <3> QED
      BY <1>6, <2>1, <2>3, <3>1, SettledAdvance
  <2> QED
    BY <2>1, <2>2, <2>3
<1>9. CASE PubNotify(p) \/ PubNotifyIndex(p) \/ PubEnqueue(p) \/ PubResult(p)
  <2>1. known' = known /\ visited' = visited /\ pos' = pos
    BY <1>9 DEF PubNotify, PubNotifyIndex, PubEnqueue, PubResult
  <2>2. ppc'[p] \in {"nindex", "nwrap", "nresult", "done"}
    BY <1>1, <1>9 DEF PubNotify, PubNotifyIndex, PubEnqueue, PubResult, AdvanceNotify
  <2> QED
    BY <1>3, <2>1, <2>2 DEF Settled, Matching
<1> QED
  BY <1>2, <1>4, <1>5, <1>7, <1>8, <1>9 DEF PubStep

LEMMA ReachStep == ASSUME TypeInv, ReachInv, [Next]_vars PROVE ReachInv'
<1>1. IndexInv' /\ KnownInv'
  BY IndexStep, KnownStep DEF ReachInv
<1>2. ASSUME NEW p \in PubReqs,
             /\ ppc'[p] = ppc[p] /\ pos'[p] = pos[p] /\ idxs'[p] = idxs[p]
             /\ inner'[p] = inner[p] /\ known'[p] = known[p] /\ visited'[p] = visited[p]
      PROVE  Settled(p)'
  <2>1. Settled(p)
    BY DEF ReachInv
  <2>2. \A s \in SubReqs, i \in DOMAIN PubMsg[p].events : Owed(p, s, i)' => Owed(p, s, i)
    BY <1>2, OwedBefore DEF ReachInv
  <2> QED
    BY <1>2, <2>1, <2>2 DEF Settled
<1>3. ASSUME NEW p \in PubReqs, PubStep(p), NEW q \in PubReqs PROVE Settled(q)'
  <2>1. CASE q = p
    BY <1>3, <2>1, SettledStep DEF ReachInv
  <2>2. CASE q # p
    BY <1>2, <1>3, <2>2, OtherHandlers
  <2> QED
    BY <2>1, <2>2
<1>4. ASSUME UNCHANGED <<ppc, pos, idxs, idx, inner, psw, known, visited>>, NEW q \in PubReqs
      PROVE  Settled(q)'
  BY <1>2, <1>4
<1> QED
  BY <1>1, <1>3, <1>4, HandlersKept DEF ReachInv

LEMMA InitIndex == Init => IndexInv
<1> SUFFICES ASSUME Init PROVE IndexInv
  OBVIOUS
<1>1. ASSUME NEW s \in SubReqs, spc[s] # "new"
      PROVE  spc[s] = "done" /\ \A i \in 1 .. Len(SubMsg[s].events) : Indexed(s, i)
  <2>1. s \in Preset /\ spc[s] = "done"
    BY <1>1 DEF Init
  <2>2. ASSUME NEW i \in 1 .. Len(SubMsg[s].events) PROVE Indexed(s, i)
    <3>1. PICK r \in requiredeventMap(s) : r = SubMsg[s].events[i] /\ r.event \in Events
      BY RequiredEvent
    <3>2. getIndexMap[r.event] =
            {IndexEvent(u) : u \in {t \in Preset : \E x \in requiredeventMap(t) : x.event = r.event}}
      BY <3>1 DEF Init
    <3> QED
      BY <2>1, <3>1, <3>2 DEF Indexed
  <2> QED
    BY <2>1, <2>2
<1> QED
  BY <1>1 DEF Init, IndexInv

(* The copies of the two maps that pubsubPublish walks are old as soon as  *)
(* they are made.  Whatever subscriptions come and go meanwhile, every     *)
(* subscription that was complete when the publication began, is still     *)
(* registered and asks for one of its events has been visited when         *)
(* pubsubPublish got to the end of the event list.                         *)
THEOREM NobodyPassedOver == Spec => []PublishReachesSubscribers
<1>1. Init => ReachInv
  <2> SUFFICES ASSUME Init PROVE ReachInv
    OBVIOUS
  <2>2. IndexInv
    BY InitIndex
  <2>3. KnownInv
    BY DEF Init, KnownInv
  <2>4. ASSUME NEW p \in PubReqs PROVE Settled(p)
    BY DEF Init, Settled, Owed
  <2> QED
    BY <2>2, <2>3, <2>4 DEF ReachInv
<1>2. TypeInv /\ ReachInv /\ [Next]_vars => ReachInv'
  BY ReachStep
<1>3. TypeInv /\ ReachInv => PublishReachesSubscribers
  <2> SUFFICES ASSUME TypeInv, ReachInv, NEW p \in PubReqs, pos[p] > Len(PubMsg[p].events),
                      NEW s \in known[p], NEW i \in DOMAIN PubMsg[p].events,
                      PubMsg[p].events[i] \in {r.event : r \in requiredeventMap(s)},
                      s \in subtoClient[IndexEvent(s)]
               PROVE  <<i, s>> \in visited[p]
    BY DEF PublishReachesSubscribers, ReachedAll
  <2>1. s \in SubReqs /\ Owed(p, s, i)
    BY DEF Owed, TypeInv, TypeOK, HistoryTypes
  <2>2. i < pos[p]
    BY MsgFacts, LenProperties DEF TypeInv, TypeOK, HandlerTypes
  <2> QED
    BY <2>1, <2>2 DEF ReachInv, Settled
<1> QED
  BY <1>1, <1>2, <1>3, TypeInvariant, PTL DEF Spec

-----------------------------------------------------------------------------
(* Only what was published enough is triggered *)

(* A wrapper stays under its index event, in the map and in its copies. *)
UnderIndex ==
    /\ \A e \in Events : \A s \in subtoClient[e] : IndexEvent(s) = e
    /\ \A p \in PubReqs :
         /\ ppc[p] \in Matching \cup {"client"} => \A s \in inner[p] : IndexEvent(s) = idx[p]
         /\ ppc[p] \in Matching => IndexEvent(psw[p]) = idx[p]

(* No handler visits a wrapper twice for one position of its event list. *)
Fresh(p) ==
    /\ \A v \in visited[p] : v[1] <= pos[p]
    /\ ppc[p] \in {"new", "event"} => \A v \in visited[p] : v[1] < pos[p]
    /\ ppc[p] \in Matching \cup {"client", "index"} =>
         \A v \in visited[p] : v[1] = pos[p] => IndexEvent(v[2]) \notin idxs[p]
    /\ ppc[p] \in Matching \cup {"client"} =>
         /\ idx[p] \notin idxs[p]
         /\ \A s \in inner[p] : <<pos[p], s>> \notin visited[p]

(* The visits of a given history of handlers. *)
VisitsIn(vis, t, e) ==
    {v \in UNION {{p} \X vis[p] : p \in PubReqs} :
        v[2][2] = t /\ MatchType(v[1]) = "NAME" /\ PubMsg[v[1]].events[v[2][1]] = e}

(* A count never exceeds the visits that were paid for it, nor will it     *)
(* when the increment in progress is stored.                               *)
CountInv ==
    /\ \A t \in SubReqs, e \in Events :
         IsFiniteSet(VisitsIn(visited, t, e)) /\ publishedEvent[t][e] <= Cardinality(VisitsIn(visited, t, e))
    /\ \A p \in PubReqs :
         /\ ppc[p] = "init" => 1 <= Cardinality(VisitsIn(visited, psw[p], Event(p)))
         /\ ppc[p] = "store" /\ val[p] # Freed =>
              val[p] + 1 <= Cardinality(VisitsIn(visited, psw[p], Event(p)))


LEMMA UnderIndexStep ==
    ASSUME TypeInv, StillRegistered, UnderIndex, [Next]_vars PROVE UnderIndex'
<1> USE DEF TypeInv, TypeOK, HandlerTypes, MapTypes
<1>1. \A e \in Events : \A s \in subtoClient'[e] : IndexEvent(s) = e
  <2>1. ASSUME NEW s \in SubReqs, SubStep(s)
        PROVE  \A e \in Events : \A t \in subtoClient'[e] : IndexEvent(t) = e
    <3>1. CASE SubCall(s) \/ SubIndex(s)
      BY <3>1 DEF SubCall, SubIndex, mapVars, UnderIndex
    <3>2. CASE SubInsert(s)
      <4>1. subtoClient' = [subtoClient EXCEPT ![IndexEvent(s)] = WithClient(IndexEvent(s), s)]
        BY <3>2 DEF SubInsert
      <4>2. \A t \in WithClient(IndexEvent(s), s) : IndexEvent(t) = IndexEvent(s)
        BY MsgFacts DEF WithClient, UnderIndex
      <4> QED
        BY <4>1, <4>2 DEF UnderIndex
    <3> QED
      BY <2>1, <3>1, <3>2 DEF SubStep
  <2> QED
    BY <2>1, SubscribersKept DEF UnderIndex
<1> DEFINE Good(q) ==
      /\ ppc[q] \in Matching \cup {"client"} => \A s \in inner[q] : IndexEvent(s) = idx[q]
      /\ ppc[q] \in Matching => IndexEvent(psw[q]) = idx[q]
<1>2. \A q \in PubReqs : Good(q)
  BY DEF UnderIndex
<1>3. ASSUME NEW p \in PubReqs, PubStep(p) PROVE Good(p)'
  <2> USE DEF pubVars
  <2>1. CASE ppc'[p] \notin Matching \cup {"client"}
    BY <2>1
  <2>2. CASE PubIndex(p) /\ ppc'[p] \in Matching \cup {"client"}
    <3>1. PICK e \in idxs[p] : \/ ppc' = [ppc EXCEPT ![p] = "notify"]
                               \/ /\ inner' = [inner EXCEPT ![p] = subtoClient[e]]
                                  /\ idx' = [idx EXCEPT ![p] = e]
                                  /\ Advance(p, subtoClient[e], idxs[p] \ {e})
      BY <2>2 DEF PubIndex
    <3>2. CASE ppc' = [ppc EXCEPT ![p] = "notify"]
      BY <2>2, <3>2 DEF Matching
    <3>3. CASE /\ inner' = [inner EXCEPT ![p] = subtoClient[e]]
               /\ idx' = [idx EXCEPT ![p] = e]
               /\ Advance(p, subtoClient[e], idxs[p] \ {e})
      <4>1. e \in Events /\ inner'[p] = subtoClient[e] /\ idx'[p] = e
        BY <3>3
      <4>2. ppc'[p] \notin Matching
        BY <3>3, AdvanceCases DEF Matching
      <4> QED
        BY <4>1, <4>2 DEF UnderIndex
    <3> QED
      BY <3>1, <3>2, <3>3
  <2>3. CASE PubClient(p)
    <3>1. PICK s \in inner[p] : inner' = [inner EXCEPT ![p] = @ \ {s}]
                                /\ psw' = [psw EXCEPT ![p] = s]
      BY <2>3 DEF PubClient
    <3>2. idx' = idx /\ ppc[p] = "client"
      BY <2>3 DEF PubClient
    <3>3. psw'[p] = s /\ inner'[p] \subseteq inner[p]
      BY <3>1
    <3> QED
      BY <1>2, <3>2, <3>3
  <2>4. CASE ppc[p] \in Matching /\ UNCHANGED <<idx, inner, psw>>
    BY <1>2, <2>4
  <2>5. CASE PubInit(p) \/ PubStore(p) \/ PubMatch(p) \/ PubSetMeta(p) \/ PubSetFlag(p)
    BY <2>4, <2>5 DEF PubInit, PubStore, PubMatch, PubSetMeta, PubSetFlag, Matching
  <2>6. CASE PubCall(p) \/ PubEvent(p)
    BY <2>1, <2>6 DEF PubCall, PubEvent, Advance, Matching
  <2>7. CASE PubNotify(p) \/ PubNotifyIndex(p) \/ PubEnqueue(p) \/ PubResult(p)
    BY <2>1, <2>7 DEF PubNotify, PubNotifyIndex, PubEnqueue, PubResult, AdvanceNotify, Matching
  <2> QED
    BY <1>3, <2>1, <2>2, <2>3, <2>5, <2>6, <2>7 DEF PubStep
<1>4. ASSUME NEW q \in PubReqs PROVE Good(q)'
  <2>1. CASE ppc'[q] = ppc[q] /\ idx'[q] = idx[q] /\ inner'[q] = inner[q] /\ psw'[q] = psw[q]
    BY <1>2, <2>1
  <2>2. ASSUME NEW p \in PubReqs, PubStep(p) PROVE Good(q)'
    <3>1. CASE q = p
      BY <1>3, <2>2, <3>1
    <3>2. CASE q # p
      BY <2>1, <2>2, <3>2, OtherHandlers
    <3> QED
      BY <3>1, <3>2
  <2> QED
    BY <2>1, <2>2, HandlersKept
<1> QED
  BY <1>1, <1>4 DEF UnderIndex

(* Advance to the next position, or within this one with what is left. *)
LEMMA FreshAdvance ==
    ASSUME TypeInv, NEW p \in PubReqs, NEW cs, NEW es, Advance(p, cs, es),
           idxs'[p] = es, visited'[p] \in SUBSET (Nat \X SubReqs),
           \A v \in visited'[p] : v[1] <= pos[p],
           \A v \in visited'[p] : v[1] = pos[p] => IndexEvent(v[2]) \notin es,
           cs # {} => /\ inner'[p] = cs /\ idx'[p] \notin es
                      /\ \A s \in cs : <<pos[p], s>> \notin visited'[p]
    PROVE  Fresh(p)'
<1>1. pos \in [PubReqs -> Nat \ {0}] /\ ppc \in [PubReqs -> PubLocations]
      /\ \A v \in visited'[p] : v[1] \in Nat
  BY DEF TypeInv, TypeOK, HandlerTypes
<1>2. CASE cs # {} /\ pos' = pos /\ ppc' = [ppc EXCEPT ![p] = "client"]
  <2>1. pos'[p] = pos[p] /\ ppc'[p] = "client"
    BY <1>1, <1>2
  <2> QED
    BY <1>2, <2>1 DEF Fresh
<1>3. CASE cs = {} /\ es # {} /\ pos' = pos /\ ppc' = [ppc EXCEPT ![p] = "index"]
  <2>1. pos'[p] = pos[p] /\ ppc'[p] = "index"
    BY <1>1, <1>3
  <2> QED
    BY <2>1 DEF Fresh, Matching
<1>4. CASE /\ cs = {} /\ es = {}
           /\ pos' = [pos EXCEPT ![p] = pos[p] + 1]
           /\ \/ ppc' = [ppc EXCEPT ![p] = "event"]
              \/ ppc' = [ppc EXCEPT ![p] = "notify"]
  <2>1. pos'[p] = pos[p] + 1 /\ ppc'[p] \in {"event", "notify"} /\ pos[p] \in Nat
    BY <1>1, <1>4
  <2>2. \A v \in visited'[p] : v[1] <= pos'[p] /\ v[1] < pos'[p]
    BY <1>1, <2>1
  <2> QED
    BY <2>1, <2>2 DEF Fresh, Matching
<1> QED
  BY <1>2, <1>3, <1>4, AdvanceCases

LEMMA FreshStep ==
    ASSUME TypeInv, UnderIndex, NEW p \in PubReqs, Fresh(p), PubStep(p) PROVE Fresh(p)'
<1> USE DEF pubVars, obsVars
<1>1. /\ ppc \in [PubReqs -> PubLocations] /\ pos \in [PubReqs -> Nat \ {0}]
      /\ idxs \in [PubReqs -> SUBSET Events] /\ inner \in [PubReqs -> SUBSET SubReqs]
      /\ idx \in [PubReqs -> Events \cup {None}]
      /\ visited \in [PubReqs -> SUBSET (Nat \X SubReqs)]
  BY DEF TypeInv, TypeOK, HandlerTypes, HistoryTypes
<1>2. /\ pos[p] \in Nat /\ visited[p] \in SUBSET (Nat \X SubReqs)
      /\ \A v \in visited[p] : v[1] \in Nat /\ v[1] <= pos[p]
  BY <1>1 DEF Fresh
<1>3. CASE PubCall(p)
  <2>1. pos' = pos /\ visited' = visited /\ ppc'[p] \in {"event", "notify"} /\ ppc[p] = "new"
    BY <1>1, <1>3 DEF PubCall
  <2> QED
    BY <2>1 DEF Fresh, Matching
<1>4. CASE PubEvent(p)
  <2> DEFINE es == getIndexMap[Event(p)]
  <2>1. ppc[p] = "event" /\ idxs'[p] = es /\ Advance(p, {}, es) /\ visited' = visited
    BY <1>1, <1>4 DEF PubEvent
  <2> HIDE DEF es
  <2>2. \A v \in visited[p] : v[1] # pos[p]
    BY <1>2, <2>1 DEF Fresh
  <2> QED
    BY <1>2, <2>1, <2>2, FreshAdvance
<1>5. CASE PubIndex(p)
  <2>1. /\ ppc[p] = "index" /\ visited' = visited
        /\ \A v \in visited[p] : v[1] = pos[p] => IndexEvent(v[2]) \notin idxs[p]
    BY <1>5 DEF PubIndex, Fresh
  <2>2. PICK e \in idxs[p] :
          /\ idxs' = [idxs EXCEPT ![p] = @ \ {e}]
          /\ \/ ppc' = [ppc EXCEPT ![p] = "notify"] /\ pos' = pos
             \/ /\ inner' = [inner EXCEPT ![p] = subtoClient[e]]
                /\ idx' = [idx EXCEPT ![p] = e]
                /\ Advance(p, subtoClient[e], idxs[p] \ {e})
    BY <1>5 DEF PubIndex
  <2>3. CASE ppc' = [ppc EXCEPT ![p] = "notify"] /\ pos' = pos
    <3>1. ppc'[p] = "notify"
      BY <1>1, <2>3
    <3> QED
      BY <1>2, <2>1, <2>3, <3>1 DEF Fresh, Matching
  <2>4. CASE /\ inner' = [inner EXCEPT ![p] = subtoClient[e]]
             /\ idx' = [idx EXCEPT ![p] = e]
             /\ Advance(p, subtoClient[e], idxs[p] \ {e})
    <3>1. /\ inner'[p] = subtoClient[e] /\ idxs'[p] = idxs[p] \ {e} /\ idx'[p] = e
          /\ e \in Events
      BY <1>1, <2>2, <2>4
    <3>2. ASSUME NEW s \in subtoClient[e] PROVE <<pos[p], s>> \notin visited[p]
      <4>1. IndexEvent(s) = e
        BY <3>1 DEF UnderIndex
      <4> QED
        BY <2>1, <4>1
    <3>3. \A v \in visited[p] : v[1] = pos[p] => IndexEvent(v[2]) \notin idxs[p] \ {e}
      BY <2>1
    <3> QED
      BY <1>2, <2>1, <2>4, <3>1, <3>2, <3>3, FreshAdvance
  <2> QED
    BY <2>2, <2>3, <2>4
<1>6. CASE PubClient(p)
  <2>1. /\ ppc[p] = "client" /\ idxs' = idxs /\ idx' = idx
        /\ \A v \in visited[p] : v[1] = pos[p] => IndexEvent(v[2]) \notin idxs[p]
        /\ idx[p] \notin idxs[p]
        /\ \A s \in inner[p] : <<pos[p], s>> \notin visited[p]
        /\ \A s \in inner[p] : IndexEvent(s) = idx[p]
    BY <1>6 DEF PubClient, Fresh, UnderIndex
  <2>2. PICK t \in inner[p] :
          /\ inner' = [inner EXCEPT ![p] = @ \ {t}]
          /\ visited' = [visited EXCEPT ![p] = @ \cup {<<pos[p], t>>}]
          /\ \/ pos' = pos /\ \E loc \in Matching : ppc' = [ppc EXCEPT ![p] = loc]
             \/ Advance(p, inner[p] \ {t}, idxs[p])
    BY <1>6 DEF PubClient, Matching
  <2>3. /\ inner'[p] = inner[p] \ {t} /\ visited'[p] = visited[p] \cup {<<pos[p], t>>}
        /\ t \in SubReqs
    BY <1>1, <2>2
  <2>4. /\ visited'[p] \in SUBSET (Nat \X SubReqs)
        /\ \A v \in visited'[p] : v[1] <= pos[p]
    BY <1>2, <2>3
  <2>5. \A v \in visited'[p] : v[1] = pos[p] => IndexEvent(v[2]) \notin idxs[p]
    BY <2>1, <2>3
  <2>6. \A s \in inner[p] \ {t} : <<pos[p], s>> \notin visited'[p]
    BY <2>1, <2>3
  <2>7. CASE pos' = pos /\ \E loc \in Matching : ppc' = [ppc EXCEPT ![p] = loc]
    <3>1. ppc'[p] \in Matching /\ ppc'[p] \notin {"new", "event"}
      BY <1>1, <2>7 DEF Matching
    <3> QED
      BY <2>1, <2>3, <2>4, <2>5, <2>6, <2>7, <3>1 DEF Fresh
  <2>8. CASE Advance(p, inner[p] \ {t}, idxs[p])
    BY <2>1, <2>3, <2>4, <2>5, <2>6, <2>8, FreshAdvance
  <2> QED
    BY <2>2, <2>7, <2>8
<1>7. CASE PubInit(p) \/ PubStore(p) \/ PubMatch(p) \/ PubSetMeta(p) \/ PubSetFlag(p)
  <2>1. /\ ppc[p] \in Matching
        /\ visited' = visited /\ idxs' = idxs /\ inner' = inner /\ idx' = idx
        /\ \/ pos' = pos /\ \E loc \in Matching : ppc' = [ppc EXCEPT ![p] = loc]
           \/ Advance(p, inner[p], idxs[p])
    BY <1>7 DEF PubInit, PubStore, PubMatch, PubSetMeta, PubSetFlag, Matching
  <2>2. CASE pos' = pos /\ \E loc \in Matching : ppc' = [ppc EXCEPT ![p] = loc]
    <3>1. ppc'[p] \in Matching /\ ppc'[p] \notin {"new", "event"}
      BY <1>1, <2>2 DEF Matching
    <3> QED
      BY <2>1, <2>2, <3>1 DEF Fresh
  <2>3. CASE Advance(p, inner[p], idxs[p])
    <3>1. /\ \A v \in visited[p] : v[1] = pos[p] => IndexEvent(v[2]) \notin idxs[p]
          /\ idx[p] \notin idxs[p]
          /\ \A s \in inner[p] : <<pos[p], s>> \notin visited[p]
      BY <2>1 DEF Fresh
    <3> QED
      BY <1>2, <2>1, <2>3, <3>1, FreshAdvance
  <2> QED
    BY <2>1, <2>2, <2>3
<1>8. CASE PubNotify(p) \/ PubNotifyIndex(p) \/ PubEnqueue(p) \/ PubResult(p)
  <2>1. visited' = visited /\ pos' = pos
    BY <1>8 DEF PubNotify, PubNotifyIndex, PubEnqueue, PubResult
  <2>2. ppc'[p] \in {"nindex", "nwrap", "nresult", "done"}
    BY <1>1, <1>8 DEF PubNotify, PubNotifyIndex, PubEnqueue, PubResult, AdvanceNotify
  <2> QED
    BY <1>2, <2>1, <2>2 DEF Fresh, Matching
<1> QED
  BY <1>3, <1>4, <1>5, <1>6, <1>7, <1>8 DEF PubStep

LEMMA FreshKept ==
    ASSUME TypeInv, UnderIndex, \A p \in PubReqs : Fresh(p), [Next]_vars
    PROVE  \A p \in PubReqs : Fresh(p)'
<1>1. ASSUME NEW q \in PubReqs,
             /\ ppc'[q] = ppc[q] /\ pos'[q] = pos[q] /\ idxs'[q] = idxs[q]
             /\ idx'[q] = idx[q] /\ inner'[q] = inner[q] /\ visited'[q] = visited[q]
      PROVE  Fresh(q)'
  BY <1>1 DEF Fresh
<1>2. ASSUME NEW p \in PubReqs, PubStep(p), NEW q \in PubReqs PROVE Fresh(q)'
  <2>1. CASE q = p
    BY <1>2, <2>1, FreshStep
  <2>2. CASE q # p
    BY <1>1, <1>2, <2>2, OtherHandlers
  <2> QED
    BY <2>1, <2>2
<1> QED
  BY <1>1, <1>2, HandlersKept

(* What the trigger of wrapper t rests on. *)
Earned(t) ==
    \/ \A r \in requiredeventMap(t) : Cardinality(VisitsIn(visited, t, r.event)) >= r.num
    \/ \E p \in PubReqs : /\ MatchType(p) = "META_GRID"
                          /\ \E v \in visited[p] : v[2] = t
                          /\ checkIfTriggureMetaGrid(SubMsg[t].grid, PubMsg[p].grid)

EarnedInv == \A p \in PubReqs : ppc[p] \in {"setmeta", "setflag"} => Earned(psw[p])


LEMMA VisitsPair ==
    ASSUME NEW vis, NEW t, NEW e, NEW v \in VisitsIn(vis, t, e)
    PROVE  \E p \in PubReqs : \E u : v = <<p, u>>
<1>1. PICK p \in PubReqs : v \in {p} \X vis[p]
  BY DEF VisitsIn
<1> QED
  BY <1>1

LEMMA VisitsElement ==
    ASSUME NEW vis, NEW t, NEW e, NEW p \in PubReqs, NEW u
    PROVE  <<p, u>> \in VisitsIn(vis, t, e) <=>
             /\ u \in vis[p] /\ u[2] = t
             /\ MatchType(p) = "NAME" /\ PubMsg[p].events[u[1]] = e
<1>1. <<p, u>>[1] = p /\ <<p, u>>[2] = u
  OBVIOUS
<1>2. <<p, u>> \in UNION {{q} \X vis[q] : q \in PubReqs} <=> u \in vis[p]
  OBVIOUS
<1> QED
  BY <1>1, <1>2 DEF VisitsIn

(* The visits nv are the visits vis and that of publication p, at position *)
(* k of its events, to wrapper s.                                          *)
OneVisitMore(vis, nv, p, k, s) ==
    /\ vis \in [PubReqs -> SUBSET (Nat \X SubReqs)] /\ nv \in [PubReqs -> SUBSET (Nat \X SubReqs)]
    /\ k \in Nat /\ s \in SubReqs
    /\ nv[p] = vis[p] \cup {<<k, s>>} /\ \A q \in PubReqs : q # p => nv[q] = vis[q]

(* B is A, with x added if c. *)
WithIf(A, B, x, c) == B = IF c THEN A \cup {x} ELSE A

(* One more visit is one more element of the set of visits it belongs to. *)
LEMMA VisitsAre ==
    ASSUME NEW vis, NEW nv, NEW p \in PubReqs, NEW k, NEW s, OneVisitMore(vis, nv, p, k, s),
           NEW t, NEW e
    PROVE  /\ <<p, <<k, s>>>> \in VisitsIn(vis, t, e) => <<k, s>> \in vis[p]
           /\ WithIf(VisitsIn(vis, t, e), VisitsIn(nv, t, e), <<p, <<k, s>>>>,
                     s = t /\ MatchType(p) = "NAME" /\ PubMsg[p].events[k] = e)
<1> DEFINE A == VisitsIn(vis, t, e)
           B == VisitsIn(nv, t, e)
           new == <<p, <<k, s>>>>
           Counts == s = t /\ MatchType(p) = "NAME" /\ PubMsg[p].events[k] = e
           Of(q, u) == u[2] = t /\ MatchType(q) = "NAME" /\ PubMsg[q].events[u[1]] = e
<1>0. /\ vis \in [PubReqs -> SUBSET (Nat \X SubReqs)] /\ nv \in [PubReqs -> SUBSET (Nat \X SubReqs)]
      /\ k \in Nat /\ s \in SubReqs
      /\ nv[p] = vis[p] \cup {<<k, s>>} /\ \A q \in PubReqs : q # p => nv[q] = vis[q]
  BY DEF OneVisitMore
<1>1. /\ \A v \in A : \E q \in PubReqs : \E u : v = <<q, u>>
      /\ \A v \in B : \E q \in PubReqs : \E u : v = <<q, u>>
      /\ \A q \in PubReqs : \A u : <<q, u>> \in A <=> u \in vis[q] /\ Of(q, u)
      /\ \A q \in PubReqs : \A u : <<q, u>> \in B <=> u \in nv[q] /\ Of(q, u)
  <2>1. ASSUME NEW v \in A PROVE \E q \in PubReqs : \E u : v = <<q, u>>
    BY VisitsPair
  <2>2. ASSUME NEW v \in B PROVE \E q \in PubReqs : \E u : v = <<q, u>>
    BY VisitsPair
  <2>3. ASSUME NEW q \in PubReqs, NEW u PROVE <<q, u>> \in A <=> u \in vis[q] /\ Of(q, u)
    BY <1>0, VisitsElement
  <2>4. ASSUME NEW q \in PubReqs, NEW u PROVE <<q, u>> \in B <=> u \in nv[q] /\ Of(q, u)
    BY <1>0, VisitsElement
  <2> HIDE DEF A, B, Of
  <2> QED
    BY <2>1, <2>2, <2>3, <2>4
<1>2. Of(p, <<k, s>>) <=> Counts
  <2>1. <<k, s>>[1] = k /\ <<k, s>>[2] = s
    OBVIOUS
  <2> QED
    BY <2>1
<1> HIDE DEF A, B, Of, Counts
<1>4. \A q \in PubReqs : \A u : u \in nv[q] <=> u \in vis[q] \/ (q = p /\ u = <<k, s>>)
  BY <1>0
<1>5. \A q \in PubReqs : \A u :
        <<q, u>> \in B <=> <<q, u>> \in A \/ (q = p /\ u = <<k, s>> /\ Counts)
  <2> SUFFICES ASSUME NEW q \in PubReqs, NEW u
               PROVE  <<q, u>> \in B <=> <<q, u>> \in A \/ (q = p /\ u = <<k, s>> /\ Counts)
    OBVIOUS
  <2>1. /\ <<q, u>> \in A <=> u \in vis[q] /\ Of(q, u)
        /\ <<q, u>> \in B <=> u \in nv[q] /\ Of(q, u)
        /\ u \in nv[q] <=> u \in vis[q] \/ (q = p /\ u = <<k, s>>)
    BY <1>1, <1>4
  <2>2. q = p /\ u = <<k, s>> => (Of(q, u) <=> Counts)
    BY <1>2
  <2> QED
    BY <2>1, <2>2
<1>6. new \in A => <<k, s>> \in vis[p]
  BY <1>1
<1>7. B = IF Counts THEN A \cup {new} ELSE A
  <2>1. ASSUME NEW v \in B PROVE v \in A \/ (Counts /\ v = new)
    <3>1. PICK q \in PubReqs : \E u : v = <<q, u>>
      BY <1>1, <2>1
    <3>2. PICK u : v = <<q, u>>
      BY <3>1
    <3> QED
      BY <1>5, <2>1, <3>2
  <2>2. ASSUME NEW v \in A PROVE v \in B
    <3>1. PICK q \in PubReqs : \E u : v = <<q, u>>
      BY <1>1, <2>2
    <3>2. PICK u : v = <<q, u>>
      BY <3>1
    <3> QED
      BY <1>5, <2>2, <3>2
  <2>3. Counts => new \in B
    BY <1>5
  <2> HIDE DEF new
  <2> QED
    BY <2>1, <2>2, <2>3
<1> QED
  BY <1>6, <1>7 DEF A, B, new, Counts, WithIf

(* The sets of visits only grow. *)
LEMMA VisitsAdd ==
    ASSUME NEW vis, NEW nv, NEW p \in PubReqs, NEW k, NEW s, OneVisitMore(vis, nv, p, k, s),
           NEW t, NEW e, IsFiniteSet(VisitsIn(vis, t, e))
    PROVE  /\ IsFiniteSet(VisitsIn(nv, t, e))
           /\ Cardinality(VisitsIn(vis, t, e)) <= Cardinality(VisitsIn(nv, t, e))
<1>1. \/ VisitsIn(nv, t, e) = VisitsIn(vis, t, e)
      \/ \E x : VisitsIn(nv, t, e) = VisitsIn(vis, t, e) \cup {x}
  <2>1. WithIf(VisitsIn(vis, t, e), VisitsIn(nv, t, e), <<p, <<k, s>>>>,
               s = t /\ MatchType(p) = "NAME" /\ PubMsg[p].events[k] = e)
    BY VisitsAre
  <2> QED
    BY <2>1, Zenon DEF WithIf
<1>2. Cardinality(VisitsIn(vis, t, e)) \in Nat
  BY FS_CardinalityType
<1>3. CASE VisitsIn(nv, t, e) = VisitsIn(vis, t, e)
  BY <1>2, <1>3
<1>4. ASSUME NEW x, VisitsIn(nv, t, e) = VisitsIn(vis, t, e) \cup {x}
      PROVE  /\ IsFiniteSet(VisitsIn(nv, t, e))
             /\ Cardinality(VisitsIn(vis, t, e)) <= Cardinality(VisitsIn(nv, t, e))
  <2> DEFINE A == VisitsIn(vis, t, e)
  <2>1. IsFiniteSet(A \cup {x}) /\ Cardinality(A \cup {x}) = IF x \in A THEN Cardinality(A) ELSE Cardinality(A) + 1
    BY FS_AddElement
  <2> HIDE DEF A
  <2>2. Cardinality(A) <= Cardinality(A \cup {x})
    BY <1>2, <2>1 DEF A
  <2> QED
    BY <1>4, <2>1, <2>2 DEF A
<1> QED
  BY <1>1, <1>3, <1>4

(* The set a visit belongs to grows by one when the handler had not been   *)
(* there.                                                                  *)
LEMMA VisitCounted ==
    ASSUME NEW vis, NEW nv, NEW p \in PubReqs, NEW k, NEW s, OneVisitMore(vis, nv, p, k, s),
           MatchType(p) = "NAME", <<k, s>> \notin vis[p],
           NEW e, e = PubMsg[p].events[k], IsFiniteSet(VisitsIn(vis, s, e))
    PROVE  Cardinality(VisitsIn(nv, s, e)) = Cardinality(VisitsIn(vis, s, e)) + 1
<1>1. PICK x : VisitsIn(nv, s, e) = VisitsIn(vis, s, e) \cup {x} /\ x \notin VisitsIn(vis, s, e)
  <2>1. /\ <<p, <<k, s>>>> \notin VisitsIn(vis, s, e)
        /\ WithIf(VisitsIn(vis, s, e), VisitsIn(nv, s, e), <<p, <<k, s>>>>,
                  s = s /\ MatchType(p) = "NAME" /\ PubMsg[p].events[k] = e)
    BY VisitsAre
  <2> QED
    BY <2>1, Zenon DEF WithIf
<1> QED
  BY <1>1, FS_AddElement

(* Where the visits come from. *)
LEMMA VisitedStep ==
    ASSUME TypeInv, [Next]_vars
    PROVE  \/ visited' = visited
           \/ \E p \in PubReqs : \E s \in inner[p] :
                PubClient(p) /\ visited' = [visited EXCEPT ![p] = @ \cup {<<pos[p], s>>}]
<1> USE DEF obsVars
<1>1. ASSUME NEW p \in PubReqs, PubClient(p)
      PROVE  \E s \in inner[p] : visited' = [visited EXCEPT ![p] = @ \cup {<<pos[p], s>>}]
  BY <1>1 DEF PubClient
<1>2. ASSUME NEW p \in PubReqs, PubStep(p) PROVE PubClient(p) \/ visited' = visited
  <2>1. CASE PubCall(p) \/ PubEvent(p) \/ PubIndex(p)
    BY <2>1 DEF PubCall, PubEvent, PubIndex
  <2>2. CASE PubInit(p) \/ PubStore(p) \/ PubMatch(p) \/ PubSetMeta(p) \/ PubSetFlag(p)
    BY <2>2 DEF PubInit, PubStore, PubMatch, PubSetMeta, PubSetFlag
  <2>3. CASE PubNotify(p) \/ PubNotifyIndex(p) \/ PubEnqueue(p) \/ PubResult(p)
    BY <2>3 DEF PubNotify, PubNotifyIndex, PubEnqueue, PubResult
  <2> QED
    BY <1>2, <2>1, <2>2, <2>3 DEF PubStep
<1> QED
  BY <1>1, <1>2, HandlersKept

LEMMA VisitsGrow ==
    ASSUME TypeInv, [Next]_vars, NEW t, NEW e, IsFiniteSet(VisitsIn(visited, t, e))
    PROVE  /\ IsFiniteSet(VisitsIn(visited', t, e))
           /\ Cardinality(VisitsIn(visited, t, e)) \in Nat
           /\ Cardinality(VisitsIn(visited', t, e)) \in Nat
           /\ Cardinality(VisitsIn(visited, t, e)) <= Cardinality(VisitsIn(visited', t, e))
<1>1. Cardinality(VisitsIn(visited, t, e)) \in Nat
  BY FS_CardinalityType
<1>2. CASE visited' = visited
  BY <1>1, <1>2
<1>3. ASSUME NEW p \in PubReqs, NEW s \in inner[p],
             visited' = [visited EXCEPT ![p] = @ \cup {<<pos[p], s>>}]
      PROVE  /\ IsFiniteSet(VisitsIn(visited', t, e))
             /\ Cardinality(VisitsIn(visited, t, e)) <= Cardinality(VisitsIn(visited', t, e))
  <2>1. /\ visited \in [PubReqs -> SUBSET (Nat \X SubReqs)] /\ pos[p] \in Nat /\ s \in SubReqs
    BY DEF TypeInv, TypeOK, HandlerTypes, HistoryTypes
  <2>2. /\ visited' \in [PubReqs -> SUBSET (Nat \X SubReqs)]
        /\ visited'[p] = visited[p] \cup {<<pos[p], s>>}
        /\ \A q \in PubReqs : q # p => visited'[q] = visited[q]
    BY <1>3, <2>1
  <2>3. OneVisitMore(visited, visited', p, pos[p], s)
    BY <2>1, <2>2 DEF OneVisitMore
  <2> QED
    BY <2>3, VisitsAdd
<1>4. CASE \E p \in PubReqs : \E s \in inner[p] :
             visited' = [visited EXCEPT ![p] = @ \cup {<<pos[p], s>>}]
  BY <1>1, <1>3, <1>4, FS_CardinalityType
<1> QED
  BY <1>2, <1>4, VisitedStep

LEMMA EventHere ==
    ASSUME TypeInv, NEW p \in PubReqs, ppc[p] \in Walking
    PROVE  Event(p) \in Events
<1>1. PubMsg[p].events \in Seq(Events) /\ Len(PubMsg[p].events) \in Nat
  BY MsgFacts, LenProperties
<1>2. pos[p] \in Nat \ {0} /\ pos[p] <= Len(PubMsg[p].events)
  BY DEF TypeInv, TypeOK, HandlerTypes, Shape, PosShape
<1>3. PICK k \in 1 .. Len(PubMsg[p].events) : k = pos[p]
  BY <1>1, <1>2
<1> QED
  BY <1>1, <1>3, ElementOfSeq DEF Event

(* The three ways a count changes. *)
LEMMA CountChange ==
    ASSUME TypeInv, [Next]_vars, NEW t \in SubReqs, NEW e \in Events
    PROVE  \/ publishedEvent'[t][e] = publishedEvent[t][e]
           \/ publishedEvent'[t][e] = 0
           \/ \E p \in PubReqs : /\ ppc[p] = "store" /\ val[p] # Freed
                                 /\ psw[p] = t /\ Event(p) = e
                                 /\ publishedEvent'[t][e] = val[p] + 1
<1>1. publishedEvent \in [SubReqs -> [Events -> Nat]]
  BY DEF TypeInv, TypeOK, WrapperTypes
<1>2. ASSUME NEW p \in PubReqs, PubInit(p)
      PROVE  publishedEvent'[t][e] = publishedEvent[t][e] \/ publishedEvent'[t][e] = 0
  <2>1. publishedEvent' = [publishedEvent EXCEPT ![psw[p]][Event(p)] = 0]
    BY <1>2 DEF PubInit
  <2>2. CASE psw[p] = t /\ Event(p) = e
    BY <1>1, <2>1, <2>2
  <2>3. CASE ~ (psw[p] = t /\ Event(p) = e)
    BY <1>1, <2>1, <2>3
  <2> QED
    BY <2>2, <2>3
<1>3. ASSUME NEW p \in PubReqs, PubStore(p)
      PROVE  \/ publishedEvent'[t][e] = publishedEvent[t][e]
             \/ /\ ppc[p] = "store" /\ val[p] # Freed
                /\ psw[p] = t /\ Event(p) = e
                /\ publishedEvent'[t][e] = val[p] + 1
  <2>1. ppc[p] = "store"
    BY <1>3 DEF PubStore
  <2>2. CASE val[p] = Freed
    BY <1>3, <2>2 DEF PubStore
  <2>3. CASE val[p] # Freed
    <3>1. publishedEvent' = [publishedEvent EXCEPT ![psw[p]][Event(p)] = val[p] + 1]
      BY <1>3, <2>3 DEF PubStore
    <3>2. CASE psw[p] = t /\ Event(p) = e
      BY <1>1, <2>1, <2>3, <3>1, <3>2
    <3>3. CASE ~ (psw[p] = t /\ Event(p) = e)
      BY <1>1, <3>1, <3>3
    <3> QED
      BY <3>2, <3>3
  <2> QED
    BY <2>2, <2>3
<1>4. ASSUME NEW w \in Workers, NotifyWipe(w)
      PROVE  publishedEvent'[t][e] = publishedEvent[t][e] \/ publishedEvent'[t][e] = 0
  <2>1. publishedEvent' = [publishedEvent EXCEPT ![Task(w)] = [f \in Events |-> 0]]
    BY <1>4 DEF NotifyWipe
  <2> QED
    BY <1>1, <2>1
<1>5. CASE \E s \in SubReqs : SubStep(s)
  BY <1>5 DEF SubStep, SubCall, SubIndex, SubInsert
<1>6. ASSUME NEW p \in PubReqs, PubStep(p)
      PROVE  publishedEvent' = publishedEvent \/ PubInit(p) \/ PubStore(p)
  <2>1. CASE PubCall(p) \/ PubEvent(p) \/ PubIndex(p) \/ PubClient(p)
    BY <2>1 DEF PubCall, PubEvent, PubIndex, PubClient
  <2>2. CASE PubMatch(p) \/ PubSetMeta(p) \/ PubSetFlag(p)
    BY <2>2 DEF PubMatch, PubSetMeta, PubSetFlag
  <2>3. CASE PubNotify(p) \/ PubNotifyIndex(p) \/ PubEnqueue(p) \/ PubResult(p)
    BY <2>3 DEF PubNotify, PubNotifyIndex, PubEnqueue, PubResult
  <2> QED
    BY <1>6, <2>1, <2>2, <2>3 DEF PubStep
<1>7. ASSUME NEW w \in Workers, WorkerStep(w)
      PROVE  publishedEvent' = publishedEvent \/ NotifyWipe(w)
  BY <1>7 DEF WorkerStep, PoolTake, NotifyLock, NotifyTest, NotifyClaim, NotifyBuild, NotifyPush
<1>8. CASE CheckStep \/ DrainStep \/ UNCHANGED vars
  BY <1>8 DEF CheckStep, CheckLock, CheckGet, DrainStep, DrainSize, DrainFront, DrainPop, vars
<1>9. CASE \E p \in PubReqs : PubStep(p)
  BY <1>2, <1>3, <1>6, <1>9
<1>10. CASE \E w \in Workers : WorkerStep(w)
  BY <1>4, <1>7, <1>10
<1> QED
  BY <1>5, <1>8, <1>9, <1>10 DEF Next, Poll

(* The count a handler is working on is its own until deletePubEvent frees *)
(* it.                                                                     *)
LEMMA ValKept ==
    ASSUME TypeInv, [Next]_vars, NEW q \in PubReqs
    PROVE  PubStep(q) \/ val'[q] = val[q] \/ val'[q] = Freed
<1>1. CASE \E s \in SubReqs : SubStep(s)
  BY <1>1 DEF SubStep, SubCall, SubIndex, SubInsert
<1>2. CASE \E p \in PubReqs : PubStep(p)
  BY <1>2, OtherHandlers
<1>3. CASE \E w \in Workers : WorkerStep(w)
  BY <1>3 DEF WorkerStep, PoolTake, NotifyLock, NotifyTest, NotifyClaim, NotifyBuild, NotifyPush,
        NotifyWipe
<1>4. CASE CheckStep \/ DrainStep \/ UNCHANGED vars
  BY <1>4 DEF CheckStep, CheckLock, CheckGet, DrainStep, DrainSize, DrainFront, DrainPop, vars
<1> QED
  BY <1>1, <1>2, <1>3, <1>4 DEF Next, Poll

LEMMA CountStep ==
    ASSUME TypeInv, StillRegistered, \A p \in PubReqs : Fresh(p), CountInv, [Next]_vars
    PROVE  CountInv'
<1> DEFINE N(t, e) == Cardinality(VisitsIn(visited, t, e))
           M(t, e) == Cardinality(VisitsIn(visited', t, e))
           Good(q) ==
             /\ ppc[q] = "init" => 1 <= Cardinality(VisitsIn(visited, psw[q], Event(q)))
             /\ ppc[q] = "store" /\ val[q] # Freed =>
                  val[q] + 1 <= Cardinality(VisitsIn(visited, psw[q], Event(q)))
<1>1. /\ publishedEvent \in [SubReqs -> [Events -> Nat]]
      /\ ppc \in [PubReqs -> PubLocations] /\ pos \in [PubReqs -> Nat \ {0}]
      /\ inner \in [PubReqs -> SUBSET SubReqs] /\ psw \in [PubReqs -> SubReqs \cup {None}]
      /\ val \in [PubReqs -> Nat \cup {Freed}]
      /\ visited \in [PubReqs -> SUBSET (Nat \X SubReqs)]
  BY DEF TypeInv, TypeOK, WrapperTypes, HandlerTypes, HistoryTypes
<1>2. ASSUME NEW t \in SubReqs, NEW e \in Events
      PROVE  /\ IsFiniteSet(VisitsIn(visited, t, e)) /\ IsFiniteSet(VisitsIn(visited', t, e))
             /\ N(t, e) \in Nat /\ M(t, e) \in Nat /\ N(t, e) <= M(t, e)
             /\ publishedEvent[t][e] <= N(t, e)
  <2>1. IsFiniteSet(VisitsIn(visited, t, e)) /\ publishedEvent[t][e] <= N(t, e)
    BY DEF CountInv
  <2> QED
    BY <2>1, VisitsGrow
<1>3. \A q \in PubReqs : Good(q)
  BY DEF CountInv
<1>4. ASSUME NEW q \in PubReqs, ppc[q] \in Matching PROVE psw[q] \in SubReqs /\ Event(q) \in Events
  <2>1. ppc[q] \in Walking
    BY <1>4 DEF Matching, Walking
  <2> QED
    BY <1>4, <2>1, EventHere DEF StillRegistered
<1> HIDE DEF N, M
<1>5. ASSUME NEW t \in SubReqs, NEW e \in Events PROVE publishedEvent'[t][e] <= M(t, e)
  <2>1. CASE publishedEvent'[t][e] = publishedEvent[t][e]
    <3>1. publishedEvent[t][e] \in Nat
      BY <1>1
    <3> QED
      BY <1>2, <2>1, <3>1
  <2>2. CASE publishedEvent'[t][e] = 0
    BY <1>2, <2>2
  <2>3. ASSUME NEW p \in PubReqs, ppc[p] = "store", val[p] # Freed, psw[p] = t, Event(p) = e,
               publishedEvent'[t][e] = val[p] + 1
        PROVE  publishedEvent'[t][e] <= M(t, e)
    <3>1. val[p] + 1 <= N(t, e) /\ val[p] \in Nat
      BY <1>1, <1>3, <2>3 DEF N
    <3> QED
      BY <1>2, <2>3, <3>1
  <2> QED
    BY <2>1, <2>2, <2>3, CountChange
<1>6. ASSUME NEW q \in PubReqs, NEW t \in SubReqs, NEW e \in Events,
             psw'[q] = t, Event(q)' = e,
             ppc'[q] = "init" => 1 <= M(t, e),
             ppc'[q] = "store" /\ val'[q] # Freed => val'[q] + 1 <= M(t, e)
      PROVE  Good(q)'
  BY <1>6 DEF M
<1>7. ASSUME NEW q \in PubReqs, ppc'[q] = ppc[q], pos'[q] = pos[q], psw'[q] = psw[q],
             val'[q] = val[q] \/ val'[q] = Freed
      PROVE  Good(q)'
  <2>1. CASE ppc[q] \notin {"init", "store"}
    BY <1>7, <2>1
  <2>2. CASE ppc[q] \in {"init", "store"}
    <3>1. PICK t \in SubReqs, e \in Events : t = psw[q] /\ e = Event(q)
      BY <1>4, <2>2 DEF Matching
    <3>2. psw'[q] = t /\ Event(q)' = e
      BY <1>7, <3>1 DEF Event
    <3>3. /\ ppc[q] = "init" => 1 <= N(t, e)
          /\ ppc[q] = "store" /\ val[q] # Freed => val[q] + 1 <= N(t, e) /\ val[q] \in Nat
      BY <1>1, <1>3, <3>1 DEF N
    <3>4. N(t, e) \in Nat /\ M(t, e) \in Nat /\ N(t, e) <= M(t, e)
      BY <1>2
    <3>5. ppc'[q] = "init" => 1 <= M(t, e)
      BY <1>7, <3>3, <3>4
    <3>6. ppc'[q] = "store" /\ val'[q] # Freed => val'[q] + 1 <= M(t, e)
      BY <1>7, <3>3, <3>4
    <3> QED
      BY <1>6, <3>2, <3>5, <3>6
  <2> QED
    BY <2>1, <2>2
<1>8. ASSUME NEW p \in PubReqs, PubStep(p) PROVE Good(p)'
  <2>1. CASE ppc'[p] \notin {"init", "store"}
    BY <2>1
  <2>2. CASE PubClient(p) /\ ppc'[p] \in {"init", "store"}
    <3>1. PICK s \in inner[p] :
            /\ psw' = [psw EXCEPT ![p] = s]
            /\ visited' = [visited EXCEPT ![p] = @ \cup {<<pos[p], s>>}]
            /\ MatchType(p) = "NAME"
            /\ val' = [val EXCEPT ![p] = publishedEvent[s][Event(p)]]
            /\ UNCHANGED pos
      <4>1. PICK s \in inner[p] :
              /\ psw' = [psw EXCEPT ![p] = s]
              /\ visited' = [visited EXCEPT ![p] = @ \cup {<<pos[p], s>>}]
              /\ \/ /\ MatchType(p) = "NAME"
                    /\ val' = [val EXCEPT ![p] = publishedEvent[s][Event(p)]]
                    /\ UNCHANGED pos
                 \/ ppc' = [ppc EXCEPT ![p] = "setmeta"]
                 \/ Advance(p, inner[p] \ {s}, idxs[p])
        BY <2>2 DEF PubClient
      <4>2. ppc' # [ppc EXCEPT ![p] = "setmeta"]
        BY <1>1, <2>2
      <4>3. ~ Advance(p, inner[p] \ {s}, idxs[p])
        BY <1>1, <2>2, AdvanceCases
      <4> QED
        BY <4>1, <4>2, <4>3
    <3>2. ppc[p] = "client"
      BY <2>2 DEF PubClient
    <3>3. PICK e \in Events : e = Event(p)
      BY <3>2, EventHere DEF Walking
    <3>4. s \in SubReqs /\ psw'[p] = s /\ Event(p)' = e /\ val'[p] = publishedEvent[s][e]
      BY <1>1, <3>1, <3>3 DEF Event
    <3>5. <<pos[p], s>> \notin visited[p] /\ PubMsg[p].events[pos[p]] = e
      BY <3>2, <3>3 DEF Fresh, Event
    <3>6. /\ visited' \in [PubReqs -> SUBSET (Nat \X SubReqs)] /\ pos[p] \in Nat
          /\ visited'[p] = visited[p] \cup {<<pos[p], s>>}
          /\ \A q \in PubReqs : q # p => visited'[q] = visited[q]
      BY <1>1, <3>1, <3>4
    <3>7. M(s, e) = N(s, e) + 1
      <4>1. IsFiniteSet(VisitsIn(visited, s, e)) /\ visited \in [PubReqs -> SUBSET (Nat \X SubReqs)]
        BY <1>1, <1>2, <3>4
      <4>2. MatchType(p) = "NAME" /\ s \in SubReqs
        BY <3>1, <3>4
      <4>3. OneVisitMore(visited, visited', p, pos[p], s)
        BY <3>6, <4>1, <4>2 DEF OneVisitMore
      <4>4. Cardinality(VisitsIn(visited', s, e)) = Cardinality(VisitsIn(visited, s, e)) + 1
        BY <3>5, <4>1, <4>2, <4>3, VisitCounted
      <4> QED
        BY <4>4 DEF M, N
    <3>8. /\ N(s, e) \in Nat /\ publishedEvent[s][e] \in Nat
          /\ publishedEvent[s][e] <= N(s, e)
      BY <1>1, <1>2, <3>4
    <3>9. 1 <= M(s, e) /\ val'[p] + 1 <= M(s, e)
      BY <3>4, <3>7, <3>8
    <3> QED
      BY <1>6, <3>4, <3>9
  <2>3. CASE PubInit(p)
    <3>1. PICK t \in SubReqs, e \in Events : t = psw[p] /\ e = Event(p)
      BY <1>4, <2>3 DEF PubInit, Matching
    <3>2. ppc[p] = "init" /\ ppc'[p] = "store" /\ val'[p] = 0 /\ psw' = psw /\ pos' = pos
      BY <1>1, <2>3 DEF PubInit
    <3>3. psw'[p] = t /\ Event(p)' = e
      BY <3>1, <3>2 DEF Event
    <3>4. 1 <= N(t, e)
      BY <1>3, <3>1, <3>2 DEF N
    <3>5. 1 <= M(t, e)
      BY <1>2, <3>4
    <3> QED
      BY <1>6, <3>2, <3>3, <3>5
  <2>4. CASE PubCall(p) \/ PubEvent(p) \/ PubIndex(p)
    BY <1>1, <2>1, <2>4 DEF PubCall, PubEvent, PubIndex, Advance
  <2>5. CASE PubStore(p) \/ PubMatch(p) \/ PubSetMeta(p) \/ PubSetFlag(p)
    BY <1>1, <2>1, <2>5 DEF PubStore, PubMatch, PubSetMeta, PubSetFlag, Advance
  <2>6. CASE PubNotify(p) \/ PubNotifyIndex(p) \/ PubEnqueue(p) \/ PubResult(p)
    BY <1>1, <2>1, <2>6 DEF PubNotify, PubNotifyIndex, PubEnqueue, PubResult, AdvanceNotify
  <2> QED
    BY <1>8, <2>1, <2>2, <2>3, <2>4, <2>5, <2>6 DEF PubStep
<1>9. ASSUME NEW q \in PubReqs PROVE Good(q)'
  <2>1. CASE PubStep(q)
    BY <1>8, <2>1
  <2>2. CASE ~ PubStep(q)
    <3>1. ppc'[q] = ppc[q] /\ pos'[q] = pos[q] /\ psw'[q] = psw[q]
      BY <2>2, OtherHandlers, HandlersKept
    <3> QED
      BY <1>7, <2>2, <3>1, ValKept
  <2> QED
    BY <2>1, <2>2
<1> HIDE DEF Good
<1>10. \A t \in SubReqs, e \in Events :
         IsFiniteSet(VisitsIn(visited', t, e))
         /\ publishedEvent'[t][e] <= Cardinality(VisitsIn(visited', t, e))
  BY <1>2, <1>5 DEF M
<1> QED
  BY <1>9, <1>10 DEF CountInv, Good


(* The trigger rests on visits, which are never undone. *)
LEMMA EarnedKept ==
    ASSUME TypeInv, CountInv, [Next]_vars, NEW t \in SubReqs, Earned(t) PROVE Earned(t)'
<1>1. CASE \A r \in requiredeventMap(t) : Cardinality(VisitsIn(visited, t, r.event)) >= r.num
  <2>1. ASSUME NEW r \in requiredeventMap(t)
        PROVE  Cardinality(VisitsIn(visited', t, r.event)) >= r.num
    <3>1. PICK i \in DOMAIN SubMsg[t].events : r = SubMsg[t].events[i]
      BY <2>1 DEF requiredeventMap
    <3>2. i \in 1 .. Len(SubMsg[t].events) /\ SubMsg[t].events \in Seq([event : Events, num : Nat])
      BY <3>1, MsgFacts, LenProperties
    <3>3. r \in [event : Events, num : Nat]
      BY <3>1, <3>2, ElementOfSeq
    <3>4. PICK e \in Events, n \in Nat : e = r.event /\ n = r.num
      BY <3>3
    <3>5. IsFiniteSet(VisitsIn(visited, t, e))
      BY <3>4 DEF CountInv
    <3>6. /\ Cardinality(VisitsIn(visited, t, e)) \in Nat
          /\ Cardinality(VisitsIn(visited', t, e)) \in Nat
          /\ Cardinality(VisitsIn(visited, t, e)) <= Cardinality(VisitsIn(visited', t, e))
      BY <3>5, VisitsGrow
    <3>7. Cardinality(VisitsIn(visited, t, e)) >= n
      BY <1>1, <2>1, <3>4
    <3>8. Cardinality(VisitsIn(visited', t, e)) >= n
      BY <3>6, <3>7
    <3> QED
      BY <3>4, <3>8
  <2> QED
    BY <2>1 DEF Earned
<1>2. CASE \E p \in PubReqs : /\ MatchType(p) = "META_GRID"
                              /\ \E v \in visited[p] : v[2] = t
                              /\ checkIfTriggureMetaGrid(SubMsg[t].grid, PubMsg[p].grid)
  <2>1. \A p \in PubReqs : visited[p] \subseteq visited'[p]
    BY VisitedStep DEF TypeInv, TypeOK, HistoryTypes
  <2> QED
    BY <1>2, <2>1 DEF Earned
<1> QED
  BY <1>1, <1>2 DEF Earned

LEMMA EarnedStep ==
    ASSUME TypeInv, StillRegistered, CountInv, EarnedInv, [Next]_vars PROVE EarnedInv'
<1>1. /\ ppc \in [PubReqs -> PubLocations] /\ inner \in [PubReqs -> SUBSET SubReqs]
      /\ psw \in [PubReqs -> SubReqs \cup {None}]
      /\ visited \in [PubReqs -> SUBSET (Nat \X SubReqs)]
  BY DEF TypeInv, TypeOK, HandlerTypes, HistoryTypes
<1>2. ASSUME NEW q \in PubReqs, ppc[q] \in Matching, psw'[q] = psw[q], Earned(psw[q])
      PROVE  Earned(psw[q])'
  <2>1. PICK t \in SubReqs : t = psw[q]
    BY <1>2 DEF StillRegistered
  <2>2. Earned(t)'
    BY <1>2, <2>1, EarnedKept
  <2>3. psw'[q] = t
    BY <1>2, <2>1
  <2> QED
    BY <2>2, <2>3 DEF Earned
<1>3. ASSUME NEW p \in PubReqs, PubClient(p), ppc'[p] \in {"setmeta", "setflag"}
      PROVE  Earned(psw[p])'
  <2>1. PICK s \in inner[p] :
          /\ psw' = [psw EXCEPT ![p] = s]
          /\ visited' = [visited EXCEPT ![p] = @ \cup {<<pos[p], s>>}]
          /\ \/ \E loc \in {"init", "store"} : ppc' = [ppc EXCEPT ![p] = loc]
             \/ /\ MatchType(p) = "META_GRID"
                /\ checkIfTriggureMetaGrid(SubMsg[s].grid, PubMsg[p].grid)
             \/ Advance(p, inner[p] \ {s}, idxs[p])
    BY <1>3 DEF PubClient
  <2>2. ~ \E loc \in {"init", "store"} : ppc' = [ppc EXCEPT ![p] = loc]
    BY <1>1, <1>3
  <2>3. ~ Advance(p, inner[p] \ {s}, idxs[p])
    BY <1>1, <1>3, AdvanceCases
  <2>4. psw'[p] = s /\ <<pos[p], s>> \in visited'[p] /\ <<pos[p], s>>[2] = s
    BY <1>1, <2>1
  <2> QED
    BY <2>1, <2>2, <2>3, <2>4 DEF Earned
<1>4. ASSUME NEW p \in PubReqs, PubMatch(p), checkIfTriggure(psw[p]) PROVE Earned(psw[p])
  <2>1. PICK s \in SubReqs : s = psw[p]
    BY <1>4 DEF StillRegistered, PubMatch, Matching
  <2>2. ASSUME NEW r \in requiredeventMap(s)
        PROVE  Cardinality(VisitsIn(visited, s, r.event)) >= r.num
    <3>1. PICK i \in DOMAIN SubMsg[s].events : r = SubMsg[s].events[i]
      BY <2>2 DEF requiredeventMap
    <3>2. i \in 1 .. Len(SubMsg[s].events) /\ SubMsg[s].events \in Seq([event : Events, num : Nat])
      BY <3>1, MsgFacts, LenProperties
    <3>3. r \in [event : Events, num : Nat]
      BY <3>1, <3>2, ElementOfSeq
    <3>4. PICK e \in Events, n \in Nat : e = r.event /\ n = r.num
      BY <3>3
    <3>5. publishedEvent[s][e] = n
      BY <1>4, <2>1, <2>2, <3>4 DEF checkIfTriggure
    <3>6. /\ IsFiniteSet(VisitsIn(visited, s, e))
          /\ publishedEvent[s][e] <= Cardinality(VisitsIn(visited, s, e))
      BY <3>4 DEF CountInv
    <3>7. Cardinality(VisitsIn(visited, s, e)) \in Nat
      BY <3>6, FS_CardinalityType
    <3>8. Cardinality(VisitsIn(visited, s, e)) >= n
      BY <3>5, <3>6, <3>7
    <3> QED
      BY <3>4, <3>8
  <2> QED
    BY <2>1, <2>2 DEF Earned
<1>5. ASSUME NEW p \in PubReqs, PubStep(p), ppc'[p] \in {"setmeta", "setflag"}
      PROVE  Earned(psw[p])'
  <2>1. CASE PubClient(p)
    BY <1>3, <1>5, <2>1
  <2>2. CASE PubMatch(p)
    <3>1. checkIfTriggure(psw[p])
      <4>1. CASE Advance(p, inner[p], idxs[p])
        BY <1>1, <1>5, <4>1, AdvanceCases
      <4> QED
        BY <2>2, <4>1 DEF PubMatch
    <3>2. ppc[p] \in Matching /\ psw' = psw
      BY <2>2 DEF PubMatch, Matching, pubVars
    <3> QED
      BY <1>2, <1>4, <2>2, <3>1, <3>2
  <2>3. CASE PubSetMeta(p)
    <3>1. ppc[p] = "setmeta" /\ ppc[p] \in Matching /\ psw' = psw
      BY <2>3 DEF PubSetMeta, Matching, pubVars
    <3> QED
      BY <1>2, <3>1 DEF EarnedInv
  <2>4. CASE PubCall(p) \/ PubEvent(p) \/ PubIndex(p)
    BY <1>1, <1>5, <2>4 DEF PubCall, PubEvent, PubIndex, Advance
  <2>5. CASE PubInit(p) \/ PubStore(p) \/ PubSetFlag(p)
    BY <1>1, <1>5, <2>5 DEF PubInit, PubStore, PubSetFlag, Advance
  <2>6. CASE PubNotify(p) \/ PubNotifyIndex(p) \/ PubEnqueue(p) \/ PubResult(p)
    BY <1>1, <1>5, <2>6 DEF PubNotify, PubNotifyIndex, PubEnqueue, PubResult, AdvanceNotify
  <2> QED
    BY <1>5, <2>1, <2>2, <2>3, <2>4, <2>5, <2>6 DEF PubStep
<1>6. ASSUME NEW q \in PubReqs, ppc'[q] \in {"setmeta", "setflag"} PROVE Earned(psw[q])'
  <2>1. CASE PubStep(q)
    BY <1>5, <1>6, <2>1
  <2>2. CASE ~ PubStep(q)
    <3>1. ppc'[q] = ppc[q] /\ psw'[q] = psw[q]
      BY <2>2, OtherHandlers, HandlersKept
    <3>2. ppc[q] \in Matching /\ Earned(psw[q])
      BY <1>6, <3>1 DEF EarnedInv, Matching
    <3> QED
      BY <1>2, <3>1, <3>2
  <2> QED
    BY <2>1, <2>2
<1> QED
  BY <1>6 DEF EarnedInv

(* Some subscription of the client of s under the same index event. *)
Justified(s) ==
    \E t \in SubReqs : /\ SubMsg[t].client = SubMsg[s].client
                       /\ IndexEvent(t) = IndexEvent(s)
                       /\ Earned(t)

JustifiedInv == \A s \in SubReqs : triggers[s] > 0 => Justified(s)

LEMMA JustifiedStep ==
    ASSUME TypeInv, StillRegistered, UnderIndex, CountInv, EarnedInv, JustifiedInv, [Next]_vars
    PROVE  JustifiedInv'
<1>1. triggers \in [SubReqs -> Nat]
  BY DEF TypeInv, TypeOK, HistoryTypes
<1>2. ASSUME NEW s \in SubReqs, Justified(s) PROVE Justified(s)'
  BY <1>2, EarnedKept DEF Justified
<1>3. ASSUME NEW p \in PubReqs, PubSetFlag(p) PROVE JustifiedInv'
  <2>1. ppc[p] = "setflag" /\ triggers' = [triggers EXCEPT ![Registered(p)] = @ + 1]
    BY <1>3 DEF PubSetFlag
  <2>2. /\ idx[p] \in Events /\ psw[p] \in SubReqs /\ HasEntry(p, psw[p])
        /\ IndexEvent(psw[p]) = idx[p] /\ Earned(psw[p])
    BY <2>1 DEF StillRegistered, UnderIndex, EarnedInv, Matching
  <2>3. /\ Registered(p) \in subtoClient[idx[p]]
        /\ SubMsg[Registered(p)].client = SubMsg[psw[p]].client
    BY <2>2 DEF HasEntry, Registered
  <2>4. PICK g \in SubReqs : g = Registered(p)
    BY <2>2, <2>3 DEF TypeInv, TypeOK, MapTypes
  <2>5. Justified(g)
    <3>1. IndexEvent(g) = idx[p]
      BY <2>2, <2>3, <2>4 DEF UnderIndex
    <3> QED
      BY <2>2, <2>3, <2>4, <3>1 DEF Justified
  <2>6. ASSUME NEW s \in SubReqs, triggers'[s] > 0 PROVE Justified(s)
    <3>1. CASE s = g
      BY <2>5, <3>1
    <3>2. CASE s # g
      <4>1. triggers'[s] = triggers[s]
        BY <1>1, <2>1, <2>4, <3>2
      <4> QED
        BY <2>6, <4>1 DEF JustifiedInv
    <3> QED
      BY <3>1, <3>2
  <2> QED
    BY <1>2, <2>6 DEF JustifiedInv
<1>4. CASE triggers' = triggers
  BY <1>2, <1>4 DEF JustifiedInv
<1>5. triggers' = triggers \/ \E p \in PubReqs : PubSetFlag(p)
  <2> USE DEF trigVars
  <2>1. CASE \E s \in SubReqs : SubStep(s)
    BY <2>1 DEF SubStep, SubCall, SubIndex, SubInsert
  <2>2. ASSUME NEW p \in PubReqs, PubStep(p) PROVE triggers' = triggers \/ PubSetFlag(p)
    <3>1. CASE PubCall(p) \/ PubEvent(p) \/ PubIndex(p) \/ PubClient(p)
      BY <3>1 DEF PubCall, PubEvent, PubIndex, PubClient
    <3>2. CASE PubInit(p) \/ PubStore(p) \/ PubMatch(p) \/ PubSetMeta(p)
      BY <3>2 DEF PubInit, PubStore, PubMatch, PubSetMeta
    <3>3. CASE PubNotify(p) \/ PubNotifyIndex(p) \/ PubEnqueue(p) \/ PubResult(p)
      BY <3>3 DEF PubNotify, PubNotifyIndex, PubEnqueue, PubResult
    <3> QED
      BY <2>2, <3>1, <3>2, <3>3 DEF PubStep
  <2>3. CASE \E w \in Workers : WorkerStep(w)
    BY <2>3 DEF WorkerStep, PoolTake, NotifyLock, NotifyTest, NotifyClaim, NotifyBuild,
        NotifyPush, NotifyWipe
  <2>4. CASE CheckStep \/ DrainStep \/ UNCHANGED vars
    BY <2>4 DEF CheckStep, CheckLock, CheckGet, DrainStep, DrainSize, DrainFront, DrainPop, vars
  <2> QED
    BY <2>1, <2>2, <2>3, <2>4 DEF Next, Poll
<1> QED
  BY <1>3, <1>4, <1>5

TriggerInv ==
    /\ UnderIndex /\ (\A p \in PubReqs : Fresh(p))
    /\ CountInv /\ EarnedInv /\ JustifiedInv

(* publishedEvent is counted with no lock, tested after other publications *)
(* counted and the flag is set later still, on whatever wrapper the client *)
(* has by then.  Lost and destroyed counts only delay a trigger: a client  *)
(* is triggered only if a subscription it made under that index event had  *)
(* each required event published as often as it asked for, or its box      *)
(* matched a published one.                                                *)
THEOREM TriggersAreEarned == Spec => []TriggerJustified
<1>1. Init => TriggerInv
  <2> SUFFICES ASSUME Init PROVE TriggerInv
    OBVIOUS
  <2>1. UnderIndex
    BY DEF Init, UnderIndex, Matching
  <2>2. \A p \in PubReqs : visited[p] = {} /\ ppc[p] = "new"
    BY DEF Init
  <2>3. \A p \in PubReqs : Fresh(p)
    BY <2>2 DEF Fresh, Matching
  <2>4. ASSUME NEW t \in SubReqs, NEW e \in Events
        PROVE  IsFiniteSet(VisitsIn(visited, t, e))
               /\ publishedEvent[t][e] <= Cardinality(VisitsIn(visited, t, e))
    <3>1. VisitsIn(visited, t, e) = {}
      BY <2>2 DEF VisitsIn
    <3>2. publishedEvent[t][e] = 0
      BY DEF Init
    <3> QED
      BY <3>1, <3>2, FS_EmptySet
  <2>5. CountInv
    BY <2>2, <2>4 DEF CountInv
  <2>6. EarnedInv /\ JustifiedInv
    BY <2>2 DEF Init, EarnedInv, JustifiedInv
  <2> QED
    BY <2>1, <2>3, <2>5, <2>6 DEF TriggerInv
<1>2. TypeInv /\ StillRegistered /\ TriggerInv /\ [Next]_vars => TriggerInv'
  BY UnderIndexStep, FreshKept, CountStep, EarnedStep, JustifiedStep DEF TriggerInv
<1>3. TriggerInv => TriggerJustified
  <2>1. \A t, e : Visits(t, e) = VisitsIn(visited, t, e)
    BY DEF Visits, VisitsIn
  <2> QED
    BY <2>1 DEF TriggerInv, JustifiedInv, Justified, Earned, TriggerJustified
<1> QED
  BY <1>1, <1>2, <1>3, TypeInvariant, EntryExists, PTL DEF Spec


-----------------------------------------------------------------------------
(* At rest nothing triggered waits *)

(* Publish notifies the index events of the last event of the list only.   *)
(* Nobody asks for an event at an earlier position.                        *)
OnlyLastWanted ==
    \A p \in PubReqs, s \in SubReqs : \A i \in DOMAIN PubMsg[p].events :
        PubMsg[p].events[i] \in {r.event : r \in requiredeventMap(s)}
            => i = Len(PubMsg[p].events)

LastEvent(p) == PubMsg[p].events[Len(PubMsg[p].events)]

(* An index set that is not empty was filled for somebody who asks for the *)
(* event: a handler that walks one is at the last position.                *)
WalkInv ==
    /\ \A e \in Events : getIndexMap[e] # {} =>
         \E s \in SubReqs : e \in {r.event : r \in requiredeventMap(s)}
    /\ \A p \in PubReqs :
         /\ ppc[p] \in Matching \cup {"client", "index"} =>
              pos[p] = Len(PubMsg[p].events) /\ idxs[p] \subseteq getIndexMap[LastEvent(p)]
         /\ ppc[p] \in Matching \cup {"client"} => idx[p] \in getIndexMap[LastEvent(p)]

(* A wrapper is registered before it can be triggered. *)
EntryInv ==
    /\ \A e \in Events : \A s \in subtoClient[e] : spc[s] = "done"
    /\ \A s \in SubReqs : iftrigure[s] => spc[s] = "done"

(* Somebody is still to look at the flag of wrapper s under index event e: *)
(* a publication that has not copied its index events, or not the wrappers *)
(* of e, or not queued the task of s; the queue; a pool thread.            *)
ToCopy(p, e) ==
    /\ ppc[p] \in Walking \cup {"notify"} /\ PubMsg[p].events # <<>>
    /\ e \in getIndexMap[LastEvent(p)]
ToWalk(p, e) == ppc[p] \in {"nindex", "nwrap", "nresult"} /\ e \in idxs[p]
ToQueue(p, s) == ppc[p] \in {"nwrap", "nresult"} /\ s \in inner[p]
ToTake(s) == \E i \in 1 .. Len(taskLog) : taken < i /\ taskLog[i] = s
ToLook(w, s) == wpc[w] \in {"lock", "test", "claim"} /\ Task(w) = s

Pending(s, e) ==
    \/ \E p \in PubReqs : ToCopy(p, e) \/ ToWalk(p, e) \/ ToQueue(p, s)
    \/ ToTake(s)
    \/ \E w \in Workers : ToLook(w, s)

PendingInv == \A e \in Events : \A s \in subtoClient[e] : iftrigure[s] => Pending(s, e)


LEMMA LastHere ==
    ASSUME TypeInv, NEW p \in PubReqs
    PROVE  /\ PubMsg[p].events # <<>> => LastEvent(p) \in Events
           /\ ppc[p] \in Walking => PubMsg[p].events # <<>>
<1>1. PubMsg[p].events \in Seq(Events)
  BY MsgFacts
<1>2. ASSUME PubMsg[p].events # <<>> PROVE LastEvent(p) \in Events
  <2>1. PICK evs \in Seq(Events) : evs = PubMsg[p].events
    BY <1>1
  <2>2. Len(evs) \in 1 .. Len(evs)
    BY <1>2, <2>1, EmptySeq
  <2>3. evs[Len(evs)] \in Events
    BY <2>1, <2>2, ElementOfSeq
  <2> QED
    BY <2>1, <2>3 DEF LastEvent
<1>3. ASSUME ppc[p] \in Walking PROVE PubMsg[p].events # <<>>
  <2>1. pos[p] \in Nat \ {0} /\ pos[p] <= Len(PubMsg[p].events)
    BY <1>3 DEF TypeInv, TypeOK, HandlerTypes, Shape, PosShape
  <2> QED
    BY <1>1, <2>1
<1> QED
  BY <1>2, <1>3

(* The index sets only grow. *)
LEMMA IndexGrows ==
    ASSUME TypeInv, IndexInv, [Next]_vars, NEW e \in Events
    PROVE  getIndexMap[e] \subseteq getIndexMap'[e]
<1> USE DEF TypeInv, TypeOK, MapTypes
<1>1. ASSUME NEW s \in SubReqs, SubStep(s) PROVE getIndexMap[e] \subseteq getIndexMap'[e]
  <2>1. CASE SubCall(s) \/ SubInsert(s)
    BY <2>1 DEF SubCall, SubInsert, mapVars
  <2>2. CASE SubIndex(s)
    <3>1. PICK f \in Events : getIndexMap' = [getIndexMap EXCEPT ![f] = @ \cup {IndexEvent(s)}]
      BY <2>2, IndexRound, RequiredEvent
    <3> QED
      BY <3>1
  <2> QED
    BY <1>1, <2>1, <2>2 DEF SubStep
<1> QED
  BY <1>1, SubscribersKept

LEMMA WalkStep ==
    ASSUME OnlyLastWanted, TypeInv, IndexInv, WalkInv, [Next]_vars PROVE WalkInv'
<1> DEFINE Wanted(e) == \E s \in SubReqs : e \in {r.event : r \in requiredeventMap(s)}
           Good(q) ==
             /\ ppc[q] \in Matching \cup {"client", "index"} =>
                  pos[q] = Len(PubMsg[q].events) /\ idxs[q] \subseteq getIndexMap[LastEvent(q)]
             /\ ppc[q] \in Matching \cup {"client"} => idx[q] \in getIndexMap[LastEvent(q)]
<1>1. /\ ppc \in [PubReqs -> PubLocations] /\ pos \in [PubReqs -> Nat \ {0}]
      /\ idxs \in [PubReqs -> SUBSET Events] /\ idx \in [PubReqs -> Events \cup {None}]
      /\ getIndexMap \in [Events -> SUBSET Events]
  BY DEF TypeInv, TypeOK, HandlerTypes, MapTypes
<1>2. ASSUME NEW e \in Events, getIndexMap'[e] # {} PROVE Wanted(e)
  <2>1. CASE getIndexMap'[e] = getIndexMap[e]
    BY <1>2, <2>1 DEF WalkInv
  <2>2. ASSUME NEW s \in SubReqs, SubStep(s) PROVE Wanted(e) \/ getIndexMap'[e] = getIndexMap[e]
    <3>1. CASE SubCall(s) \/ SubInsert(s)
      BY <3>1 DEF SubCall, SubInsert, mapVars
    <3>2. CASE SubIndex(s)
      <4>1. PICK i \in 1 .. Len(SubMsg[s].events) : i = spos[s]
        BY <3>2, IndexRound
      <4>2. PICK f \in Events : f = SubMsg[s].events[i].event
        BY RequiredEvent
      <4>3. getIndexMap' = [getIndexMap EXCEPT ![f] = @ \cup {IndexEvent(s)}]
        BY <3>2, <4>1, <4>2, IndexRound
      <4>4. SubMsg[s].events[i] \in requiredeventMap(s)
        BY RequiredEvent
      <4>5. Wanted(f)
        BY <4>2, <4>4
      <4> HIDE DEF Wanted
      <4> QED
        BY <1>1, <4>3, <4>5
    <3> QED
      BY <2>2, <3>1, <3>2 DEF SubStep
  <2> HIDE DEF Wanted
  <2> QED
    BY <2>1, <2>2, SubscribersKept
<1>3. \A q \in PubReqs : Good(q)
  BY DEF WalkInv
<1>4. ASSUME NEW q \in PubReqs, ppc'[q] = ppc[q], pos'[q] = pos[q], idxs'[q] = idxs[q],
             idx'[q] = idx[q]
      PROVE  Good(q)'
  <2>1. CASE ppc[q] \notin Matching \cup {"client", "index"}
    BY <1>4, <2>1
  <2>2. CASE ppc[q] \in Matching \cup {"client", "index"}
    <3>1. ppc[q] \in Walking
      BY <2>2 DEF Matching, Walking
    <3>2. getIndexMap[LastEvent(q)] \subseteq getIndexMap'[LastEvent(q)]
      BY <3>1, LastHere, IndexGrows
    <3>3. LastEvent(q)' = LastEvent(q)
      BY DEF LastEvent
    <3> QED
      BY <1>3, <1>4, <2>2, <3>2, <3>3
  <2> QED
    BY <2>1, <2>2
<1>5. ASSUME NEW p \in PubReqs, PubStep(p) PROVE Good(p)'
  <2> USE DEF pubVars, mapVars
  <2>1. CASE ppc'[p] \notin Matching \cup {"client", "index"}
    BY <2>1
  <2>2. getIndexMap' = getIndexMap /\ LastEvent(p)' = LastEvent(p)
    <3>1. CASE PubCall(p) \/ PubEvent(p) \/ PubIndex(p) \/ PubClient(p)
      BY <3>1 DEF PubCall, PubEvent, PubIndex, PubClient, LastEvent
    <3>2. CASE PubInit(p) \/ PubStore(p) \/ PubMatch(p) \/ PubSetMeta(p) \/ PubSetFlag(p)
      BY <3>2 DEF PubInit, PubStore, PubMatch, PubSetMeta, PubSetFlag, LastEvent
    <3>3. CASE PubNotify(p) \/ PubNotifyIndex(p) \/ PubEnqueue(p) \/ PubResult(p)
      BY <3>3 DEF PubNotify, PubNotifyIndex, PubEnqueue, PubResult, LastEvent
    <3> QED
      BY <1>5, <3>1, <3>2, <3>3 DEF PubStep
  <2>3. ASSUME NEW cs, NEW es, Advance(p, cs, es), ppc'[p] \in Matching \cup {"client", "index"}
        PROVE  pos'[p] = pos[p] /\ (ppc'[p] = "index" \/ (ppc'[p] = "client" /\ cs # {}))
               /\ (cs # {} \/ es # {})
    BY <1>1, <2>3, AdvanceCases DEF Matching
  <2>4. CASE PubEvent(p) /\ ppc'[p] \in Matching \cup {"client", "index"}
    <3> DEFINE es == getIndexMap[Event(p)]
    <3>1. ppc[p] = "event" /\ Advance(p, {}, es) /\ idxs'[p] = es
      BY <1>1, <2>4 DEF PubEvent
    <3>2. Event(p) \in Events /\ pos[p] \in DOMAIN PubMsg[p].events
      <4>1. ppc[p] \in Walking
        BY <3>1 DEF Walking
      <4>2. pos[p] \in Nat \ {0} /\ pos[p] <= Len(PubMsg[p].events)
            /\ Len(PubMsg[p].events) \in Nat /\ DOMAIN PubMsg[p].events = 1 .. Len(PubMsg[p].events)
        BY <1>1, <4>1, MsgFacts, LenProperties DEF TypeInv, Shape, PosShape
      <4>3. PICK n \in Nat, k \in Nat \ {0} : n = Len(PubMsg[p].events) /\ k = pos[p]
        BY <4>2
      <4>4. k \in 1 .. n
        BY <4>2, <4>3
      <4> QED
        BY <4>1, <4>2, <4>3, <4>4, EventHere
    <3> HIDE DEF es
    <3>3. pos'[p] = pos[p] /\ ppc'[p] = "index" /\ es # {}
      BY <2>3, <2>4, <3>1
    <3>4. Wanted(Event(p))
      BY <3>2, <3>3 DEF WalkInv, es
    <3>5. pos[p] = Len(PubMsg[p].events)
      BY <3>2, <3>4 DEF OnlyLastWanted, Event
    <3>6. Event(p) = LastEvent(p)
      BY <3>5 DEF Event, LastEvent
    <3> HIDE DEF Wanted
    <3> QED
      BY <2>2, <3>1, <3>3, <3>5, <3>6 DEF es, Matching
  <2>5. CASE PubIndex(p) /\ ppc'[p] \in Matching \cup {"client", "index"}
    <3>1. PICK e \in idxs[p] :
            /\ idxs' = [idxs EXCEPT ![p] = @ \ {e}]
            /\ \/ ppc' = [ppc EXCEPT ![p] = "notify"]
               \/ idx' = [idx EXCEPT ![p] = e] /\ Advance(p, subtoClient[e], idxs[p] \ {e})
      BY <2>5 DEF PubIndex
    <3>2. ppc' # [ppc EXCEPT ![p] = "notify"]
      BY <1>1, <2>5 DEF Matching
    <3>3. /\ pos[p] = Len(PubMsg[p].events) /\ idxs[p] \subseteq getIndexMap[LastEvent(p)]
          /\ idx'[p] = e /\ idxs'[p] \subseteq idxs[p]
      BY <1>1, <1>3, <2>5, <3>1, <3>2 DEF PubIndex
    <3>4. pos'[p] = pos[p]
      BY <2>3, <2>5, <3>1, <3>2
    <3> QED
      BY <2>2, <3>3, <3>4
  <2>6. CASE /\ ppc[p] \in Matching \cup {"client"} /\ idxs' = idxs /\ idx' = idx
             /\ pos'[p] = pos[p]
    BY <1>3, <2>2, <2>6
  <2>7. CASE PubClient(p) /\ ppc'[p] \in Matching \cup {"client", "index"}
    <3>1. pos' = pos \/ \E s \in inner[p] : Advance(p, inner[p] \ {s}, idxs[p])
      BY <2>7 DEF PubClient
    <3>2. pos'[p] = pos[p]
      BY <2>3, <2>7, <3>1
    <3> QED
      BY <2>6, <2>7, <3>2 DEF PubClient
  <2>8. CASE /\ PubInit(p) \/ PubStore(p) \/ PubMatch(p) \/ PubSetMeta(p) \/ PubSetFlag(p)
             /\ ppc'[p] \in Matching \cup {"client", "index"}
    <3>1. /\ ppc[p] \in Matching /\ idxs' = idxs /\ idx' = idx
          /\ pos' = pos \/ Advance(p, inner[p], idxs[p])
      BY <2>8 DEF PubInit, PubStore, PubMatch, PubSetMeta, PubSetFlag, Matching
    <3>2. pos'[p] = pos[p]
      BY <2>3, <2>8, <3>1
    <3> QED
      BY <2>6, <3>1, <3>2
  <2>9. CASE PubCall(p) \/ PubNotify(p) \/ PubNotifyIndex(p) \/ PubEnqueue(p) \/ PubResult(p)
    BY <1>1, <2>1, <2>9 DEF PubCall, PubNotify, PubNotifyIndex, PubEnqueue, PubResult, AdvanceNotify,
        Matching
  <2> QED
    BY <1>5, <2>1, <2>4, <2>5, <2>7, <2>8, <2>9 DEF PubStep
<1>6. ASSUME NEW q \in PubReqs PROVE Good(q)'
  <2>1. CASE PubStep(q)
    BY <1>5, <2>1
  <2>2. CASE ~ PubStep(q)
    <3>1. ppc'[q] = ppc[q] /\ pos'[q] = pos[q] /\ idxs'[q] = idxs[q] /\ idx'[q] = idx[q]
      BY <2>2, OtherHandlers, HandlersKept
    <3> QED
      BY <1>4, <3>1
  <2> QED
    BY <2>1, <2>2
<1> QED
  BY <1>2, <1>6 DEF WalkInv

(* What the flag of a wrapper becomes. *)
LEMMA FlagChange ==
    ASSUME TypeInv, [Next]_vars
    PROVE  \/ iftrigure' = iftrigure
           \/ \E p \in PubReqs : PubSetFlag(p) /\ iftrigure' = [iftrigure EXCEPT ![Registered(p)] = TRUE]
           \/ \E w \in Workers : NotifyClaim(w) /\ iftrigure' = [iftrigure EXCEPT ![Task(w)] = FALSE]
<1> USE DEF trigVars
<1>1. CASE \E s \in SubReqs : SubStep(s)
  BY <1>1 DEF SubStep, SubCall, SubIndex, SubInsert
<1>2. ASSUME NEW p \in PubReqs, PubStep(p)
      PROVE  iftrigure' = iftrigure
             \/ (PubSetFlag(p) /\ iftrigure' = [iftrigure EXCEPT ![Registered(p)] = TRUE])
  <2>1. CASE PubCall(p) \/ PubEvent(p) \/ PubIndex(p) \/ PubClient(p)
    BY <2>1 DEF PubCall, PubEvent, PubIndex, PubClient
  <2>2. CASE PubInit(p) \/ PubStore(p) \/ PubMatch(p) \/ PubSetMeta(p)
    BY <2>2 DEF PubInit, PubStore, PubMatch, PubSetMeta
  <2>3. CASE PubNotify(p) \/ PubNotifyIndex(p) \/ PubEnqueue(p) \/ PubResult(p)
    BY <2>3 DEF PubNotify, PubNotifyIndex, PubEnqueue, PubResult
  <2>4. PubSetFlag(p) => iftrigure' = [iftrigure EXCEPT ![Registered(p)] = TRUE]
    BY DEF PubSetFlag
  <2> QED
    BY <1>2, <2>1, <2>2, <2>3, <2>4 DEF PubStep
<1>3. ASSUME NEW w \in Workers, WorkerStep(w)
      PROVE  iftrigure' = iftrigure
             \/ (NotifyClaim(w) /\ iftrigure' = [iftrigure EXCEPT ![Task(w)] = FALSE])
  <2>1. NotifyClaim(w) => iftrigure' = [iftrigure EXCEPT ![Task(w)] = FALSE]
    BY DEF NotifyClaim
  <2> QED
    BY <1>3, <2>1 DEF WorkerStep, PoolTake, NotifyLock, NotifyTest, NotifyBuild,
        NotifyPush, NotifyWipe
<1>4. CASE CheckStep \/ DrainStep \/ UNCHANGED vars
  BY <1>4 DEF CheckStep, CheckLock, CheckGet, DrainStep, DrainSize, DrainFront, DrainPop, vars
<1> QED
  BY <1>1, <1>2, <1>3, <1>4 DEF Next, Poll

LEMMA EntryStep ==
    ASSUME TypeInv, StillRegistered, EntryInv, [Next]_vars PROVE EntryInv'
<1>1. /\ subtoClient \in [Events -> SUBSET SubReqs] /\ iftrigure \in [SubReqs -> BOOLEAN]
      /\ spc \in [SubReqs -> {"new", "index", "insert", "done"}]
  BY DEF TypeInv, TypeOK, MapTypes, WrapperTypes, HandlerTypes
<1>2. \A s \in SubReqs : spc[s] = "done" => spc'[s] = "done"
  <2>1. CASE \E s \in SubReqs : SubStep(s)
    BY <1>1, <2>1 DEF SubStep, SubCall, SubIndex, SubInsert
  <2> QED
    BY <2>1, SubscribersKept
<1>3. \A e \in Events : \A s \in subtoClient'[e] : s \in SubReqs /\ spc'[s] = "done"
  <2>1. CASE subtoClient' = subtoClient
    BY <1>1, <1>2, <2>1 DEF EntryInv
  <2>2. ASSUME NEW t \in SubReqs, SubStep(t)
        PROVE  \A e \in Events : \A s \in subtoClient'[e] : s \in SubReqs /\ spc'[s] = "done"
    <3>1. CASE SubCall(t) \/ SubIndex(t)
      BY <2>1, <3>1 DEF SubCall, SubIndex, mapVars
    <3>2. CASE SubInsert(t)
      <4>1. /\ subtoClient' = [subtoClient EXCEPT ![IndexEvent(t)] = WithClient(IndexEvent(t), t)]
            /\ spc'[t] = "done"
        BY <1>1, <3>2 DEF SubInsert
      <4>2. \A e \in Events : subtoClient'[e] \subseteq subtoClient[e] \cup {t}
        BY <1>1, <4>1 DEF WithClient
      <4> QED
        BY <1>1, <1>2, <4>1, <4>2 DEF EntryInv
    <3> QED
      BY <2>2, <3>1, <3>2 DEF SubStep
  <2> QED
    BY <2>1, <2>2, SubscribersKept
<1>4. ASSUME NEW s \in SubReqs, iftrigure'[s] PROVE spc'[s] = "done"
  <2>1. CASE iftrigure[s]
    BY <1>2, <2>1 DEF EntryInv
  <2>2. ASSUME NEW p \in PubReqs, PubSetFlag(p),
               iftrigure' = [iftrigure EXCEPT ![Registered(p)] = TRUE], ~ iftrigure[s]
        PROVE  spc'[s] = "done"
    <3>1. s = Registered(p)
      BY <1>1, <1>4, <2>2
    <3>2. idx[p] \in Events /\ HasEntry(p, psw[p])
      BY <2>2 DEF PubSetFlag, StillRegistered, Matching
    <3>3. Registered(p) \in subtoClient[idx[p]]
      BY <3>2 DEF HasEntry, Registered
    <3> QED
      BY <1>2, <3>1, <3>2, <3>3 DEF EntryInv
  <2>3. ASSUME NEW w \in Workers, iftrigure' = [iftrigure EXCEPT ![Task(w)] = FALSE]
        PROVE  iftrigure[s]
    BY <1>1, <1>4, <2>3
  <2> QED
    BY <1>4, <2>1, <2>2, <2>3, FlagChange
<1> QED
  BY <1>3, <1>4 DEF EntryInv


(* What a pending look becomes in a step of a handler: it goes from the    *)
(* last event's index set through the two copies into the pool's queue.    *)
LEMMA PendingHandler ==
    ASSUME TypeInv, NEW p \in PubReqs, PubStep(p), NEW e \in Events, NEW s \in subtoClient[e],
           Pending(s, e)
    PROVE  Pending(s, e)'
<1> USE DEF pubVars, mapVars, poolVars
<1>1. /\ ppc \in [PubReqs -> PubLocations] /\ idxs \in [PubReqs -> SUBSET Events]
      /\ inner \in [PubReqs -> SUBSET SubReqs] /\ taskLog \in Seq(SubReqs)
      /\ wtask \in [Workers -> Nat] /\ taken \in Nat
  BY DEF TypeInv, TypeOK, HandlerTypes, PoolTypes
<1>2. getIndexMap' = getIndexMap /\ taken' = taken /\ wpc' = wpc /\ wtask' = wtask
  <2>1. CASE PubCall(p) \/ PubEvent(p) \/ PubIndex(p) \/ PubClient(p)
    BY <2>1 DEF PubCall, PubEvent, PubIndex, PubClient
  <2>2. CASE PubInit(p) \/ PubStore(p) \/ PubMatch(p) \/ PubSetMeta(p) \/ PubSetFlag(p)
    BY <2>2 DEF PubInit, PubStore, PubMatch, PubSetMeta, PubSetFlag
  <2>3. CASE PubNotify(p) \/ PubNotifyIndex(p) \/ PubEnqueue(p) \/ PubResult(p)
    BY <2>3 DEF PubNotify, PubNotifyIndex, PubEnqueue, PubResult
  <2> QED
    BY <2>1, <2>2, <2>3 DEF PubStep
<1>3. taskLog' = taskLog
      \/ (PubEnqueue(p) /\ \E t \in SubReqs : taskLog' = Append(taskLog, t))
  <2>1. CASE PubCall(p) \/ PubEvent(p) \/ PubIndex(p) \/ PubClient(p)
    BY <2>1 DEF PubCall, PubEvent, PubIndex, PubClient
  <2>2. CASE PubInit(p) \/ PubStore(p) \/ PubMatch(p) \/ PubSetMeta(p) \/ PubSetFlag(p)
    BY <2>2 DEF PubInit, PubStore, PubMatch, PubSetMeta, PubSetFlag
  <2>3. CASE PubNotify(p) \/ PubNotifyIndex(p) \/ PubResult(p)
    BY <2>3 DEF PubNotify, PubNotifyIndex, PubResult
  <2>4. PubEnqueue(p) => \E t \in SubReqs : taskLog' = Append(taskLog, t)
    BY <1>1 DEF PubEnqueue
  <2> QED
    BY <2>1, <2>2, <2>3, <2>4 DEF PubStep
<1>4. ASSUME ToTake(s) PROVE ToTake(s)'
  <2>1. PICK i \in 1 .. Len(taskLog) : taken < i /\ taskLog[i] = s
    BY <1>4 DEF ToTake
  <2>2. i \in 1 .. Len(taskLog') /\ taskLog'[i] = taskLog[i]
    <3>1. CASE taskLog' = taskLog
      BY <3>1
    <3>2. ASSUME NEW t \in SubReqs, taskLog' = Append(taskLog, t)
          PROVE  i \in 1 .. Len(taskLog') /\ taskLog'[i] = taskLog[i]
      BY <1>1, <3>2
    <3> QED
      BY <1>3, <3>1, <3>2
  <2> QED
    BY <1>2, <2>1, <2>2 DEF ToTake
<1>5. ASSUME NEW w \in Workers, ToLook(w, s) PROVE ToLook(w, s)'
  <2>1. wpc[w] # "idle" /\ Task(w) = s
    BY <1>5 DEF ToLook
  <2>2. Task(w)' = Task(w)
    BY <1>2, <1>3, <2>1, TaskStable
  <2> QED
    BY <1>2, <1>5, <2>1, <2>2 DEF ToLook
<1>6. ASSUME NEW q \in PubReqs, q # p
      PROVE  /\ ToCopy(q, e) => ToCopy(q, e)'
             /\ ToWalk(q, e) => ToWalk(q, e)'
             /\ ToQueue(q, s) => ToQueue(q, s)'
  <2>1. ppc'[q] = ppc[q] /\ idxs'[q] = idxs[q] /\ inner'[q] = inner[q]
    BY <1>6, OtherHandlers
  <2> QED
    BY <1>2, <2>1 DEF ToCopy, ToWalk, ToQueue, LastEvent
<1>7. ASSUME ToCopy(p, e) \/ ToWalk(p, e) \/ ToQueue(p, s)
      PROVE  ToCopy(p, e)' \/ ToWalk(p, e)' \/ ToQueue(p, s)' \/ ToTake(s)'
  <2>1. CASE ppc[p] \in Walking
    <3>1. ToCopy(p, e)
      BY <1>7, <2>1 DEF ToWalk, ToQueue, Walking
    <3>2. ppc'[p] \in Walking \cup {"notify"}
      <4>1. CASE PubEvent(p) \/ PubIndex(p)
        BY <1>1, <4>1 DEF PubEvent, PubIndex, Advance, Walking
      <4>2. CASE PubClient(p)
        BY <1>1, <4>2 DEF PubClient, Advance, Walking
      <4>3. CASE PubInit(p) \/ PubStore(p) \/ PubMatch(p) \/ PubSetMeta(p) \/ PubSetFlag(p)
        BY <1>1, <4>3 DEF PubInit, PubStore, PubMatch, PubSetMeta, PubSetFlag, Advance, Walking
      <4> QED
        BY <2>1, <4>1, <4>2, <4>3 DEF PubStep, PubCall, PubNotify, PubNotifyIndex, PubEnqueue, PubResult,
            Walking
    <3> QED
      BY <1>2, <3>1, <3>2 DEF ToCopy, LastEvent
  <2>2. CASE ppc[p] = "notify"
    <3>1. ToCopy(p, e) /\ PubNotify(p)
      BY <1>7, <2>2 DEF ToWalk, ToQueue, PubStep, PubCall, PubEvent, PubIndex, PubClient, PubInit,
          PubStore, PubMatch, PubSetMeta, PubSetFlag, PubNotifyIndex, PubEnqueue, PubResult
    <3>2. e \in getIndexMap[LastEvent(p)] /\ PubMsg[p].events # <<>>
      BY <3>1 DEF ToCopy
    <3>3. /\ idxs' = [idxs EXCEPT ![p] = getIndexMap[LastEvent(p)]]
          /\ ppc' = [ppc EXCEPT ![p] = "nindex"]
      BY <3>1, <3>2 DEF PubNotify, LastEvent
    <3> QED
      BY <1>1, <3>2, <3>3 DEF ToWalk
  <2>3. CASE ppc[p] = "nindex"
    <3>1. PubNotifyIndex(p) /\ e \in idxs[p]
      BY <1>7, <2>3 DEF ToCopy, ToWalk, ToQueue, Walking, PubStep, PubCall, PubEvent, PubIndex, PubClient,
          PubInit, PubStore, PubMatch, PubSetMeta, PubSetFlag, PubNotify, PubEnqueue, PubResult
    <3>2. PICK f \in idxs[p] : /\ idxs' = [idxs EXCEPT ![p] = @ \ {f}]
                               /\ inner' = [inner EXCEPT ![p] = subtoClient[f]]
                               /\ AdvanceNotify(p, subtoClient[f], idxs[p] \ {f})
      BY <3>1 DEF PubNotifyIndex
    <3>3. idxs'[p] = idxs[p] \ {f} /\ inner'[p] = subtoClient[f]
      BY <1>1, <3>2
    <3>4. CASE f = e
      <4>1. ppc'[p] = "nwrap"
        BY <1>1, <3>2, <3>4 DEF AdvanceNotify
      <4> QED
        BY <3>3, <3>4, <4>1 DEF ToQueue
    <3>5. CASE f # e
      <4>1. ppc'[p] \in {"nwrap", "nindex"}
        BY <1>1, <3>1, <3>2, <3>5 DEF AdvanceNotify
      <4> QED
        BY <3>1, <3>3, <3>5, <4>1 DEF ToWalk
    <3> QED
      BY <3>4, <3>5
  <2>4. CASE ppc[p] = "nwrap"
    <3>1. PubEnqueue(p) /\ (e \in idxs[p] \/ s \in inner[p])
      BY <1>7, <2>4 DEF ToCopy, ToWalk, ToQueue, Walking, PubStep, PubCall, PubEvent, PubIndex, PubClient,
          PubInit, PubStore, PubMatch, PubSetMeta, PubSetFlag, PubNotify, PubNotifyIndex, PubResult
    <3>2. PICK t \in inner[p] : inner' = [inner EXCEPT ![p] = @ \ {t}] /\ taskLog' = Append(taskLog, t)
      BY <3>1 DEF PubEnqueue
    <3>3. ppc'[p] = "nresult" /\ idxs' = idxs /\ inner'[p] = inner[p] \ {t} /\ t \in SubReqs
      BY <1>1, <3>1, <3>2 DEF PubEnqueue
    <3>4. CASE t = s
      <4>1. Len(taskLog) \in Nat /\ taken <= Len(taskLog)
        BY <1>1, LenProperties DEF TypeInv, TypeOK, PoolTypes
      <4>2. /\ Len(taskLog) + 1 \in 1 .. Len(taskLog') /\ taken < Len(taskLog) + 1
            /\ taskLog'[Len(taskLog) + 1] = s
        BY <1>1, <3>2, <3>3, <3>4, <4>1, AppendProperties
      <4> QED
        BY <1>2, <4>2 DEF ToTake
    <3>5. CASE t # s
      BY <3>1, <3>3, <3>5 DEF ToWalk, ToQueue
    <3> QED
      BY <3>4, <3>5
  <2>5. CASE ppc[p] = "nresult"
    <3>1. PubResult(p) /\ (e \in idxs[p] \/ s \in inner[p])
      BY <1>7, <2>5 DEF ToCopy, ToWalk, ToQueue, Walking, PubStep, PubCall, PubEvent, PubIndex, PubClient,
          PubInit, PubStore, PubMatch, PubSetMeta, PubSetFlag, PubNotify, PubNotifyIndex, PubEnqueue
    <3>2. idxs' = idxs /\ inner' = inner /\ AdvanceNotify(p, inner[p], idxs[p])
      BY <3>1 DEF PubResult
    <3>3. CASE s \in inner[p]
      <4>1. ppc'[p] = "nwrap"
        BY <1>1, <3>2, <3>3 DEF AdvanceNotify
      <4> QED
        BY <3>2, <3>3, <4>1 DEF ToQueue
    <3>4. CASE e \in idxs[p]
      <4>1. ppc'[p] \in {"nwrap", "nindex"}
        BY <1>1, <3>2, <3>4 DEF AdvanceNotify
      <4> QED
        BY <3>2, <3>4, <4>1 DEF ToWalk
    <3> QED
      BY <3>1, <3>3, <3>4
  <2> QED
    BY <1>7, <2>1, <2>2, <2>3, <2>4, <2>5 DEF ToCopy, ToWalk, ToQueue
<1> QED
  BY <1>4, <1>5, <1>6, <1>7 DEF Pending

(* In a step of a pool thread the look is taken from the queue, and a      *)
(* thread that looks finds the flag or clears it.                          *)
LEMMA PendingWorker ==
    ASSUME TypeInv, NEW w \in Workers, WorkerStep(w), NEW e \in Events, NEW s \in SubReqs,
           Pending(s, e), iftrigure[s], iftrigure'[s]
    PROVE  Pending(s, e)'
<1> USE DEF pubVars, mapVars
<1>1. /\ wpc \in [Workers -> WorkerLocations] /\ wtask \in [Workers -> Nat]
      /\ taskLog \in Seq(SubReqs) /\ taken \in Nat /\ iftrigure \in [SubReqs -> BOOLEAN]
  BY DEF TypeInv, TypeOK, PoolTypes, WrapperTypes
<1>2. /\ UNCHANGED <<ppc, idxs, inner, getIndexMap, taskLog>>
      /\ \A v \in Workers : v # w => wpc'[v] = wpc[v] /\ wtask'[v] = wtask[v]
      /\ taken' = taken \/ PoolTake(w)
  BY <1>1 DEF WorkerStep, PoolTake, NotifyLock, NotifyTest, NotifyClaim, NotifyBuild,
        NotifyPush, NotifyWipe, Finish
<1>3. ASSUME NEW p \in PubReqs, ToCopy(p, e) \/ ToWalk(p, e) \/ ToQueue(p, s)
      PROVE  ToCopy(p, e)' \/ ToWalk(p, e)' \/ ToQueue(p, s)'
  BY <1>2, <1>3 DEF ToCopy, ToWalk, ToQueue, LastEvent
<1>4. ASSUME NEW v \in Workers, v # w, ToLook(v, s) PROVE ToLook(v, s)'
  BY <1>2, <1>4 DEF ToLook, Task
<1>5. ASSUME ToLook(w, s) PROVE ToLook(w, s)'
  <2>1. wpc[w] \in {"lock", "test", "claim"} /\ Task(w) = s
    BY <1>5 DEF ToLook
  <2>2. CASE NotifyLock(w)
    <3>1. wpc'[w] = "test" /\ wtask' = wtask
      BY <1>1, <2>2 DEF NotifyLock
    <3> QED
      BY <1>2, <2>1, <3>1 DEF ToLook, Task
  <2>3. CASE NotifyTest(w)
    <3>1. wpc'[w] = "claim" /\ wtask' = wtask
      BY <1>1, <2>1, <2>3 DEF NotifyTest
    <3> QED
      BY <1>2, <2>1, <3>1 DEF ToLook, Task
  <2>4. CASE NotifyClaim(w)
    BY <1>1, <2>1, <2>4 DEF NotifyClaim
  <2> QED
    BY <2>1, <2>2, <2>3, <2>4 DEF WorkerStep, PoolTake, NotifyBuild, NotifyPush, NotifyWipe
<1>6. ASSUME ToTake(s) PROVE ToTake(s)' \/ ToLook(w, s)'
  <2>1. PICK i \in 1 .. Len(taskLog) : taken < i /\ taskLog[i] = s
    BY <1>6 DEF ToTake
  <2>2. CASE taken' = taken
    BY <1>2, <2>1, <2>2 DEF ToTake
  <2>3. CASE PoolTake(w)
    <3>1. taken' = taken + 1 /\ wtask'[w] = taken + 1 /\ wpc'[w] = "lock"
      BY <1>1, <2>3 DEF PoolTake
    <3>2. CASE i = taken + 1
      BY <1>2, <2>1, <3>1, <3>2 DEF ToLook, Task
    <3>3. CASE i # taken + 1
      <4>1. taken' < i
        BY <1>1, <2>1, <3>1, <3>3
      <4> QED
        BY <1>2, <2>1, <4>1 DEF ToTake
    <3> QED
      BY <3>2, <3>3
  <2> QED
    BY <1>2, <2>2, <2>3
<1> QED
  BY <1>3, <1>4, <1>5, <1>6 DEF Pending

LEMMA PendingStep ==
    ASSUME TypeInv, StillRegistered, IndexInv, UnderIndex, WalkInv, EntryInv, PendingInv,
           [Next]_vars
    PROVE  PendingInv'
<1>1. /\ subtoClient \in [Events -> SUBSET SubReqs] /\ iftrigure \in [SubReqs -> BOOLEAN]
      /\ ppc \in [PubReqs -> PubLocations]
  BY DEF TypeInv, TypeOK, MapTypes, WrapperTypes, HandlerTypes
<1>2. ASSUME NEW e \in Events, NEW s \in SubReqs, Pending(s, e),
             UNCHANGED <<ppc, idxs, inner, taskLog, taken, wpc, wtask>>
      PROVE  Pending(s, e)'
  <2>1. ASSUME NEW p \in PubReqs, ToCopy(p, e) PROVE ToCopy(p, e)'
    <3>1. LastEvent(p) \in Events
      BY <2>1, LastHere DEF ToCopy
    <3>2. getIndexMap[LastEvent(p)] \subseteq getIndexMap'[LastEvent(p)]
      BY <3>1, IndexGrows
    <3> QED
      BY <1>2, <2>1, <3>2 DEF ToCopy, LastEvent
  <2>2. ASSUME NEW p \in PubReqs, ToWalk(p, e) \/ ToQueue(p, s) PROVE ToWalk(p, e)' \/ ToQueue(p, s)'
    BY <1>2, <2>2 DEF ToWalk, ToQueue
  <2>3. (ToTake(s) => ToTake(s)') /\ \A w \in Workers : ToLook(w, s) => ToLook(w, s)'
    BY <1>2 DEF ToTake, ToLook, Task
  <2> QED
    BY <1>2, <2>1, <2>2, <2>3 DEF Pending
<1>3. ASSUME NEW t \in SubReqs, SubStep(t) PROVE PendingInv'
  <2>1. UNCHANGED <<ppc, idxs, inner, taskLog, taken, wpc, wtask>> /\ iftrigure' = iftrigure
    BY <1>3 DEF SubStep, SubCall, SubIndex, SubInsert, pubVars, poolVars, trigVars
  <2>2. ASSUME NEW e \in Events, NEW s \in subtoClient'[e], iftrigure'[s]
        PROVE  s \in subtoClient[e]
    <3>1. CASE SubCall(t) \/ SubIndex(t)
      BY <2>2, <3>1 DEF SubCall, SubIndex, mapVars
    <3>2. CASE SubInsert(t)
      <4>1. /\ subtoClient' = [subtoClient EXCEPT ![IndexEvent(t)] = WithClient(IndexEvent(t), t)]
            /\ spc[t] = "insert"
        BY <3>2 DEF SubInsert
      <4>2. subtoClient'[e] \subseteq subtoClient[e] \cup {t}
        BY <1>1, <4>1 DEF WithClient
      <4>3. ~ iftrigure[t]
        BY <4>1 DEF EntryInv
      <4> QED
        BY <2>1, <2>2, <4>2, <4>3
    <3> QED
      BY <1>3, <3>1, <3>2 DEF SubStep
  <2> QED
    BY <1>1, <1>2, <2>1, <2>2 DEF PendingInv
<1>4. ASSUME NEW p \in PubReqs, PubStep(p) PROVE PendingInv'
  <2>1. subtoClient' = subtoClient
    <3>1. CASE PubCall(p) \/ PubEvent(p) \/ PubIndex(p) \/ PubClient(p)
      BY <3>1 DEF PubCall, PubEvent, PubIndex, PubClient, mapVars
    <3>2. CASE PubInit(p) \/ PubStore(p) \/ PubMatch(p) \/ PubSetMeta(p) \/ PubSetFlag(p)
      BY <3>2 DEF PubInit, PubStore, PubMatch, PubSetMeta, PubSetFlag, mapVars
    <3>3. CASE PubNotify(p) \/ PubNotifyIndex(p) \/ PubEnqueue(p) \/ PubResult(p)
      BY <3>3 DEF PubNotify, PubNotifyIndex, PubEnqueue, PubResult, mapVars
    <3> QED
      BY <1>4, <3>1, <3>2, <3>3 DEF PubStep
  <2> SUFFICES ASSUME NEW e \in Events, NEW s \in subtoClient[e], iftrigure'[s]
               PROVE  Pending(s, e)'
    BY <2>1 DEF PendingInv
  <2>2. CASE iftrigure[s]
    BY <1>4, <2>2, PendingHandler DEF PendingInv
  <2>3. CASE ~ iftrigure[s]
    <3>1. PubSetFlag(p) /\ s = Registered(p)
      <4>1. s \in SubReqs
        BY <1>1
      <4>2. iftrigure' = iftrigure
            \/ (PubSetFlag(p) /\ iftrigure' = [iftrigure EXCEPT ![Registered(p)] = TRUE])
        <5>1. CASE PubCall(p) \/ PubEvent(p) \/ PubIndex(p) \/ PubClient(p)
          BY <5>1 DEF PubCall, PubEvent, PubIndex, PubClient, trigVars
        <5>2. CASE PubInit(p) \/ PubStore(p) \/ PubMatch(p) \/ PubSetMeta(p)
          BY <5>2 DEF PubInit, PubStore, PubMatch, PubSetMeta, trigVars
        <5>3. CASE PubNotify(p) \/ PubNotifyIndex(p) \/ PubEnqueue(p) \/ PubResult(p)
          BY <5>3 DEF PubNotify, PubNotifyIndex, PubEnqueue, PubResult, trigVars
        <5>4. PubSetFlag(p) => iftrigure' = [iftrigure EXCEPT ![Registered(p)] = TRUE]
          BY DEF PubSetFlag
        <5> QED
          BY <1>4, <5>1, <5>2, <5>3, <5>4 DEF PubStep
      <4> QED
        BY <1>1, <2>3, <4>1, <4>2
    <3>2. ppc[p] = "setflag" /\ ppc[p] \in Walking /\ Advance(p, inner[p], idxs[p])
          /\ getIndexMap' = getIndexMap
      BY <3>1 DEF PubSetFlag, Walking, mapVars
    <3>3. idx[p] \in Events /\ HasEntry(p, psw[p])
      BY <3>2 DEF StillRegistered, Matching
    <3>4. s \in subtoClient[idx[p]]
      BY <3>1, <3>3 DEF HasEntry, Registered
    <3>5. e = idx[p]
      BY <3>3, <3>4 DEF UnderIndex
    <3>6. idx[p] \in getIndexMap[LastEvent(p)] /\ PubMsg[p].events # <<>>
      BY <3>2, LastHere DEF WalkInv, Matching
    <3>7. ppc'[p] \in Walking \cup {"notify"}
      BY <1>1, <3>2, AdvanceCases DEF Walking
    <3>8. ToCopy(p, e)'
      BY <3>2, <3>5, <3>6, <3>7 DEF ToCopy, LastEvent
    <3> QED
      BY <3>8 DEF Pending
  <2> QED
    BY <2>2, <2>3
<1>5. ASSUME NEW w \in Workers, WorkerStep(w) PROVE PendingInv'
  <2>1. subtoClient' = subtoClient
    BY <1>5 DEF WorkerStep, PoolTake, NotifyLock, NotifyTest, NotifyClaim, NotifyBuild,
        NotifyPush, NotifyWipe, mapVars
  <2>2. ASSUME NEW s \in SubReqs, iftrigure'[s] PROVE iftrigure[s]
    <3>1. iftrigure' = iftrigure \/ iftrigure' = [iftrigure EXCEPT ![Task(w)] = FALSE]
      BY <1>5 DEF WorkerStep, PoolTake, NotifyLock, NotifyTest, NotifyClaim, NotifyBuild,
        NotifyPush, NotifyWipe, trigVars
    <3> QED
      BY <1>1, <2>2, <3>1
  <2> QED
    BY <1>1, <1>5, <2>1, <2>2, PendingWorker DEF PendingInv
<1>6. CASE CheckStep \/ DrainStep \/ UNCHANGED vars
  <2>1. UNCHANGED <<ppc, idxs, inner, taskLog, taken, wpc, wtask, subtoClient, iftrigure>>
    BY <1>6 DEF CheckStep, CheckLock, CheckGet, DrainStep, DrainSize, DrainFront, DrainPop, vars,
        pubVars, poolVars, mapVars, trigVars
  <2> QED
    BY <1>1, <1>2, <2>1 DEF PendingInv
<1> QED
  BY <1>3, <1>4, <1>5, <1>6 DEF Next, Poll

RestInv == IndexInv /\ UnderIndex /\ WalkInv /\ EntryInv /\ PendingInv

(* startNotify runs after all triggers of the publication were set, for    *)
(* the index events of the last event: when nobody asks for an earlier one *)
(* in the list, no registered wrapper is left with its flag set at rest,   *)
(* although publications set the flag and pool threads clear it under      *)
(* different mutexes.                                                      *)
THEOREM NothingLeftBehind == OnlyLastWanted => (Spec => []NoTriggerLeftBehind)
<1> SUFFICES ASSUME OnlyLastWanted PROVE Spec => []NoTriggerLeftBehind
  OBVIOUS
<1>1. Init => RestInv
  <2> SUFFICES ASSUME Init PROVE RestInv
    OBVIOUS
  <2>1. UnderIndex
    BY DEF Init, UnderIndex, Matching
  <2>2. WalkInv
    <3>1. ASSUME NEW e \in Events, getIndexMap[e] # {}
          PROVE  \E s \in SubReqs : e \in {r.event : r \in requiredeventMap(s)}
      <4>1. \E t \in Preset : \E r \in requiredeventMap(t) : r.event = e
        BY <3>1 DEF Init
      <4> QED
        BY <4>1, PresetAssumption
    <3> QED
      BY <3>1 DEF Init, WalkInv, Matching
  <2>3. EntryInv
    <3>1. \A s \in SubReqs : ~ iftrigure[s]
      BY DEF Init
    <3>2. \A s \in Preset : s \in SubReqs /\ spc[s] = "done"
      BY PresetAssumption DEF Init
    <3>3. \A e \in Events : subtoClient[e] \subseteq Preset
      BY DEF Init
    <3> QED
      BY <3>1, <3>2, <3>3 DEF EntryInv
  <2>4. PendingInv
    BY PresetAssumption DEF Init, PendingInv
  <2> QED
    BY <2>1, <2>2, <2>3, <2>4, InitIndex DEF RestInv
<1>2. TypeInv /\ StillRegistered /\ RestInv /\ [Next]_vars => RestInv'
  BY IndexStep, UnderIndexStep, WalkStep, EntryStep, PendingStep DEF RestInv
<1>3. TypeInv /\ RestInv => NoTriggerLeftBehind
  <2> SUFFICES ASSUME TypeInv, RestInv, Quiet, NEW e \in Events, NEW s \in subtoClient[e], iftrigure[s]
               PROVE  FALSE
    BY DEF NoTriggerLeftBehind
  <2>1. Pending(s, e)
    BY DEF RestInv, PendingInv
  <2>2. ~ ToTake(s)
    BY LenProperties DEF Quiet, ToTake, TypeInv, TypeOK, PoolTypes
  <2>3. \A p \in PubReqs : ~ ToCopy(p, e) /\ ~ ToWalk(p, e) /\ ~ ToQueue(p, s)
    BY DEF Quiet, ToCopy, ToWalk, ToQueue, Walking
  <2>4. \A w \in Workers : ~ ToLook(w, s)
    BY DEF Quiet, ToLook
  <2> QED
    BY <2>1, <2>2, <2>3, <2>4 DEF Pending
<1> QED
  BY <1>1, <1>2, <1>3, TypeInvariant, EntryExists, PTL DEF Spec
=============================================================================
