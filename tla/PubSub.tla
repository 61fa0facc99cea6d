------------------------------- MODULE PubSub -------------------------------
(***************************************************************************)
(* One pub/sub server process: the Subscribe and Publish RPC handlers      *)
(* (one gRPC thread per request), the pool threads that run checkNotify,   *)
(* the check() thread that waits for their futures, and the                *)
(* getElementFromNotifyQ() thread that starts one task per notification    *)
(* (src/src/server/pubsub.cc and src/src/server/workflowserver.cc).        *)
(*                                                                         *)
(* A request is a record and is handled at most once; the wrapper that a   *)
(* Subscribe allocates is named by its request, and the metadata string of *)
(* a Publish by its request.  A step ends where another thread can observe *)
(* or change what the code is using: at every lock, unlock and every       *)
(* access to shared data that no common lock protects.                     *)
(***************************************************************************)
EXTENDS Integers, Sequences, FiniteSets, GridMatch

CONSTANTS
    Events,     \* event names, without the ":num" suffix
    Clients,    \* non-empty client ids
    SubReqs,    \* the Subscribe calls, each naming the wrapper it allocates
    SubMsg,     \* their contents: client, events, matchType, grid
    Preset,     \* the ones complete when the first call arrives (RunServer's)
    PubReqs,    \* the Publish calls, each naming the metadata it carries
    PubMsg,     \* their contents: events, matchType, grid
    Workers,    \* the threads of the pool
    MaxBatch,   \* notifications taken per round, 512 in the code
    None        \* no owner, no metadata

MatchTypes == {"NAME", "META_GRID", "OTHER"}

SubRequest == [client    : Clients \cup {""},
               events    : Seq([event : Events, num : Nat]) \ {<<>>},
               matchType : MatchTypes,
               grid      : Box \cup {NoGrid}]

PubRequest == [events    : Seq(Events),
               matchType : MatchTypes \cup {""},
               grid      : Box]

ASSUME MsgAssumption ==
    /\ SubMsg \in [SubReqs -> SubRequest]
    /\ PubMsg \in [PubReqs -> PubRequest]

(* The test clients of RunServer: distinct ids, so no entry replaces another. *)
ASSUME PresetAssumption ==
    /\ Preset \subseteq SubReqs
    /\ \A s \in Preset : SubMsg[s].client # ""
    /\ \A s, t \in Preset : SubMsg[s].client = SubMsg[t].client => s = t

ASSUME PoolAssumption ==
    /\ IsFiniteSet(Workers) /\ Workers # {}
    /\ MaxBatch \in Nat \ {0}
    /\ None \notin Workers \cup PubReqs \cup SubReqs \cup Events

VARIABLES
    getIndexMap,    \* event -> index events; a key is absent when its set is empty
    subKeys,        \* the index events that are keys of subtoClient
    subtoClient,    \* index event -> wrappers, at most one per client
    publishedEvent, \* wrapper -> event -> times published, 0 when absent
    pubMetadata,    \* wrapper -> metadata of its last triggering publication
    iftrigure,      \* wrapper -> triggered and not yet claimed
    pswmtx,         \* wrapper -> the pool thread holding its mutex
    subtoClientMtx, \* the publication holding the mutex of subtoClient
    resultmutex,    \* check() holds the mutex of resultQueue
    spc, spos,      \* Subscribe handlers: control, position in the event list
    ppc, pos,       \* Publish handlers: control, position in the event list
    idxs, idx,      \*   index events still to visit, and the one being visited
    inner, psw,     \*   wrappers still to visit, and the one being visited
    val,            \*   the count read by publishedEvent[...]++, or Freed
    ticket,         \*   the task just enqueued
    taskLog, taken, \* the pool's queue: every task in order, how many are gone
    finished,       \* tasks whose future is ready
    wpc, wtask,     \* pool threads: control, the task being run
    ninfo,          \*   the metadata copied into the NotifyInfo
    resultQueue,    \* the futures the check() thread waits for, in order
    notifyQueue, npc, iter, \* the notifications and the draining thread
    triggers,       \* history: times a wrapper was triggered
    notified,       \* history: notifications queued for a wrapper
    started,        \* history: the tasks started, in order
    known,          \* history: subscriptions complete when a Publish began
    visited         \* history: <<position, wrapper>> pairs a Publish reached

mapVars   == <<getIndexMap, subKeys, subtoClient>>
trigVars  == <<pubMetadata, iftrigure, triggers>>
mtxVars   == <<pswmtx, subtoClientMtx, resultmutex>>
subVars   == <<spc, spos>>
pubVars   == <<ppc, pos, idxs, idx, inner, psw, ticket>>
poolVars  == <<taskLog, taken, finished, wpc, wtask, ninfo>>
drainVars == <<notifyQueue, npc, iter, started>>
obsVars   == <<known, visited>>
vars == <<mapVars, publishedEvent, trigVars, mtxVars, subVars, pubVars, val,
          poolVars, resultQueue, drainVars, notified, obsVars>>

(* The count a handler was incrementing was destroyed by deletePubEvent. *)
Freed == -1

-----------------------------------------------------------------------------
(* The first event of a subscription is its index event. *)
IndexEvent(s) == SubMsg[s].events[1].event

(* ParseEvent has split "event:num"; requiredeventMap is the set of pairs. *)
requiredeventMap(s) == {SubMsg[s].events[i] : i \in DOMAIN SubMsg[s].events}

(* Publish replaces an empty match type by NAME. *)
MatchType(p) == IF PubMsg[p].matchType = "" THEN "NAME" ELSE PubMsg[p].matchType

Event(p) == PubMsg[p].events[pos[p]]

MutErase(e, s) == {t \in subtoClient[e] : SubMsg[t].client # SubMsg[s].client}

(* The wrapper becomes the entry of its client under index event e, in     *)
(* place of an older one.                                                  *)
WithClient(e, s) == {t \in subtoClient[e] : SubMsg[t].client # SubMsg[s].client} \cup {s}

(* subtoClient[indexEvent][clientId]: the wrapper that is registered now,  *)
(* which need not be the one the handler copied before.                    *)
Registered(p) == CHOOSE t \in subtoClient[idx[p]] : SubMsg[t].client = SubMsg[psw[p]].client

MutAnyCount(s) ==
    \A r \in requiredeventMap(s) : publishedEvent[s][r.event] # 0

(* Every required event was published, exactly the required number of times. *)
checkIfTriggure(s) ==
    \A r \in requiredeventMap(s) :
        /\ publishedEvent[s][r.event] # 0
        /\ publishedEvent[s][r.event] = r.num

-----------------------------------------------------------------------------
Init ==
    /\ getIndexMap = [e \in Events |->
         {IndexEvent(s) : s \in {t \in Preset : \E r \in requiredeventMap(t) : r.event = e}}]
    /\ subKeys = {IndexEvent(s) : s \in Preset}
    /\ subtoClient = [e \in Events |-> {s \in Preset : IndexEvent(s) = e}]
    /\ publishedEvent = [s \in SubReqs |-> [e \in Events |-> 0]]
    /\ pubMetadata = [s \in SubReqs |-> None]
    /\ iftrigure = [s \in SubReqs |-> FALSE]
    /\ pswmtx = [s \in SubReqs |-> None]
    /\ subtoClientMtx = None
    /\ resultmutex = FALSE
    /\ spc = [s \in SubReqs |-> IF s \in Preset THEN "done" ELSE "new"]
    /\ spos = [s \in SubReqs |-> 1]
    /\ ppc = [p \in PubReqs |-> "new"]
    /\ pos = [p \in PubReqs |-> 1]
    /\ idxs = [p \in PubReqs |-> {}]
    /\ idx = [p \in PubReqs |-> None]
    /\ inner = [p \in PubReqs |-> {}]
    /\ psw = [p \in PubReqs |-> None]
    /\ val = [p \in PubReqs |-> 0]
    /\ ticket = [p \in PubReqs |-> 0]
    /\ taskLog = <<>>
    /\ taken = 0
    /\ finished = {}
    /\ wpc = [w \in Workers |-> "idle"]
    /\ wtask = [w \in Workers |-> 0]
    /\ ninfo = [w \in Workers |-> None]
    /\ resultQueue = <<>>
    /\ notifyQueue = <<>>
    /\ npc = "size"
    /\ iter = 0
    /\ triggers = [s \in SubReqs |-> 0]
    /\ notified = [s \in SubReqs |-> 0]
    /\ started = <<>>
    /\ known = [p \in PubReqs |-> {}]
    /\ visited = [p \in PubReqs |-> {}]

-----------------------------------------------------------------------------
(* Subscribe and addNewClient *)

(* An empty client id is answered without subscribing. *)
SubCall(s) ==
    /\ spc[s] = "new"
    /\ spc' = [spc EXCEPT ![s] = IF SubMsg[s].client = "" THEN "done" ELSE "index"]
    /\ UNCHANGED <<mapVars, publishedEvent, trigVars, mtxVars, spos, pubVars, val,
                   poolVars, resultQueue, drainVars, notified, obsVars>>

MutIndexFirst(s) ==
    /\ spc[s] = "index"
    /\ getIndexMap' = [getIndexMap EXCEPT ![IndexEvent(s)] = @ \cup {IndexEvent(s)}]
    /\ spos' = [spos EXCEPT ![s] = @ + 1]
    /\ spc' = [spc EXCEPT ![s] = IF spos[s] = Len(SubMsg[s].events) THEN "insert" ELSE "index"]
    /\ UNCHANGED <<subKeys, subtoClient, publishedEvent, trigVars, mtxVars, pubVars,
                   val, poolVars, resultQueue, drainVars, notified, obsVars>>

(* One round of the loop over the event list, under getIndexMtx. *)
SubIndex(s) ==
    /\ spc[s] = "index"
    /\ LET e == SubMsg[s].events[spos[s]].event
       IN getIndexMap' = [getIndexMap EXCEPT ![e] = @ \cup {IndexEvent(s)}]
    /\ spos' = [spos EXCEPT ![s] = @ + 1]
    /\ spc' = [spc EXCEPT ![s] = IF spos[s] = Len(SubMsg[s].events) THEN "insert" ELSE "index"]
    /\ UNCHANGED <<subKeys, subtoClient, publishedEvent, trigVars, mtxVars, pubVars,
                   val, poolVars, resultQueue, drainVars, notified, obsVars>>

(* The wrapper becomes reachable, under subtoClientMtx, after the index. *)
SubInsert(s) ==
    /\ spc[s] = "insert"
    /\ subtoClientMtx = None
    /\ subKeys' = subKeys \cup {IndexEvent(s)}
    /\ subtoClient' = [subtoClient EXCEPT ![IndexEvent(s)] = WithClient(IndexEvent(s), s)]
    /\ spc' = [spc EXCEPT ![s] = "done"]
    /\ UNCHANGED <<getIndexMap, publishedEvent, trigVars, mtxVars, spos, pubVars, val,
                   poolVars, resultQueue, drainVars, notified, obsVars>>

SubStep(s) == SubCall(s) \/ SubIndex(s) \/ SubInsert(s)

-----------------------------------------------------------------------------
(* Publish and pubsubPublish *)

(* Where the three nested loops of pubsubPublish go on, with clients cs of *)
(* the current index event and index events es of the current event left.  *)
Advance(p, cs, es) ==
    LET over == cs = {} /\ es = {}
        next == pos[p] + 1
    IN /\ pos' = IF over THEN [pos EXCEPT ![p] = next] ELSE pos
       /\ ppc' = [ppc EXCEPT ![p] =
                    IF cs # {} THEN "client"
                    ELSE IF es # {} THEN "index"
                    ELSE IF next <= Len(PubMsg[p].events) THEN "event" ELSE "notify"]

PubCall(p) ==
    /\ ppc[p] = "new"
    /\ ppc' = [ppc EXCEPT ![p] = IF PubMsg[p].events = <<>> THEN "notify" ELSE "event"]
    /\ known' = [known EXCEPT ![p] = {s \in SubReqs : spc[s] = "done" /\ SubMsg[s].client # ""}]
    /\ UNCHANGED <<mapVars, publishedEvent, trigVars, mtxVars, subVars, pos, idxs, idx,
                   inner, psw, ticket, val, poolVars, resultQueue, drainVars, notified,
                   visited>>

(* The head of the loop over the event list: an event nobody indexed is    *)
(* skipped, otherwise its index set is copied under getIndexMtx.           *)
PubEvent(p) ==
    /\ ppc[p] = "event"
    /\ idxs' = [idxs EXCEPT ![p] = getIndexMap[Event(p)]]
    /\ Advance(p, {}, getIndexMap[Event(p)])
    /\ UNCHANGED <<mapVars, publishedEvent, trigVars, mtxVars, subVars, idx, inner, psw,
                   ticket, val, poolVars, resultQueue, drainVars, notified, obsVars>>

(* One index event of the copied set.  When it is not a key of subtoClient *)
(* pubsubPublish returns: the clients of the other index events and the    *)
(* remaining events of the list are not looked at.                         *)
PubIndex(p) ==
    /\ ppc[p] = "index"
    /\ subtoClientMtx = None
    /\ \E e \in idxs[p] :
         /\ idxs' = [idxs EXCEPT ![p] = @ \ {e}]
         /\ \/ /\ e \notin subKeys
               /\ ppc' = [ppc EXCEPT ![p] = "notify"]
               /\ UNCHANGED <<pos, idx, inner>>
            \/ /\ e \in subKeys
               /\ inner' = [inner EXCEPT ![p] = subtoClient[e]]
               /\ idx' = [idx EXCEPT ![p] = e]
               /\ Advance(p, subtoClient[e], idxs[p] \ {e})
    /\ UNCHANGED <<mapVars, publishedEvent, trigVars, mtxVars, subVars, psw, ticket, val,
                   poolVars, resultQueue, drainVars, notified, obsVars>>

(* One client of the copied map.  Under NAME the count is looked up, set   *)
(* to 0 by PubInit when it was not there, and stored by PubStore: no lock  *)
(* protects any of it.                                                     *)
PubClient(p) ==
    /\ ppc[p] = "client"
    /\ \E s \in inner[p] :
         /\ inner' = [inner EXCEPT ![p] = @ \ {s}]
         /\ psw' = [psw EXCEPT ![p] = s]
         /\ visited' = [visited EXCEPT ![p] = @ \cup {<<pos[p], s>>}]
         /\ \/ /\ MatchType(p) = "NAME"
               /\ val' = [val EXCEPT ![p] = publishedEvent[s][Event(p)]]
               /\ ppc' = [ppc EXCEPT ![p] =
                            IF publishedEvent[s][Event(p)] = 0 THEN "init" ELSE "store"]
               /\ UNCHANGED pos
            \/ /\ MatchType(p) = "META_GRID" /\ checkIfTriggureMetaGrid(SubMsg[s].grid, PubMsg[p].grid)
               /\ ppc' = [ppc EXCEPT ![p] = "setmeta"]
               /\ UNCHANGED <<val, pos>>
            \/ /\ MatchType(p) # "NAME"
               /\ ~ (MatchType(p) = "META_GRID" /\ checkIfTriggureMetaGrid(SubMsg[s].grid, PubMsg[p].grid))
               /\ Advance(p, inner[p] \ {s}, idxs[p])
               /\ UNCHANGED val
    /\ UNCHANGED <<mapVars, publishedEvent, trigVars, mtxVars, subVars, idxs, idx,
                   ticket, poolVars, resultQueue, drainVars, notified, known>>

(* publishedEvent[...] = 0, also when another publication counted since.   *)
PubInit(p) ==
    /\ ppc[p] = "init"
    /\ publishedEvent' = [publishedEvent EXCEPT ![psw[p]][Event(p)] = 0]
    /\ val' = [val EXCEPT ![p] = 0]
    /\ ppc' = [ppc EXCEPT ![p] = "store"]
    /\ UNCHANGED <<mapVars, trigVars, mtxVars, subVars, pos, idxs, idx, inner, psw,
                   ticket, poolVars, resultQueue, drainVars, notified, obsVars>>

(* The second half of publishedEvent[...]++.  When deletePubEvent cleared  *)
(* the map in between, the store goes to a freed node and counts nothing.  *)
PubStore(p) ==
    /\ ppc[p] = "store"
    /\ publishedEvent' =
         IF val[p] = Freed THEN publishedEvent
         ELSE [publishedEvent EXCEPT ![psw[p]][Event(p)] = val[p] + 1]
    /\ ppc' = [ppc EXCEPT ![p] = "match"]
    /\ UNCHANGED <<mapVars, trigVars, mtxVars, subVars, pos, idxs, idx, inner, psw,
                   ticket, val, poolVars, resultQueue, drainVars, notified, obsVars>>

PubMatch(p) ==
    /\ ppc[p] = "match"
    /\ IF checkIfTriggure(psw[p])
       THEN ppc' = [ppc EXCEPT ![p] = "setmeta"] /\ UNCHANGED pos
       ELSE Advance(p, inner[p], idxs[p])
    /\ UNCHANGED <<mapVars, publishedEvent, trigVars, mtxVars, subVars, idxs, idx, inner,
                   psw, ticket, val, poolVars, resultQueue, drainVars, notified, obsVars>>

MutSetMeta(p) ==
    /\ ppc[p] = "setmeta"
    /\ subtoClientMtx = None
    /\ subtoClientMtx' = p
    /\ ppc' = [ppc EXCEPT ![p] = "setflag"]
    /\ iftrigure' = [iftrigure EXCEPT ![Registered(p)] = TRUE]
    /\ UNCHANGED <<pubMetadata, triggers>>
    /\ UNCHANGED <<mapVars, publishedEvent, pswmtx, resultmutex, subVars, pos, idxs, idx,
                   inner, psw, ticket, val, poolVars, resultQueue, drainVars, notified,
                   obsVars>>

(* The two assignments under subtoClientMtx.  They are two steps because   *)
(* checkNotify reads both fields under other locks or under none.          *)
PubSetMeta(p) ==
    /\ ppc[p] = "setmeta"
    /\ subtoClientMtx = None
    /\ subtoClientMtx' = p
    /\ pubMetadata' = [pubMetadata EXCEPT ![Registered(p)] = p]
    /\ ppc' = [ppc EXCEPT ![p] = "setflag"]
    /\ UNCHANGED <<iftrigure, triggers>>
    /\ UNCHANGED <<mapVars, publishedEvent, pswmtx, resultmutex, subVars, pos, idxs, idx,
                   inner, psw, ticket, val, poolVars, resultQueue, drainVars, notified,
                   obsVars>>

PubSetFlag(p) ==
    /\ ppc[p] = "setflag"
    /\ iftrigure' = [iftrigure EXCEPT ![Registered(p)] = TRUE]
    /\ triggers' = [triggers EXCEPT ![Registered(p)] = @ + 1]
    /\ subtoClientMtx' = None
    /\ Advance(p, inner[p], idxs[p])
    /\ UNCHANGED <<mapVars, publishedEvent, pubMetadata, pswmtx, resultmutex, subVars,
                   idxs, idx, inner, psw, ticket, val, poolVars, resultQueue,
                   drainVars, notified, obsVars>>

-----------------------------------------------------------------------------
(* The rest of Publish, and startNotify *)

(* eventStr is the last event of the list here: only its index events are  *)
(* notified.  Nobody indexed it, or the list is empty: reply at once.      *)
PubNotify(p) ==
    /\ ppc[p] = "notify"
    /\ LET indexed == IF PubMsg[p].events = <<>> THEN {}
                      ELSE getIndexMap[PubMsg[p].events[Len(PubMsg[p].events)]]
       IN /\ idxs' = [idxs EXCEPT ![p] = indexed]
          /\ ppc' = [ppc EXCEPT ![p] = IF indexed = {} THEN "done" ELSE "nindex"]
    /\ UNCHANGED <<mapVars, publishedEvent, trigVars, mtxVars, subVars, pos, idx, inner,
                   psw, ticket, val, poolVars, resultQueue, drainVars, notified, obsVars>>

(* Where the two loops of startNotify go on. *)
AdvanceNotify(p, cs, es) ==
    ppc' = [ppc EXCEPT ![p] =
              IF cs # {} THEN "nwrap" ELSE IF es # {} THEN "nindex" ELSE "done"]

(* startNotify copies subtoClient[indexEvent] with operator[], which makes *)
(* the index event a key when it was not one.                              *)
PubNotifyIndex(p) ==
    /\ ppc[p] = "nindex"
    /\ \E e \in idxs[p] :
         /\ idxs' = [idxs EXCEPT ![p] = @ \ {e}]
         /\ inner' = [inner EXCEPT ![p] = subtoClient[e]]
         /\ subKeys' = subKeys \cup {e}
         /\ AdvanceNotify(p, subtoClient[e], idxs[p] \ {e})
    /\ UNCHANGED <<getIndexMap, subtoClient, publishedEvent, trigVars, mtxVars, subVars,
                   pos, idx, psw, ticket, val, poolVars, resultQueue, drainVars, notified,
                   obsVars>>

(* One checkNotify task per copied wrapper (ThreadPool::enqueue). *)
PubEnqueue(p) ==
    /\ ppc[p] = "nwrap"
    /\ subtoClientMtx = None
    /\ \E s \in inner[p] :
         /\ inner' = [inner EXCEPT ![p] = @ \ {s}]
         /\ taskLog' = Append(taskLog, s)
    /\ ticket' = [ticket EXCEPT ![p] = Len(taskLog) + 1]
    /\ ppc' = [ppc EXCEPT ![p] = "nresult"]
    /\ UNCHANGED <<mapVars, publishedEvent, trigVars, mtxVars, subVars, pos, idxs, idx,
                   psw, val, taken, finished, wpc, wtask, ninfo, resultQueue, drainVars,
                   notified, obsVars>>

(* Its future is queued for check(). *)
PubResult(p) ==
    /\ ppc[p] = "nresult"
    /\ ~ resultmutex
    /\ resultQueue' = Append(resultQueue, ticket[p])
    /\ AdvanceNotify(p, inner[p], idxs[p])
    /\ UNCHANGED <<mapVars, publishedEvent, trigVars, mtxVars, subVars, pos, idxs, idx,
                   inner, psw, ticket, val, poolVars, drainVars, notified, obsVars>>

PubStep(p) ==
    \/ PubCall(p) \/ PubEvent(p) \/ PubIndex(p) \/ PubClient(p) \/ PubInit(p)
    \/ PubStore(p) \/ PubMatch(p) \/ PubSetMeta(p) \/ PubSetFlag(p) \/ PubNotify(p)
    \/ PubNotifyIndex(p) \/ PubEnqueue(p) \/ PubResult(p)

-----------------------------------------------------------------------------
(* The pool threads and checkNotify *)

Task(w) == taskLog[wtask[w]]

(* checkNotify returns and its future becomes ready. *)
Finish(w) ==
    /\ finished' = finished \cup {wtask[w]}
    /\ wpc' = [wpc EXCEPT ![w] = "idle"]
    /\ wtask' = [wtask EXCEPT ![w] = 0]

PoolTake(w) ==
    /\ wpc[w] = "idle"
    /\ taken < Len(taskLog)
    /\ taken' = taken + 1
    /\ wtask' = [wtask EXCEPT ![w] = taken + 1]
    /\ wpc' = [wpc EXCEPT ![w] = "lock"]
    /\ UNCHANGED <<mapVars, publishedEvent, trigVars, mtxVars, subVars, pubVars, val,
                   taskLog, finished, ninfo, resultQueue, drainVars, notified, obsVars>>

MutNoLock(w) ==
    /\ wpc[w] = "lock"
    /\ pswmtx' = [pswmtx EXCEPT ![Task(w)] = w]
    /\ wpc' = [wpc EXCEPT ![w] = "test"]
    /\ UNCHANGED <<mapVars, publishedEvent, trigVars, subtoClientMtx, resultmutex,
                   subVars, pubVars, val, taskLog, taken, finished, wtask, ninfo,
                   resultQueue, drainVars, notified, obsVars>>

NotifyLock(w) ==
    /\ wpc[w] = "lock"
    /\ pswmtx[Task(w)] = None
    /\ pswmtx' = [pswmtx EXCEPT ![Task(w)] = w]
    /\ wpc' = [wpc EXCEPT ![w] = "test"]
    /\ UNCHANGED <<mapVars, publishedEvent, trigVars, subtoClientMtx, resultmutex,
                   subVars, pubVars, val, taskLog, taken, finished, wtask, ninfo,
                   resultQueue, drainVars, notified, obsVars>>

MutKeepLock(w) ==
    /\ wpc[w] = "test"
    /\ \/ /\ ~ iftrigure[Task(w)]
          /\ Finish(w)
       \/ /\ iftrigure[Task(w)]
          /\ wpc' = [wpc EXCEPT ![w] = "claim"]
          /\ UNCHANGED <<finished, wtask>>
    /\ UNCHANGED <<mapVars, publishedEvent, trigVars, mtxVars, subVars, pubVars, val,
                   taskLog, taken, ninfo, resultQueue, drainVars, notified, obsVars>>

(* Not triggered: unlock and return, the future is ready. *)
NotifyTest(w) ==
    /\ wpc[w] = "test"
    /\ \/ /\ ~ iftrigure[Task(w)]
          /\ pswmtx' = [pswmtx EXCEPT ![Task(w)] = None]
          /\ Finish(w)
       \/ /\ iftrigure[Task(w)]
          /\ wpc' = [wpc EXCEPT ![w] = "claim"]
          /\ UNCHANGED <<pswmtx, finished, wtask>>
    /\ UNCHANGED <<mapVars, publishedEvent, trigVars, subtoClientMtx, resultmutex,
                   subVars, pubVars, val, taskLog, taken, ninfo, resultQueue,
                   drainVars, notified, obsVars>>

MutKeepFlag(w) ==
    /\ wpc[w] = "claim"
    /\ pswmtx' = [pswmtx EXCEPT ![Task(w)] = None]
    /\ wpc' = [wpc EXCEPT ![w] = "build"]
    /\ UNCHANGED <<mapVars, publishedEvent, trigVars, subtoClientMtx, resultmutex,
                   subVars, pubVars, val, taskLog, taken, finished, wtask, ninfo,
                   resultQueue, drainVars, notified, obsVars>>

(* "avoid notify multiple times" *)
NotifyClaim(w) ==
    /\ wpc[w] = "claim"
    /\ iftrigure' = [iftrigure EXCEPT ![Task(w)] = FALSE]
    /\ pswmtx' = [pswmtx EXCEPT ![Task(w)] = None]
    /\ wpc' = [wpc EXCEPT ![w] = "build"]
    /\ UNCHANGED <<mapVars, publishedEvent, pubMetadata, triggers, subtoClientMtx,
                   resultmutex, subVars, pubVars, val, taskLog, taken, finished, wtask,
                   ninfo, resultQueue, drainVars, notified, obsVars>>

(* The NotifyInfo is filled in after the mutex was released. *)
NotifyBuild(w) ==
    /\ wpc[w] = "build"
    /\ ninfo' = [ninfo EXCEPT ![w] = pubMetadata[Task(w)]]
    /\ wpc' = [wpc EXCEPT ![w] = "push"]
    /\ UNCHANGED <<mapVars, publishedEvent, trigVars, mtxVars, subVars, pubVars, val,
                   taskLog, taken, finished, wtask, resultQueue, drainVars, notified,
                   obsVars>>

(* push_back under nqmutex; only a NAME subscription resets its counts. *)
NotifyPush(w) ==
    /\ wpc[w] = "push"
    /\ notifyQueue' = Append(notifyQueue, [psw |-> Task(w), meta |-> ninfo[w]])
    /\ notified' = [notified EXCEPT ![Task(w)] = @ + 1]
    /\ ninfo' = [ninfo EXCEPT ![w] = None]
    /\ IF SubMsg[Task(w)].matchType = "NAME"
       THEN /\ wpc' = [wpc EXCEPT ![w] = "wipe"]
            /\ UNCHANGED <<finished, wtask>>
       ELSE Finish(w)
    /\ UNCHANGED <<mapVars, publishedEvent, trigVars, mtxVars, subVars, pubVars, val,
                   taskLog, taken, resultQueue, npc, iter, started, obsVars>>

MutDecrement(w) ==
    /\ wpc[w] = "wipe"
    /\ subtoClientMtx = None
    /\ publishedEvent' = [publishedEvent EXCEPT
                            ![Task(w)] = [e \in Events |-> publishedEvent[Task(w)][e] - 1]]
    /\ Finish(w)
    /\ UNCHANGED <<mapVars, trigVars, mtxVars, subVars, pubVars, val, taskLog, taken,
                   ninfo, resultQueue, drainVars, notified, obsVars>>

(* deletePubEvent under subtoClientMtx, which no increment ever holds. *)
NotifyWipe(w) ==
    /\ wpc[w] = "wipe"
    /\ subtoClientMtx = None
    /\ publishedEvent' = [publishedEvent EXCEPT ![Task(w)] = [e \in Events |-> 0]]
    /\ val' = [p \in PubReqs |->
                 IF ppc[p] = "store" /\ psw[p] = Task(w) THEN Freed ELSE val[p]]
    /\ Finish(w)
    /\ UNCHANGED <<mapVars, trigVars, mtxVars, subVars, pubVars, taskLog, taken, ninfo,
                   resultQueue, drainVars, notified, obsVars>>

WorkerStep(w) ==
    \/ PoolTake(w) \/ NotifyLock(w) \/ NotifyTest(w) \/ NotifyClaim(w)
    \/ NotifyBuild(w) \/ NotifyPush(w) \/ NotifyWipe(w)

-----------------------------------------------------------------------------
(* The check() thread *)

(* The thread sleeps while the queue is empty.  It locks resultmutex and   *)
(* takes the front; the size it read before only decides when it sleeps.   *)
CheckLock ==
    /\ resultQueue # <<>>
    /\ ~ resultmutex
    /\ resultmutex' = TRUE
    /\ UNCHANGED <<mapVars, publishedEvent, trigVars, pswmtx, subtoClientMtx, subVars,
                   pubVars, val, poolVars, resultQueue, drainVars, notified, obsVars>>

(* result.get() waits for the task with resultmutex held. *)
CheckGet ==
    /\ resultmutex
    /\ Head(resultQueue) \in finished
    /\ resultQueue' = Tail(resultQueue)
    /\ resultmutex' = FALSE
    /\ UNCHANGED <<mapVars, publishedEvent, trigVars, pswmtx, subtoClientMtx, subVars,
                   pubVars, val, poolVars, drainVars, notified, obsVars>>

CheckStep == CheckLock \/ CheckGet

-----------------------------------------------------------------------------
(* The getElementFromNotifyQ() thread, the only reader of notifyQueue *)

MutFullBatch ==
    /\ npc = "size"
    /\ Len(notifyQueue) >= MaxBatch
    /\ iter' = MaxBatch
    /\ npc' = "front"
    /\ UNCHANGED <<mapVars, publishedEvent, trigVars, mtxVars, subVars, pubVars, val,
                   poolVars, resultQueue, notifyQueue, started, notified, obsVars>>

DrainSize ==
    /\ npc = "size"
    /\ notifyQueue # <<>>
    /\ iter' = IF Len(notifyQueue) < MaxBatch THEN Len(notifyQueue) ELSE MaxBatch
    /\ npc' = "front"
    /\ UNCHANGED <<mapVars, publishedEvent, trigVars, mtxVars, subVars, pubVars, val,
                   poolVars, resultQueue, notifyQueue, started, notified, obsVars>>

(* front() without a lock, and the detached startTask thread. *)
DrainFront ==
    /\ npc = "front"
    /\ notifyQueue # <<>>
    /\ started' = Append(started, Head(notifyQueue))
    /\ npc' = "pop"
    /\ UNCHANGED <<mapVars, publishedEvent, trigVars, mtxVars, subVars, pubVars, val,
                   poolVars, resultQueue, notifyQueue, iter, notified, obsVars>>

MutClear ==
    /\ npc = "pop"
    /\ notifyQueue' = <<>>
    /\ iter' = 0
    /\ npc' = "size"
    /\ UNCHANGED <<mapVars, publishedEvent, trigVars, mtxVars, subVars, pubVars, val,
                   poolVars, resultQueue, started, notified, obsVars>>

(* pop_front() under nqmutex, after the task was started. *)
DrainPop ==
    /\ npc = "pop"
    /\ notifyQueue' = Tail(notifyQueue)
    /\ iter' = iter - 1
    /\ npc' = IF iter = 1 THEN "size" ELSE "front"
    /\ UNCHANGED <<mapVars, publishedEvent, trigVars, mtxVars, subVars, pubVars, val,
                   poolVars, resultQueue, started, notified, obsVars>>

DrainStep == DrainSize \/ DrainFront \/ DrainPop

-----------------------------------------------------------------------------
(* Every call was answered and every thread is at its sleep. *)
Quiet ==
    /\ \A s \in SubReqs : spc[s] = "done"
    /\ \A p \in PubReqs : ppc[p] = "done"
    /\ \A w \in Workers : wpc[w] = "idle"
    /\ taken = Len(taskLog)
    /\ ~ resultmutex /\ resultQueue = <<>>
    /\ npc = "size" /\ notifyQueue = <<>>

(* The two loops find their queues empty and sleep. *)
Poll == Quiet /\ UNCHANGED vars

Next ==
    \/ \E s \in SubReqs : SubStep(s)
    \/ \E p \in PubReqs : PubStep(p)
    \/ \E w \in Workers : WorkerStep(w)
    \/ CheckStep
    \/ DrainStep
    \/ Poll

Spec == Init /\ [][Next]_vars

(* Every thread the program started keeps running. *)
Fairness ==
    /\ \A s \in SubReqs : WF_vars(SubStep(s))
    /\ \A p \in PubReqs : WF_vars(PubStep(p))
    /\ \A w \in Workers : WF_vars(WorkerStep(w))
    /\ WF_vars(CheckStep)
    /\ WF_vars(DrainStep)

FairSpec == Spec /\ Fairness

-----------------------------------------------------------------------------
PubLocations == {"new", "event", "index", "client", "init", "store", "match", "setmeta",
                 "setflag", "notify", "nindex", "nwrap", "nresult", "done"}
WorkerLocations == {"idle", "lock", "test", "claim", "build", "push", "wipe"}
NotifyInfo == [psw : SubReqs, meta : PubReqs \cup {None}]

MapTypes ==
    /\ getIndexMap \in [Events -> SUBSET Events]
    /\ subKeys \in SUBSET Events
    /\ subtoClient \in [Events -> SUBSET SubReqs]

WrapperTypes ==
    /\ publishedEvent \in [SubReqs -> [Events -> Nat]]
    /\ pubMetadata \in [SubReqs -> PubReqs \cup {None}]
    /\ iftrigure \in [SubReqs -> BOOLEAN]

MutexTypes ==
    /\ pswmtx \in [SubReqs -> Workers \cup {None}]
    /\ subtoClientMtx \in PubReqs \cup {None}
    /\ resultmutex \in BOOLEAN

HandlerTypes ==
    /\ spc \in [SubReqs -> {"new", "index", "insert", "done"}]
    /\ spos \in [SubReqs -> Nat \ {0}]
    /\ ppc \in [PubReqs -> PubLocations]
    /\ pos \in [PubReqs -> Nat \ {0}]
    /\ idxs \in [PubReqs -> SUBSET Events]
    /\ idx \in [PubReqs -> Events \cup {None}]
    /\ inner \in [PubReqs -> SUBSET SubReqs]
    /\ psw \in [PubReqs -> SubReqs \cup {None}]
    /\ val \in [PubReqs -> Nat \cup {Freed}]
    /\ ticket \in [PubReqs -> Nat]

PoolTypes ==
    /\ taskLog \in Seq(SubReqs)
    /\ taken \in 0 .. Len(taskLog)
    /\ finished \in SUBSET Nat
    /\ wpc \in [Workers -> WorkerLocations]
    /\ wtask \in [Workers -> Nat]
    /\ ninfo \in [Workers -> PubReqs \cup {None}]

QueueTypes ==
    /\ resultQueue \in Seq(Nat)
    /\ notifyQueue \in Seq(NotifyInfo)
    /\ npc \in {"size", "front", "pop"}
    /\ iter \in Nat

HistoryTypes ==
    /\ triggers \in [SubReqs -> Nat]
    /\ notified \in [SubReqs -> Nat]
    /\ started \in Seq(NotifyInfo)
    /\ known \in [PubReqs -> SUBSET SubReqs]
    /\ visited \in [PubReqs -> SUBSET (Nat \X SubReqs)]

(* Type correctness of the server's state. *)
TypeOK ==
    /\ MapTypes /\ WrapperTypes /\ MutexTypes /\ HandlerTypes
    /\ PoolTypes /\ QueueTypes /\ HistoryTypes

(* The pool threads that took a trigger of s and have not queued it yet. *)
Claims(s) == {w \in Workers : wpc[w] \in {"build", "push"} /\ Task(w) = s}

(* "avoid notify multiple times" (checkNotify): whatever the number of     *)
(* publications and pool threads that work on one wrapper at a time, the   *)
(* notifications queued for it, the ones being built and the pending       *)
(* trigger never outnumber the times it was triggered.                     *)
NotifyBounded ==
    \A s \in SubReqs :
        notified[s] + Cardinality(Claims(s)) + (IF iftrigure[s] THEN 1 ELSE 0)
            <= triggers[s]

(* What the draining thread has started and still has to start. *)
NotifyLog == started \o (IF npc = "pop" THEN Tail(notifyQueue) ELSE notifyQueue)

(* getElementFromNotifyQ reads the front without nqmutex and pops later:   *)
(* even so each queued notification is started once, none is skipped.      *)
StartedOnce ==
    \A s \in SubReqs :
        Cardinality({i \in DOMAIN NotifyLog : NotifyLog[i].psw = s}) = notified[s]

(* checkNotify reads pubMetadata with no lock, after giving the flag back: *)
(* still no notification goes out before the metadata of a triggering      *)
(* publication is there.                                                   *)
NoEmptyMetadata ==
    /\ \A s \in SubReqs : iftrigure[s] => pubMetadata[s] # None
    /\ \A i \in DOMAIN NotifyLog : NotifyLog[i].meta # None

(* The visits that NAME publications of event e paid to wrapper t. *)
Visits(t, e) ==
    {v \in UNION {{p} \X visited[p] : p \in PubReqs} :
        v[2][2] = t /\ MatchType(v[1]) = "NAME" /\ PubMsg[v[1]].events[v[2][1]] = e}

(* checkIfTriggure on unlocked counts and the flag set later, on whichever *)
(* wrapper the client has by then: a client is triggered only if, for a    *)
(* subscription it made under that index event, every required event was   *)
(* published the required number of times or a published box matched.      *)
TriggerJustified ==
    \A s \in SubReqs :
        triggers[s] > 0 =>
            \E t \in SubReqs :
                /\ SubMsg[t].client = SubMsg[s].client
                /\ IndexEvent(t) = IndexEvent(s)
                /\ \/ \A r \in requiredeventMap(t) : Cardinality(Visits(t, r.event)) >= r.num
                   \/ \E p \in PubReqs : /\ MatchType(p) = "META_GRID"
                                         /\ \E v \in visited[p] : v[2] = t
                                         /\ checkIfTriggureMetaGrid(SubMsg[t].grid, PubMsg[p].grid)

(* p, answered, reached every registered subscription that was complete    *)
(* before p began and asks for one of p's events.                          *)
ReachedAll(p) ==
    \A s \in known[p], i \in DOMAIN PubMsg[p].events :
        (PubMsg[p].events[i] \in {r.event : r \in requiredeventMap(s)} /\ s \in subtoClient[IndexEvent(s)])
            => <<i, s>> \in visited[p]

(* pubsubPublish works on copies of the two maps while subscriptions go    *)
(* on: when it runs to the end of the event list, no subscription that was *)
(* complete before it began has been passed over.                          *)
PublishReachesSubscribers ==
    \A p \in PubReqs : (ppc[p] = "done" /\ pos[p] > Len(PubMsg[p].events)) => ReachedAll(p)

(* Client s has an entry under the index event that p is visiting. *)
HasEntry(p, s) == \E t \in subtoClient[idx[p]] : SubMsg[t].client = SubMsg[s].client

Matching == {"init", "store", "match", "setmeta", "setflag"}

(* pubsubPublish walks over a copy of the client map and then goes back to *)
(* subtoClient[indexEvent][clientId] to set the trigger: whoever           *)
(* subscribes again in between, the entry it dereferences exists.          *)
StillRegistered ==
    \A p \in PubReqs :
        /\ ppc[p] \in Matching \cup {"client"} =>
             idx[p] \in Events /\ \A s \in inner[p] : HasEntry(p, s)
        /\ ppc[p] \in Matching => psw[p] \in SubReqs /\ HasEntry(p, psw[p])

(* At rest nothing that was triggered waits: the flag of a registered      *)
(* wrapper was claimed by a checkNotify, although publications set it and  *)
(* pool threads clear it under different mutexes.                          *)
NoTriggerLeftBehind ==
    Quiet => \A e \in Events : \A s \in subtoClient[e] : ~ iftrigure[s]

(* Every Publish call is answered: a handler waits for subtoClientMtx and  *)
(* for resultmutex, which check() keeps while it waits for a pool thread,  *)
(* which waits for the wrapper's mutex and for subtoClientMtx.             *)
PublishAnswered == \A p \in PubReqs : ppc[p] = "event" ~> ppc[p] = "done"

(* A triggered wrapper that stays registered gets a task started for it.   *)
TriggerStartsTask ==
    \A s \in SubReqs :
        iftrigure[s] ~> \/ \E i \in DOMAIN started : started[i].psw = s
                        \/ s \notin subtoClient[IndexEvent(s)]

-----------------------------------------------------------------------------
(* The strengthenings that make the invariants above inductive. *)

Walking == {"event", "index", "client", "init", "store", "match", "setmeta", "setflag"}

(* Positions, task numbers and queue heads that are about to be used exist. *)
PosShape ==
    \A p \in PubReqs :
        /\ ppc[p] = "new" => pos[p] = 1
        /\ ppc[p] \in Walking => pos[p] <= Len(PubMsg[p].events)

TaskShape == \A w \in Workers : wpc[w] # "idle" => wtask[w] \in 1 .. taken

QueueShape ==
    /\ npc # "size" => iter > 0
    /\ npc = "pop" => notifyQueue # <<>>
    /\ resultmutex => resultQueue # <<>>

Shape == PosShape /\ TaskShape /\ QueueShape

(* A pool thread between lock and unlock owns the wrapper's mutex, and the *)
(* trigger it saw is still there when it takes it.                         *)
ClaimSafe ==
    /\ \A w \in Workers : wpc[w] \in {"test", "claim"} => pswmtx[Task(w)] = w
    /\ \A w \in Workers : wpc[w] = "claim" => iftrigure[Task(w)]

(* From the first assignment under subtoClientMtx on, the wrapper that is  *)
(* about to be triggered has metadata; a claimed trigger keeps it, and     *)
(* every notification carries it on.                                       *)
FlagReady ==
    \A p \in PubReqs :
        ppc[p] = "setflag" => subtoClientMtx = p /\ pubMetadata[Registered(p)] # None

ClaimReady ==
    /\ \A w \in Workers : wpc[w] = "build" => pubMetadata[Task(w)] # None
    /\ \A w \in Workers : wpc[w] = "push" => ninfo[w] # None
    /\ \A s \in SubReqs : iftrigure[s] => pubMetadata[s] # None

QueueReady ==
    /\ \A i \in DOMAIN notifyQueue : notifyQueue[i].meta # None
    /\ \A i \in DOMAIN started : started[i].meta # None

MetadataReady == FlagReady /\ ClaimReady /\ QueueReady

-----------------------------------------------------------------------------
(* A statement of the repository's comments that the code does not keep.   *)

(* pubsub.h:25 "when publish number equal or larger than this value, event *)
(* is supposed to be triggured": at rest no registered NAME subscription   *)
(* holds enough publications of each of its events and is not triggered.   *)
EnoughIsTriggered ==
    Quiet => \A e \in Events : \A s \in subtoClient[e] :
        SubMsg[s].matchType = "NAME" =>
            \/ iftrigure[s]
            \/ \E r \in requiredeventMap(s) : publishedEvent[s][r.event] < r.num
=============================================================================
