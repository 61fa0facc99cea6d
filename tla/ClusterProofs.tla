---------------------------- MODULE ClusterProofs ----------------------------
(***************************************************************************)
(* Proofs about Cluster: how a publication travels, for any number of      *)
(* servers, groups, subscriptions and publications.                        *)
(***************************************************************************)
EXTENDS Cluster, TLAPS

Locations == {"open", "mkdir", "file", "list", "load", "serve"}
Thread == [at : {"none", "load", "send"}, todo : SUBSET Ranks]

IsCoordinator(r) == Status(r) = "coordinator"
IsWorker(r) == Status(r) = "worker"

-----------------------------------------------------------------------------
(* The inductive invariant, in named parts. *)

MainTypes ==
    /\ addrFiles \subseteq Ranks
    /\ pc \in [Ranks -> Locations]
    /\ coordinatorAddrSet \in [Ranks -> SUBSET Ranks]

ThreadTypes ==
    /\ multiServer \in [Ranks -> [Pubs -> Thread]]
    /\ multiGroup \in [Ranks -> [Pubs -> Thread]]
    /\ sentTo \in [Pubs -> Ranks \cup {None}]
    /\ received \in [Ranks -> [Pubs -> Nat]]

(* updateCoordinatorAddr finds nothing but coordinators. *)
KnownCoordinators == \A r \in Ranks : \A c \in coordinatorAddrSet[r] : IsCoordinator(c)

(* Nothing is under way for a publication that was not sent. *)
Unsent(p) ==
    sentTo[p] = None =>
        \A r \in Ranks :
            received[r][p] = 0 /\ multiServer[r][p] = NoThread /\ multiGroup[r][p] = NoThread

(* Only the coordinator the client called passes on to other groups, and   *)
(* only to coordinators the publication has not reached.                   *)
GroupThreads(p) ==
    \A r \in Ranks : \A t \in multiGroup[r][p].todo :
        /\ r = sentTo[p] /\ IsCoordinator(r)
        /\ IsCoordinator(t) /\ t # r /\ received[t][p] = 0

(* A server that passes on in its group has handled the publication: it is *)
(* the one the client called, or both are coordinators.                    *)
Relays(p) ==
    \A r \in Ranks :
        multiServer[r][p].at # "none" =>
            /\ received[r][p] > 0
            /\ r = sentTo[p] \/ (IsCoordinator(r) /\ IsCoordinator(sentTo[p]))

(* It calls workers of its group that the publication has not reached, and *)
(* while it has not read the directory none of them was reached.           *)
ServerThreads(p) ==
    \A r \in Ranks :
        /\ multiServer[r][p].at # "send" => multiServer[r][p].todo = {}
        /\ \A t \in multiServer[r][p].todo :
             IsWorker(t) /\ Group(t) = Group(r) /\ t # r /\ received[t][p] = 0
        /\ multiServer[r][p].at = "load" =>
             \A t \in Ranks : (IsWorker(t) /\ Group(t) = Group(r) /\ t # r) => received[t][p] = 0

(* Other servers than the one called and coordinators were reached by a    *)
(* relay of their group.                                                   *)
Reached(p) ==
    \A t \in Ranks :
        (received[t][p] > 0 /\ t # sentTo[p] /\ ~ IsCoordinator(t)) =>
            \E r \in Ranks : multiServer[r][p].at = "send" /\ Group(r) = Group(t)

Once(p) == \A r \in Ranks : received[r][p] <= 1

RouteOf(p) ==
    /\ Unsent(p) /\ GroupThreads(p) /\ Relays(p) /\ ServerThreads(p) /\ Reached(p) /\ Once(p)

Route == MainTypes /\ ThreadTypes /\ KnownCoordinators /\ \A p \in Pubs : RouteOf(p)

-----------------------------------------------------------------------------
(* Groups are ranks modulo the number of groups, and the first ranks are   *)
(* the coordinators: a group has one.                                      *)
LEMMA OneCoordinator ==
    ASSUME NEW a \in Ranks, NEW b \in Ranks, IsCoordinator(a), IsCoordinator(b),
           Group(a) = Group(b)
    PROVE  a = b
<1>1. a \in Nat /\ b \in Nat /\ gm_groupNumber \in Nat \ {0}
  BY GroupAssumption
<1>2. a < gm_groupNumber /\ b < gm_groupNumber
  BY DEF IsCoordinator, Status
<1>3. a % gm_groupNumber = a /\ b % gm_groupNumber = b
  BY <1>1, <1>2
<1> QED BY <1>3 DEF Group

LEMMA StatusDistinct == \A r : ~ (IsCoordinator(r) /\ IsWorker(r))
BY DEF IsCoordinator, IsWorker

(* The relays of one publication are in different groups. *)
LEMMA OneRelay ==
    ASSUME Route, NEW p \in Pubs, NEW a \in Ranks, NEW b \in Ranks,
           multiServer[a][p].at # "none", multiServer[b][p].at # "none",
           Group(a) = Group(b)
    PROVE  a = b
BY OneCoordinator DEF Route, RouteOf, Relays

LEMMA RouteInit == Init => Route
<1> SUFFICES ASSUME Init PROVE Route
  OBVIOUS
<1>1. MainTypes
  BY DEF Init, MainTypes, Locations
<1>2. ThreadTypes
  BY DEF Init, ThreadTypes, Thread, NoThread
<1>3. KnownCoordinators
  BY DEF Init, KnownCoordinators
<1>4. ASSUME NEW p \in Pubs PROVE RouteOf(p)
  BY DEF Init, RouteOf, Unsent, GroupThreads, Relays, ServerThreads, Reached, Once, NoThread
<1> QED BY <1>1, <1>2, <1>3, <1>4 DEF Route

(* The startup of a server. *)
LEMMA MainKeeps ==
    ASSUME MainTypes, KnownCoordinators, NEW r \in Ranks, MainStep(r)
    PROVE  /\ MainTypes' /\ KnownCoordinators'
           /\ UNCHANGED <<pubVars, callVars, subVars, eventRecordMap>>
<1> USE DEF MainTypes, Locations
<1>1. CASE CreateOpen(r)
  BY <1>1 DEF CreateOpen, NextDir, KnownCoordinators, dirVars
<1>2. CASE CreateMkdir(r)
  BY <1>2 DEF CreateMkdir, NextDir, KnownCoordinators
<1>3. CASE RecordAddr(r)
  BY <1>3 DEF RecordAddr, KnownCoordinators
<1>4. CASE ListClusters(r)
  BY <1>4 DEF ListClusters, KnownCoordinators, dirVars
<1>5. CASE LoadCoordinator(r)
  <2>1. PICK g \in clusters[r] :
          coordinatorAddrSet' = [coordinatorAddrSet EXCEPT ![r] = @ \cup CoordinatorDir(g)]
    BY <1>5 DEF LoadCoordinator
  <2>2. CoordinatorDir(g) \subseteq {c \in Ranks : IsCoordinator(c)}
    BY DEF CoordinatorDir, IsCoordinator
  <2>3. UNCHANGED <<addrFiles, pc>> /\ UNCHANGED <<pubVars, callVars, subVars, eventRecordMap>>
    BY <1>5 DEF LoadCoordinator, dirVars
  <2> QED BY <2>1, <2>2, <2>3 DEF KnownCoordinators
<1>6. CASE RunServer(r)
  BY <1>6 DEF RunServer, KnownCoordinators, dirVars
<1> QED BY <1>1, <1>2, <1>3, <1>4, <1>5, <1>6 DEF MainStep

(* What is the same after a step as before for publication p. *)
SameFor(p) ==
    /\ sentTo'[p] = sentTo[p]
    /\ \A r \in Ranks : /\ multiServer'[r][p] = multiServer[r][p]
                        /\ multiGroup'[r][p] = multiGroup[r][p]
                        /\ received'[r][p] = received[r][p]

(* A thread of server r for publication p gets other servers to call. *)
SetTodo(f, r, p, S) == [f EXCEPT ![r][p].todo = S]

LEMMA TodoUpdate ==
    ASSUME NEW f \in [Ranks -> [Pubs -> Thread]], NEW r \in Ranks, NEW p \in Pubs,
           NEW S \in SUBSET Ranks
    PROVE  /\ SetTodo(f, r, p, S) \in [Ranks -> [Pubs -> Thread]]
           /\ \A a \in Ranks, q \in Pubs : (a # r \/ q # p) => SetTodo(f, r, p, S)[a][q] = f[a][q]
           /\ SetTodo(f, r, p, S)[r][p].at = f[r][p].at
           /\ SetTodo(f, r, p, S)[r][p].todo = S
<1>1. f[r] \in [Pubs -> Thread] /\ f[r][p] \in Thread
  OBVIOUS
<1>2. [f[r][p] EXCEPT !.todo = S] = [at |-> f[r][p].at, todo |-> S]
  BY <1>1 DEF Thread
<1>3. [at |-> f[r][p].at, todo |-> S] \in Thread
  BY <1>1 DEF Thread
<1> DEFINE h == [at |-> f[r][p].at, todo |-> S]
<1>4. SetTodo(f, r, p, S) = [f EXCEPT ![r] = [f[r] EXCEPT ![p] = h]]
  BY <1>2 DEF SetTodo
<1>5. h \in Thread /\ h.at = f[r][p].at /\ h.todo = S
  BY <1>3
<1> HIDE DEF h
<1> QED BY <1>4, <1>5

(* A server handles publication p. *)
Handled(f, r, p) == [f EXCEPT ![r][p] = @ + 1]

LEMMA HandledUpdate ==
    ASSUME NEW f \in [Ranks -> [Pubs -> Nat]], NEW r \in Ranks, NEW p \in Pubs
    PROVE  /\ Handled(f, r, p) \in [Ranks -> [Pubs -> Nat]]
           /\ \A a \in Ranks, q \in Pubs : (a # r \/ q # p) => Handled(f, r, p)[a][q] = f[a][q]
           /\ Handled(f, r, p)[r][p] = f[r][p] + 1
BY DEF Handled

(* A step that does nothing for a publication. *)
LEMMA RouteFrame ==
    ASSUME Route, NEW p \in Pubs, SameFor(p)
    PROVE  RouteOf(p)'
<1> USE DEF SameFor
<1>1. RouteOf(p) /\ \A r \in Ranks : multiServer[r][p].todo \cup multiGroup[r][p].todo \subseteq Ranks
  BY DEF Route, ThreadTypes, Thread
<1>2. Unsent(p)' /\ GroupThreads(p)' /\ Relays(p)'
  BY <1>1 DEF RouteOf, Unsent, GroupThreads, Relays, NoThread
<1>3. ServerThreads(p)'
  BY <1>1 DEF RouteOf, ServerThreads
<1>4. Reached(p)' /\ Once(p)'
  BY <1>1 DEF RouteOf, Reached, Once
<1> QED BY <1>2, <1>3, <1>4 DEF RouteOf

(* A client's call: the handler starts the threads of the server called. *)
LEMMA RoutePubCall ==
    ASSUME Route, NEW p \in Pubs, PubCall(p)
    PROVE  ThreadTypes' /\ RouteOf(p)' /\ \A q \in Pubs \ {p} : SameFor(q)
<1>1. PICK r \in Ranks :
        /\ sentTo' = [sentTo EXCEPT ![p] = r]
        /\ Publish(r, p, "CLIENT", multiServer, multiGroup)
  BY DEF PubCall
<1>2. sentTo[p] = None /\ RouteOf(p) /\ ThreadTypes /\ MainTypes /\ KnownCoordinators
  BY DEF PubCall, Route
<1>3. received' = [received EXCEPT ![r][p] = @ + 1]
  BY <1>1 DEF Publish
<1>4. multiServer' = [multiServer EXCEPT ![r][p] = [at |-> "load", todo |-> {}]]
  BY <1>1 DEF Publish, SpawnServer
<1>5. multiGroup' = IF IsCoordinator(r)
        THEN [multiGroup EXCEPT ![r][p] = [at |-> "send", todo |-> coordinatorAddrSet[r] \ {r}]]
        ELSE multiGroup
  BY <1>1 DEF Publish, SpawnGroup, IsCoordinator
<1>6. ThreadTypes'
  BY <1>1, <1>2, <1>3, <1>4, <1>5 DEF ThreadTypes, MainTypes, Thread
<1>7. \A q \in Pubs \ {p} : SameFor(q)
  BY <1>1, <1>2, <1>3, <1>4, <1>5 DEF ThreadTypes, SameFor
<1>8. \A a \in Ranks : received[a][p] = 0 /\ multiServer[a][p] = NoThread /\ multiGroup[a][p] = NoThread
  BY <1>2 DEF RouteOf, Unsent
<1>9. /\ sentTo'[p] = r /\ r # None
      /\ \A a \in Ranks :
           /\ received'[a][p] = IF a = r THEN 1 ELSE 0
           /\ multiServer'[a][p].at = IF a = r THEN "load" ELSE "none"
           /\ multiServer'[a][p].todo = {}
           /\ multiGroup'[a][p].todo = IF a = r /\ IsCoordinator(r) THEN coordinatorAddrSet[r] \ {r} ELSE {}
  <2>1. sentTo'[p] = r /\ r # None
    BY <1>1, <1>2, GroupAssumption DEF ThreadTypes
  <2>2. \A a \in Ranks : received'[a][p] = IF a = r THEN 1 ELSE 0
    BY <1>2, <1>3, <1>8 DEF ThreadTypes
  <2>3. \A a \in Ranks : multiServer'[a][p] = IF a = r THEN [at |-> "load", todo |-> {}] ELSE NoThread
    BY <1>2, <1>4, <1>8 DEF ThreadTypes
  <2>4. \A a \in Ranks : multiGroup'[a][p] =
          IF a = r /\ IsCoordinator(r) THEN [at |-> "send", todo |-> coordinatorAddrSet[r] \ {r}] ELSE NoThread
    BY <1>2, <1>5, <1>8 DEF ThreadTypes
  <2>5. ASSUME NEW a \in Ranks
        PROVE  /\ multiServer'[a][p].at = IF a = r THEN "load" ELSE "none"
               /\ multiServer'[a][p].todo = {}
    <3>1. CASE a = r
      BY <2>3, <3>1
    <3>2. CASE a # r
      BY <2>3, <3>2 DEF NoThread
    <3> QED BY <3>1, <3>2
  <2>6. ASSUME NEW a \in Ranks
        PROVE  multiGroup'[a][p].todo = IF a = r /\ IsCoordinator(r) THEN coordinatorAddrSet[r] \ {r} ELSE {}
    <3>1. CASE a = r /\ IsCoordinator(r)
      BY <2>4, <3>1
    <3>2. CASE ~ (a = r /\ IsCoordinator(r))
      BY <2>4, <3>2 DEF NoThread
    <3> QED BY <3>1, <3>2
  <2> QED BY <2>1, <2>2, <2>5, <2>6
<1>10. Unsent(p)' /\ Once(p)'
  BY <1>9 DEF Unsent, Once
<1>11. GroupThreads(p)'
  BY <1>2, <1>9 DEF GroupThreads, MainTypes, KnownCoordinators
<1>12. Relays(p)' /\ ServerThreads(p)' /\ Reached(p)'
  BY <1>9 DEF Relays, ServerThreads, Reached
<1> QED BY <1>6, <1>7, <1>10, <1>11, <1>12 DEF RouteOf

(* publishMultiServer reads the directory of its group. *)
LEMMA RouteLoad ==
    ASSUME Route, NEW r \in Ranks, NEW p \in Pubs, ServerLoad(r, p)
    PROVE  ThreadTypes' /\ RouteOf(p)' /\ \A q \in Pubs \ {p} : SameFor(q)
<1> DEFINE todo == WorkerDir(Group(r)) \ {r}
<1>1. /\ multiServer[r][p].at = "load"
      /\ multiServer' = [multiServer EXCEPT ![r][p] = [at |-> "send", todo |-> todo]]
      /\ UNCHANGED <<multiGroup, received, sentTo>>
  BY DEF ServerLoad, callVars
<1>2. \A t \in todo : t \in Ranks /\ IsWorker(t) /\ Group(t) = Group(r) /\ t # r
  BY DEF WorkerDir, IsWorker, Route, MainTypes
<1> HIDE DEF todo
<1>3. ThreadTypes /\ RouteOf(p)
  BY DEF Route
<1>4. ThreadTypes' /\ \A q \in Pubs \ {p} : SameFor(q)
  BY <1>1, <1>2, <1>3 DEF ThreadTypes, Thread, SameFor
<1>5. \A a \in Ranks : multiServer'[a][p] = IF a = r THEN [at |-> "send", todo |-> todo]
                                            ELSE multiServer[a][p]
  BY <1>1, <1>3 DEF ThreadTypes
<1>6. sentTo[p] # None
  BY <1>1, <1>3 DEF RouteOf, Unsent, NoThread
<1>7. Unsent(p)' /\ GroupThreads(p)' /\ Once(p)'
  BY <1>1, <1>3, <1>6 DEF RouteOf, Unsent, GroupThreads, Once
<1>8. Relays(p)'
  BY <1>1, <1>3, <1>5 DEF RouteOf, Relays
<1>9. ServerThreads(p)'
  BY <1>1, <1>2, <1>3, <1>5 DEF RouteOf, ServerThreads
<1>10. Reached(p)'
  BY <1>1, <1>3, <1>5 DEF RouteOf, Reached
<1> QED BY <1>4, <1>7, <1>8, <1>9, <1>10 DEF RouteOf

(* What a call of publishMultiServer of server r does at server t. *)
ServerCalls(r, p, t) ==
    \A a \in Ranks :
        /\ received'[a][p] = IF a = t THEN 1 ELSE received[a][p]
        /\ multiServer'[a][p].at = multiServer[a][p].at
        /\ multiServer'[a][p].todo = IF a = r THEN multiServer[r][p].todo \ {t}
                                     ELSE multiServer[a][p].todo
        /\ multiGroup'[a][p] = multiGroup[a][p]

(* A call of publishMultiServer: the worker handles it and passes nothing  *)
(* on, or it does not listen and the broadcast ends.                       *)
LEMMA RouteServerSend ==
    ASSUME Route, NEW r \in Ranks, NEW p \in Pubs, ServerSend(r, p)
    PROVE  /\ ThreadTypes' /\ RouteOf(p)' /\ \A q \in Pubs \ {p} : SameFor(q)
           /\ \E t \in multiServer[r][p].todo : Listening(t) => ServerCalls(r, p, t)
<1>1. PICK t \in multiServer[r][p].todo :
         \/ /\ Listening(t)
            /\ Publish(t, p, "SERVERINGROUP",
                       [multiServer EXCEPT ![r][p].todo = @ \ {t}], multiGroup)
         \/ /\ ~ Listening(t)
            /\ multiServer' = [multiServer EXCEPT ![r][p].todo = {}]
            /\ UNCHANGED <<multiGroup, received>>
  BY DEF ServerSend
<1>2. multiServer[r][p].at = "send" /\ UNCHANGED sentTo
  BY DEF ServerSend, callVars
<1>3. ThreadTypes /\ RouteOf(p)
  BY DEF Route
<1>4. t \in Ranks /\ IsWorker(t) /\ ~ IsCoordinator(t) /\ Group(t) = Group(r) /\ t # r /\ received[t][p] = 0
  BY <1>3, StatusDistinct DEF ThreadTypes, Thread, RouteOf, ServerThreads
<1>5. sentTo[p] # None
  BY <1>2, <1>3 DEF RouteOf, Unsent, NoThread
<1>6. CASE Listening(t)
  <2>1. /\ received' = Handled(received, t, p)
        /\ multiServer' = SetTodo(multiServer, r, p, multiServer[r][p].todo \ {t})
        /\ multiGroup' = multiGroup
    BY <1>1, <1>4, <1>6 DEF SetTodo, Handled, Publish, SpawnServer, SpawnGroup, IsCoordinator
  <2>a. multiServer[r][p].todo \ {t} \in SUBSET Ranks /\ multiServer \in [Ranks -> [Pubs -> Thread]]
    BY <1>3 DEF ThreadTypes, Thread
  <2>b. /\ multiServer' \in [Ranks -> [Pubs -> Thread]]
        /\ \A a \in Ranks, q \in Pubs : (a # r \/ q # p) => multiServer'[a][q] = multiServer[a][q]
        /\ multiServer'[r][p].at = multiServer[r][p].at
        /\ multiServer'[r][p].todo = multiServer[r][p].todo \ {t}
    <3> DEFINE S == multiServer[r][p].todo \ {t}
    <3>1. multiServer' = SetTodo(multiServer, r, p, S) /\ S \in SUBSET Ranks
      BY <2>1, <2>a
    <3> HIDE DEF S
    <3>2. /\ multiServer' \in [Ranks -> [Pubs -> Thread]]
          /\ \A a \in Ranks, q \in Pubs : (a # r \/ q # p) => multiServer'[a][q] = multiServer[a][q]
          /\ multiServer'[r][p].at = multiServer[r][p].at
          /\ multiServer'[r][p].todo = S
      BY <2>a, <3>1, TodoUpdate
    <3> QED BY <3>2 DEF S
  <2>c. /\ received' \in [Ranks -> [Pubs -> Nat]]
        /\ \A a \in Ranks, q \in Pubs : (a # t \/ q # p) => received'[a][q] = received[a][q]
        /\ received'[t][p] = 1
    <3>1. received \in [Ranks -> [Pubs -> Nat]] /\ t \in Ranks /\ received[t][p] = 0
      BY <1>3, <1>4 DEF ThreadTypes
    <3>2. received' = Handled(received, t, p)
      BY <2>1
    <3> QED BY <3>1, <3>2, HandledUpdate
  <2>2. ThreadTypes' /\ \A q \in Pubs \ {p} : SameFor(q)
    BY <1>2, <1>3, <2>1, <2>b, <2>c DEF ThreadTypes, SameFor
  <2>3. sentTo'[p] = sentTo[p] /\ ServerCalls(r, p, t)
    BY <1>2, <1>4, <2>1, <2>b, <2>c DEF ServerCalls
  <2>4. \A a \in Ranks : (multiServer[a][p].at # "none" /\ Group(a) = Group(t)) => a = r
    BY <1>2, <1>4, OneRelay
  <2>5. Unsent(p)' /\ Once(p)'
    BY <1>3, <1>5, <2>3 DEF RouteOf, Unsent, Once, ServerCalls
  <2>6. GroupThreads(p)'
    <3>1. \A a \in Ranks : multiGroup[a][p].todo \subseteq Ranks
      BY <1>3 DEF ThreadTypes, Thread
    <3> QED BY <1>3, <1>4, <2>3, <3>1 DEF RouteOf, GroupThreads, ServerCalls
  <2>7. Relays(p)'
    BY <1>3, <2>3 DEF RouteOf, Relays, ServerCalls
  <2>8. ServerThreads(p)'
    <3> SUFFICES ASSUME NEW a \in Ranks
                 PROVE  /\ multiServer'[a][p].at # "send" => multiServer'[a][p].todo = {}
                        /\ \A b \in multiServer'[a][p].todo :
                             IsWorker(b) /\ Group(b) = Group(a) /\ b # a /\ received'[b][p] = 0
                        /\ multiServer'[a][p].at = "load" =>
                             \A b \in Ranks : (IsWorker(b) /\ Group(b) = Group(a) /\ b # a) => received'[b][p] = 0
      BY DEF ServerThreads
    <3>0. ServerThreads(p)
      BY <1>3 DEF RouteOf
    <3>1. CASE a = r
      <4>1. multiServer[r][p].todo \subseteq Ranks
        BY <1>3 DEF ThreadTypes, Thread
      <4> QED BY <1>2, <2>3, <3>0, <3>1, <4>1 DEF ServerThreads, ServerCalls
    <3>2. CASE a # r
      <4>1. multiServer[a][p].todo \subseteq Ranks
        BY <1>3 DEF ThreadTypes, Thread
      <4>2. CASE Group(a) = Group(t)
        BY <2>3, <2>4, <3>0, <3>2, <4>2 DEF ServerThreads, ServerCalls
      <4>3. CASE Group(a) # Group(t)
        BY <2>3, <3>0, <3>2, <4>1, <4>3 DEF ServerThreads, ServerCalls
      <4> QED BY <4>2, <4>3
    <3> QED BY <3>1, <3>2
  <2>9. Reached(p)'
    BY <1>2, <1>3, <1>4, <2>3 DEF RouteOf, Reached, ServerCalls
  <2> QED BY <2>2, <2>3, <2>5, <2>6, <2>7, <2>8, <2>9 DEF RouteOf
<1>7. CASE ~ Listening(t)
  <2>1. /\ multiServer' = SetTodo(multiServer, r, p, {})
        /\ UNCHANGED <<multiGroup, received>>
    BY <1>1, <1>7 DEF SetTodo
  <2>a. multiServer \in [Ranks -> [Pubs -> Thread]]
    BY <1>3 DEF ThreadTypes
  <2>b. /\ multiServer' \in [Ranks -> [Pubs -> Thread]]
        /\ \A a \in Ranks, q \in Pubs : (a # r \/ q # p) => multiServer'[a][q] = multiServer[a][q]
        /\ multiServer'[r][p].at = multiServer[r][p].at /\ multiServer'[r][p].todo = {}
    BY <2>1, <2>a, TodoUpdate
  <2>2. ThreadTypes' /\ \A q \in Pubs \ {p} : SameFor(q)
    BY <1>2, <1>3, <2>1, <2>b DEF ThreadTypes, SameFor
  <2>3. \A a \in Ranks : /\ multiServer'[a][p].at = multiServer[a][p].at
                         /\ multiServer'[a][p].todo = IF a = r THEN {} ELSE multiServer[a][p].todo
    BY <2>b
  <2>4. Unsent(p)' /\ GroupThreads(p)' /\ Once(p)'
    BY <1>2, <1>3, <1>5, <2>1 DEF RouteOf, Unsent, GroupThreads, Once
  <2>5. Relays(p)' /\ ServerThreads(p)' /\ Reached(p)'
    BY <1>2, <1>3, <2>1, <2>3 DEF RouteOf, Relays, ServerThreads, Reached
  <2> QED BY <1>7, <2>2, <2>4, <2>5 DEF RouteOf
<1> QED BY <1>6, <1>7

(* What a call of publishMultiGroup of server r does at coordinator t. *)
GroupCalls(r, p, t) ==
    /\ \A a \in Ranks :
         /\ received'[a][p] = IF a = t THEN 1 ELSE received[a][p]
         /\ a # t => multiServer'[a][p] = multiServer[a][p]
         /\ multiGroup'[a][p].todo = IF a = r THEN multiGroup[r][p].todo \ {t}
                                     ELSE multiGroup[a][p].todo
    /\ multiServer'[t][p].at = IF HasRecord(t, PubMsg[p]) THEN "load" ELSE "none"

(* A call of publishMultiGroup: the coordinator handles it, and passes it  *)
(* on in its group when it has sub info.                                   *)
LEMMA RouteGroupSend ==
    ASSUME Route, NEW r \in Ranks, NEW p \in Pubs, GroupSend(r, p)
    PROVE  /\ ThreadTypes' /\ RouteOf(p)' /\ \A q \in Pubs \ {p} : SameFor(q)
           /\ \E t \in multiGroup[r][p].todo : Listening(t) => GroupCalls(r, p, t)
<1>1. PICK t \in multiGroup[r][p].todo :
         \/ /\ Listening(t)
            /\ Publish(t, p, "SERVERBTGROUP", multiServer,
                       [multiGroup EXCEPT ![r][p].todo = @ \ {t}])
         \/ /\ ~ Listening(t)
            /\ multiGroup' = [multiGroup EXCEPT ![r][p].todo = @ \ {t}]
            /\ UNCHANGED <<multiServer, received>>
  BY DEF GroupSend
<1>2. UNCHANGED sentTo
  BY DEF GroupSend, callVars
<1>3. ThreadTypes /\ RouteOf(p)
  BY DEF Route
<1>4. /\ t \in Ranks /\ IsCoordinator(t) /\ ~ IsWorker(t) /\ t # r /\ received[t][p] = 0
      /\ r = sentTo[p] /\ IsCoordinator(sentTo[p]) /\ sentTo[p] # None
  BY <1>3, StatusDistinct, GroupAssumption DEF ThreadTypes, Thread, RouteOf, GroupThreads
<1>5. multiServer[t][p].at = "none"
  BY <1>3, <1>4 DEF RouteOf, Relays
<1>6. /\ multiGroup' \in [Ranks -> [Pubs -> Thread]]
      /\ \A a \in Ranks, q \in Pubs : (a # r \/ q # p) => multiGroup'[a][q] = multiGroup[a][q]
      /\ multiGroup'[r][p].todo = multiGroup[r][p].todo \ {t}
  <2>1. multiGroup' = SetTodo(multiGroup, r, p, multiGroup[r][p].todo \ {t})
    BY <1>1 DEF Publish, SpawnGroup, SetTodo
  <2>2. multiGroup[r][p].todo \ {t} \in SUBSET Ranks /\ multiGroup \in [Ranks -> [Pubs -> Thread]]
    BY <1>3 DEF ThreadTypes, Thread
  <2> DEFINE S == multiGroup[r][p].todo \ {t}
  <2>3. multiGroup' = SetTodo(multiGroup, r, p, S) /\ S \in SUBSET Ranks
    BY <2>1, <2>2
  <2> HIDE DEF S
  <2>4. /\ multiGroup' \in [Ranks -> [Pubs -> Thread]]
        /\ \A a \in Ranks, q \in Pubs : (a # r \/ q # p) => multiGroup'[a][q] = multiGroup[a][q]
        /\ multiGroup'[r][p].todo = S
    BY <2>2, <2>3, TodoUpdate
  <2> QED BY <2>4 DEF S
<1>7. /\ \A a \in Ranks : multiGroup'[a][p].todo \subseteq multiGroup[a][p].todo
      /\ t \notin multiGroup'[r][p].todo
  BY <1>6
<1>8. CASE Listening(t)
  <2>1. /\ received' = Handled(received, t, p)
        /\ multiServer' = IF HasRecord(t, PubMsg[p])
                          THEN [multiServer EXCEPT ![t][p] = [at |-> "load", todo |-> {}]]
                          ELSE multiServer
    BY <1>1, <1>4, <1>8 DEF Publish, SpawnServer, Handled, IsCoordinator
  <2>2. ThreadTypes' /\ \A q \in Pubs \ {p} : SameFor(q)
    <3>1. [at |-> "load", todo |-> {}] \in Thread
      BY DEF Thread
    <3>2. /\ multiServer' \in [Ranks -> [Pubs -> Thread]]
          /\ \A a \in Ranks, q \in Pubs \ {p} : multiServer'[a][q] = multiServer[a][q]
      <4> DEFINE new == [at |-> "load", todo |-> {}]
      <4>1. multiServer' = multiServer \/ multiServer' = [multiServer EXCEPT ![t][p] = new]
        BY <2>1
      <4>2. new \in Thread /\ multiServer \in [Ranks -> [Pubs -> Thread]]
        BY <1>3, <3>1 DEF ThreadTypes
      <4> HIDE DEF new
      <4> QED BY <1>4, <4>1, <4>2, SMTT(30)
    <3>3. /\ received' \in [Ranks -> [Pubs -> Nat]]
          /\ \A a \in Ranks, q \in Pubs \ {p} : received'[a][q] = received[a][q]
      BY <1>3, <1>4, <2>1, HandledUpdate DEF ThreadTypes
    <3> QED BY <1>2, <1>3, <1>6, <3>2, <3>3 DEF ThreadTypes, SameFor
  <2>3. \A a \in Ranks : received'[a][p] = IF a = t THEN 1 ELSE received[a][p]
    <3>1. received \in [Ranks -> [Pubs -> Nat]] /\ t \in Ranks /\ received[t][p] = 0
      BY <1>3, <1>4 DEF ThreadTypes
    <3>2. received' = Handled(received, t, p)
      BY <2>1
    <3> QED BY <3>1, <3>2, HandledUpdate
  <2>4. \A a \in Ranks \ {t} : multiServer'[a][p] = multiServer[a][p]
    BY <1>3, <2>1 DEF ThreadTypes
  <2>5. /\ multiServer'[t][p].at = IF HasRecord(t, PubMsg[p]) THEN "load" ELSE "none"
        /\ multiServer'[t][p].todo = {}
    <3>1. multiServer[t][p].at = "none" /\ multiServer[t][p].todo = {}
      BY <1>3, <1>4, <1>5 DEF RouteOf, ServerThreads
    <3>2. multiServer'[t][p] = IF HasRecord(t, PubMsg[p]) THEN [at |-> "load", todo |-> {}]
                               ELSE multiServer[t][p]
      BY <1>3, <1>4, <2>1 DEF ThreadTypes
    <3> QED BY <3>1, <3>2
  <2>6. Unsent(p)' /\ Once(p)'
    BY <1>2, <1>3, <1>4, <2>3 DEF RouteOf, Unsent, Once
  <2>7. GroupThreads(p)'
    <3>1. \A a \in Ranks : multiGroup[a][p].todo \subseteq Ranks
      BY <1>3 DEF ThreadTypes, Thread
    <3>2. GroupThreads(p)
      BY <1>3 DEF RouteOf
    <3> SUFFICES ASSUME NEW a \in Ranks, NEW b \in multiGroup'[a][p].todo
                 PROVE  /\ a = sentTo'[p] /\ IsCoordinator(a)
                        /\ IsCoordinator(b) /\ b # a /\ received'[b][p] = 0
      BY DEF GroupThreads
    <3>3. b \in multiGroup[a][p].todo /\ b \in Ranks
      BY <1>7, <3>1
    <3>4. a = r /\ b # t
      BY <1>4, <1>7, <3>2, <3>3 DEF GroupThreads
    <3> QED BY <1>2, <2>3, <3>2, <3>3, <3>4 DEF GroupThreads
  <2>8. Relays(p)'
    <3> SUFFICES ASSUME NEW a \in Ranks, multiServer'[a][p].at # "none"
                 PROVE  /\ received'[a][p] > 0
                        /\ a = sentTo'[p] \/ (IsCoordinator(a) /\ IsCoordinator(sentTo'[p]))
      BY DEF Relays
    <3>1. CASE a = t
      BY <1>2, <1>4, <2>3, <3>1
    <3>2. CASE a # t
      BY <1>2, <1>3, <2>3, <2>4, <3>2 DEF RouteOf, Relays
    <3> QED BY <3>1, <3>2
  <2>9. \A b \in Ranks : (IsWorker(b) /\ Group(b) = Group(t)) => received[b][p] = 0
    <3> SUFFICES ASSUME NEW b \in Ranks, IsWorker(b), Group(b) = Group(t), received[b][p] # 0
                 PROVE  FALSE
      OBVIOUS
    <3>1. received[b][p] > 0
      BY <1>3 DEF ThreadTypes
    <3>2. b # sentTo[p] /\ ~ IsCoordinator(b)
      BY <1>4, StatusDistinct
    <3>3. PICK a \in Ranks : multiServer[a][p].at = "send" /\ Group(a) = Group(b)
      BY <1>3, <3>1, <3>2 DEF RouteOf, Reached
    <3>4. IsCoordinator(a)
      BY <1>3, <1>4, <3>3 DEF RouteOf, Relays
    <3>5. a = t
      BY <1>4, <3>3, <3>4, OneCoordinator
    <3> QED BY <1>5, <3>3, <3>5
  <2>10. ServerThreads(p)'
    <3> SUFFICES ASSUME NEW a \in Ranks
                 PROVE  /\ multiServer'[a][p].at # "send" => multiServer'[a][p].todo = {}
                        /\ \A b \in multiServer'[a][p].todo :
                             IsWorker(b) /\ Group(b) = Group(a) /\ b # a /\ received'[b][p] = 0
                        /\ multiServer'[a][p].at = "load" =>
                             \A b \in Ranks : (IsWorker(b) /\ Group(b) = Group(a) /\ b # a) => received'[b][p] = 0
      BY DEF ServerThreads
    <3>1. CASE a = t
      BY <2>3, <2>5, <2>9, <3>1
    <3>2. CASE a # t
      <4>1. ServerThreads(p) /\ multiServer[a][p].todo \subseteq Ranks
        BY <1>3 DEF RouteOf, ThreadTypes, Thread
      <4> QED BY <1>4, <2>3, <2>4, <3>2, <4>1 DEF ServerThreads
    <3> QED BY <3>1, <3>2
  <2>11. Reached(p)'
    BY <1>2, <1>3, <1>4, <1>5, <2>3, <2>4 DEF RouteOf, Reached
  <2>12. GroupCalls(r, p, t)
    BY <1>6, <2>3, <2>4, <2>5 DEF GroupCalls
  <2> QED BY <2>2, <2>6, <2>7, <2>8, <2>10, <2>11, <2>12 DEF RouteOf
<1>9. CASE ~ Listening(t)
  <2>1. UNCHANGED <<multiServer, received>>
    BY <1>1, <1>9
  <2>2. ThreadTypes' /\ \A q \in Pubs \ {p} : SameFor(q)
    BY <1>2, <1>3, <1>6, <2>1 DEF ThreadTypes, SameFor
  <2>3. Unsent(p)' /\ GroupThreads(p)' /\ Once(p)'
    BY <1>2, <1>3, <1>4, <1>7, <2>1 DEF RouteOf, Unsent, GroupThreads, Once
  <2>4. Relays(p)' /\ ServerThreads(p)' /\ Reached(p)'
    BY <1>2, <1>3, <2>1 DEF RouteOf, Relays, ServerThreads, Reached
  <2> QED BY <1>9, <2>2, <2>3, <2>4 DEF RouteOf
<1> QED BY <1>8, <1>9

LEMMA RouteStep == Route /\ [Next]_vars => Route'
<1> SUFFICES ASSUME Route, [Next]_vars PROVE Route'
  OBVIOUS
<1>0. MainTypes /\ KnownCoordinators
  BY DEF Route
<1>1. ASSUME NEW r \in Ranks, MainStep(r) PROVE Route'
  <2>1. MainTypes' /\ KnownCoordinators' /\ UNCHANGED <<pubVars, callVars>>
    BY <1>0, <1>1, MainKeeps
  <2>2. ThreadTypes' /\ \A p \in Pubs : SameFor(p)
    BY <2>1 DEF Route, ThreadTypes, SameFor, pubVars, callVars
  <2> QED BY <2>1, <2>2, RouteFrame DEF Route
<1>2. ASSUME NEW s \in Subs, SubCall(s) \/ SubStep(s) PROVE Route'
  <2>1. UNCHANGED <<dirVars, mainVars, pubVars, sentTo>>
    BY <1>2 DEF SubCall, SubStep, SubCount, SubRecord, callVars
  <2>2. MainTypes' /\ KnownCoordinators' /\ ThreadTypes' /\ \A p \in Pubs : SameFor(p)
    BY <2>1, <1>0 DEF Route, MainTypes, KnownCoordinators, ThreadTypes, SameFor, dirVars, mainVars, pubVars
  <2> QED BY <2>2, RouteFrame DEF Route
<1>3. ASSUME NEW p \in Pubs, PubCall(p) PROVE Route'
  <2>1. ThreadTypes' /\ RouteOf(p)' /\ \A q \in Pubs \ {p} : SameFor(q)
    BY <1>3, RoutePubCall
  <2>2. MainTypes' /\ KnownCoordinators'
    BY <1>0, <1>3 DEF PubCall, MainTypes, KnownCoordinators, dirVars, mainVars
  <2> QED BY <2>1, <2>2, RouteFrame DEF Route
<1>4. ASSUME NEW r \in Ranks, NEW p \in Pubs, ThreadStep(r, p) PROVE Route'
  <2>1. ThreadTypes' /\ RouteOf(p)' /\ \A q \in Pubs \ {p} : SameFor(q)
    BY <1>4, RouteLoad, RouteServerSend, RouteGroupSend DEF ThreadStep
  <2>2. MainTypes' /\ KnownCoordinators'
    BY <1>0, <1>4 DEF ThreadStep, ServerLoad, ServerSend, GroupSend, MainTypes, KnownCoordinators,
       dirVars, mainVars
  <2> QED BY <2>1, <2>2, RouteFrame DEF Route
<1>5. ASSUME UNCHANGED vars PROVE Route'
  <2>1. MainTypes' /\ KnownCoordinators' /\ ThreadTypes' /\ \A p \in Pubs : SameFor(p)
    BY <1>0, <1>5 DEF vars, Route, MainTypes, KnownCoordinators, ThreadTypes, SameFor, dirVars,
       mainVars, pubVars, callVars
  <2> QED BY <2>1, RouteFrame DEF Route
<1> QED BY <1>1, <1>2, <1>3, <1>4, <1>5 DEF Next, Wait

LEMMA RouteHolds == Spec => []Route
<1>1. Init => Route
  BY RouteInit
<1>2. Route /\ [Next]_vars => Route'
  BY RouteStep
<1> QED BY <1>1, <1>2, PTL DEF Spec

(* No server handles one publication twice, in a cluster of any size and   *)
(* with any number of publications under way: each group has one server    *)
(* that passes on, and each server is called by that one alone.            *)
THEOREM NoEcho == Spec => []HandledOnce
<1>1. Route => HandledOnce
  BY DEF Route, RouteOf, Once, HandledOnce
<1> QED BY <1>1, RouteHolds, PTL

-----------------------------------------------------------------------------
(* Whom a publication reaches.  First what the records of a coordinator    *)
(* are worth.                                                              *)

SubTypes ==
    /\ coordinatorClients \in [Ranks -> Ranks \cup {None}]
    /\ subNum \in [Ranks -> [Events -> Nat]]
    /\ eventRecordMap \in [Ranks -> [Events -> [Ranks -> Nat]]]
    /\ spc \in [Subs -> {"new", "count", "record", "done"}]
    /\ sat \in [Subs -> Ranks \cup {None}]
    /\ snum \in [Subs -> Nat]
    /\ recorded \subseteq Subs

(* A server that has a coordinator found it in the directory of its group. *)
OwnCoordinator ==
    \A r \in Ranks : coordinatorClients[r] # None => coordinatorClients[r] \in CoordinatorDir(Group(r))

(* A subscription is counted before its number is read and sent. *)
Counted ==
    \A s \in Subs :
        /\ spc[s] # "new" => sat[s] \in Ranks /\ subNum[sat[s]][SubMsg[s].event] > 0
        /\ spc[s] = "record" => snum[s] > 0 /\ coordinatorClients[sat[s]] # None

(* A RecordSub that was delivered left sub info at the coordinator. *)
InfoKept ==
    \A s \in recorded :
        /\ spc[s] = "done" /\ coordinatorClients[sat[s]] # None
        /\ HasRecord(coordinatorClients[sat[s]], SubMsg[s].event)

SubInfo == SubTypes /\ OwnCoordinator /\ Counted /\ InfoKept

(* A server that looks for coordinators, or listens, has announced itself. *)
Announced == \A r \in Ranks : pc[r] \in {"list", "load", "serve"} => r \in addrFiles

CallTypes == ready \subseteq Subs \cup Pubs /\ knownSubs \in [Pubs -> SUBSET Subs]

(* Servers do not stop listening. *)
ReadyMeans(p) == p \in ready => sentTo[p] # None /\ \A r \in Ranks : Listening(r)

(* The server called passes on. *)
FirstRelay(p) == sentTo[p] # None => multiServer[sentTo[p]][p].at # "none"

(* A relay that has read its directory has called each worker there, or    *)
(* will.                                                                   *)
WorkersDue(p) ==
    p \in ready =>
        \A r \in Ranks : multiServer[r][p].at = "send" =>
            \A t \in WorkerDir(Group(r)) :
                t = r \/ t \in multiServer[r][p].todo \/ received[t][p] > 0

(* A coordinator with sub info that the publication is meant for passes it *)
(* on, or will be called.                                                  *)
GroupsDue(p) ==
    (p \in ready /\ IsCoordinator(sentTo[p])) =>
        \A s \in knownSubs[p] :
            LET c == coordinatorClients[sat[s]]
            IN (SubMsg[s].event = PubMsg[p] /\ c \in coordinatorAddrSet[sentTo[p]]) =>
                 \/ c \in multiGroup[sentTo[p]][p].todo
                 \/ multiServer[c][p].at # "none"

ReachOf(p) ==
    /\ knownSubs[p] \subseteq recorded
    /\ ReadyMeans(p) /\ FirstRelay(p) /\ WorkersDue(p) /\ GroupsDue(p)

Reach == SubInfo /\ Announced /\ CallTypes /\ \A p \in Pubs : ReachOf(p)

LEMMA ReachInit == Init => Reach
<1> SUFFICES ASSUME Init PROVE Reach
  OBVIOUS
<1>1. SubTypes /\ OwnCoordinator /\ Counted /\ InfoKept
  BY DEF Init, SubTypes, OwnCoordinator, Counted, InfoKept
<1>2. Announced /\ CallTypes
  BY DEF Init, Announced, CallTypes
<1>3. ASSUME NEW p \in Pubs PROVE ReachOf(p)
  BY DEF Init, ReachOf, ReadyMeans, FirstRelay, WorkersDue, GroupsDue
<1> QED BY <1>1, <1>2, <1>3 DEF Reach, SubInfo

(* A server that starts up: nothing was sent while all listened. *)
LEMMA ReachMain ==
    ASSUME Route, Reach, NEW r \in Ranks, MainStep(r)
    PROVE  Reach'
<1>1. MainTypes /\ MainTypes' /\ UNCHANGED <<pubVars, callVars, subVars, eventRecordMap>>
  BY MainKeeps DEF Route
<1>2. addrFiles \subseteq addrFiles'
  BY DEF MainStep, CreateOpen, CreateMkdir, RecordAddr, ListClusters, LoadCoordinator, RunServer, dirVars
<1>3. pc[r] # "serve"
  BY DEF MainStep, CreateOpen, CreateMkdir, RecordAddr, ListClusters, LoadCoordinator, RunServer
<1>4. Announced'
  BY <1>1 DEF Reach, Announced, MainTypes, MainStep, CreateOpen, CreateMkdir, RecordAddr,
     ListClusters, LoadCoordinator, RunServer, NextDir, dirVars
<1>5. SubTypes' /\ Counted' /\ InfoKept'
  BY <1>1 DEF Reach, SubInfo, SubTypes, Counted, InfoKept, HasRecord, subVars
<1>6. OwnCoordinator'
  BY <1>1, <1>2 DEF Reach, SubInfo, OwnCoordinator, CoordinatorDir, subVars
<1>7. CallTypes'
  BY <1>1 DEF Reach, CallTypes, callVars
<1>8. ASSUME NEW p \in Pubs PROVE ReachOf(p)'
  <2>1. p \notin ready
    BY <1>3 DEF Reach, ReachOf, ReadyMeans, Listening
  <2>2. p \notin ready' /\ UNCHANGED <<sentTo, knownSubs, recorded, multiServer>>
    BY <1>1, <2>1 DEF callVars, subVars, pubVars
  <2> QED BY <2>2 DEF Reach, ReachOf, ReadyMeans, FirstRelay, WorkersDue, GroupsDue
<1> QED BY <1>4, <1>5, <1>6, <1>7, <1>8 DEF Reach, SubInfo

(* The publication side of the invariant survives a step that leaves it    *)
(* alone, and keeps the coordinators of recorded subscriptions.            *)
LEMMA ReachFrame ==
    ASSUME Route, Reach, NEW p \in Pubs, SameFor(p),
           p \in ready' => p \in ready, knownSubs'[p] = knownSubs[p], recorded \subseteq recorded',
           UNCHANGED <<addrFiles, pc, coordinatorAddrSet>>,
           \A s \in recorded : coordinatorClients'[sat'[s]] = coordinatorClients[sat[s]]
    PROVE  ReachOf(p)'
<1>1. ReachOf(p) /\ MainTypes /\ KnownCoordinators
  BY DEF Reach, Route
<1>2. knownSubs'[p] \subseteq recorded' /\ knownSubs[p] \subseteq recorded
  BY <1>1 DEF ReachOf
<1>3. ReadyMeans(p)'
  BY <1>1 DEF ReachOf, ReadyMeans, Listening, SameFor
<1>4. FirstRelay(p)'
  BY <1>1, GroupAssumption DEF ReachOf, FirstRelay, SameFor, Route, ThreadTypes
<1>5. WorkersDue(p)'
  <2>1. \A g : WorkerDir(g) \subseteq Ranks /\ WorkerDir(g)' = WorkerDir(g)
    BY <1>1 DEF WorkerDir, MainTypes
  <2> QED BY <1>1, <2>1 DEF ReachOf, WorkersDue, SameFor
<1>6. GroupsDue(p)'
  <2> SUFFICES ASSUME p \in ready', IsCoordinator(sentTo'[p]), NEW s \in knownSubs'[p],
                      SubMsg[s].event = PubMsg[p],
                      coordinatorClients'[sat'[s]] \in coordinatorAddrSet'[sentTo'[p]]
               PROVE  \/ coordinatorClients'[sat'[s]] \in multiGroup'[sentTo'[p]][p].todo
                      \/ multiServer'[coordinatorClients'[sat'[s]]][p].at # "none"
    BY DEF GroupsDue
  <2>1. sentTo'[p] = sentTo[p] /\ sentTo[p] \in Ranks /\ s \in knownSubs[p]
    BY <1>1 DEF SameFor, ReachOf, ReadyMeans, Route, ThreadTypes
  <2> DEFINE c == coordinatorClients[sat[s]]
  <2>2. coordinatorClients'[sat'[s]] = c
    BY <1>2, <2>1
  <2>3. c \in coordinatorAddrSet[sentTo[p]] /\ c \in Ranks
    BY <1>1, <2>1, <2>2 DEF MainTypes
  <2>4. c \in multiGroup[sentTo[p]][p].todo \/ multiServer[c][p].at # "none"
    BY <1>1, <2>1, <2>3 DEF ReachOf, GroupsDue
  <2> HIDE DEF c
  <2> QED BY <2>1, <2>2, <2>3, <2>4 DEF SameFor
<1> QED BY <1>2, <1>3, <1>4, <1>5, <1>6 DEF ReachOf

LEMMA ReachSubCall ==
    ASSUME Route, Reach, NEW s \in Subs, SubCall(s)
    PROVE  Reach'
<1>1. PICK r \in Ranks :
        /\ sat' = [sat EXCEPT ![s] = r]
        /\ subNum' = [subNum EXCEPT ![r][SubMsg[s].event] = @ + 1]
  BY DEF SubCall
<1>2. /\ spc[s] = "new" /\ spc' = [spc EXCEPT ![s] = "count"]
      /\ UNCHANGED <<dirVars, mainVars, coordinatorClients, snum, recorded, eventRecordMap, pubVars,
                     sentTo, knownSubs>>
      /\ ready' \in {ready, ready \cup {s}}
  BY DEF SubCall, NoteReady
<1>3. SubTypes /\ Counted /\ InfoKept /\ SubMsg[s].event \in Events
  BY CallAssumption DEF Reach, SubInfo
<1>4. SubTypes'
  BY <1>1, <1>2, <1>3 DEF SubTypes
<1>5. OwnCoordinator' /\ Announced' /\ CallTypes'
  BY <1>2 DEF Reach, SubInfo, OwnCoordinator, CoordinatorDir, Announced, CallTypes, dirVars, mainVars
<1>6. s \notin recorded
  BY <1>2, <1>3 DEF InfoKept
<1>7. /\ \A u \in Subs \ {s} : spc'[u] = spc[u] /\ sat'[u] = sat[u]
      /\ spc'[s] = "count" /\ sat'[s] = r
  BY <1>1, <1>2, <1>3 DEF SubTypes
<1>8. /\ \A a \in Ranks, e \in Events : subNum'[a][e] >= subNum[a][e] /\ subNum'[a][e] \in Nat /\ subNum[a][e] \in Nat
      /\ subNum'[r][SubMsg[s].event] > 0
  BY <1>1, <1>3 DEF SubTypes
<1>9. InfoKept'
  BY <1>2, <1>3, <1>6, <1>7 DEF InfoKept, HasRecord, SubTypes
<1>10. Counted'
  <2> SUFFICES ASSUME NEW u \in Subs
               PROVE  /\ spc'[u] # "new" => sat'[u] \in Ranks /\ subNum'[sat'[u]][SubMsg[u].event] > 0
                      /\ spc'[u] = "record" => snum'[u] > 0 /\ coordinatorClients'[sat'[u]] # None
    BY DEF Counted
  <2>1. CASE u = s
    BY <1>7, <1>8, <2>1
  <2>2. CASE u # s
    <3>1. SubMsg[u].event \in Events
      BY CallAssumption
    <3>2. spc'[u] # "new" => sat'[u] \in Ranks /\ subNum[sat'[u]][SubMsg[u].event] > 0
      BY <1>3, <1>7, <2>2 DEF Counted
    <3> QED BY <1>2, <1>3, <1>7, <1>8, <2>2, <3>1, <3>2 DEF Counted
  <2> QED BY <2>1, <2>2
<1>11. ASSUME NEW p \in Pubs PROVE ReachOf(p)'
  <2>1. SameFor(p) /\ (p \in ready' => p \in ready)
    BY <1>2, GroupAssumption DEF SameFor, pubVars
  <2>2. \A u \in recorded : coordinatorClients'[sat'[u]] = coordinatorClients[sat[u]]
    BY <1>2, <1>3, <1>6, <1>7 DEF SubTypes
  <2> QED BY <1>2, <2>1, <2>2, ReachFrame DEF dirVars, mainVars
<1> QED BY <1>4, <1>5, <1>9, <1>10, <1>11 DEF Reach, SubInfo

LEMMA ReachSubCount ==
    ASSUME Route, Reach, NEW s \in Subs, SubCount(s)
    PROVE  Reach'
<1> DEFINE found == CoordinatorDir(Group(sat[s]))
<1>1. /\ spc[s] = "count"
      /\ coordinatorClients' =
               IF coordinatorClients[sat[s]] = None /\ found # {}
               THEN [coordinatorClients EXCEPT ![sat[s]] = CHOOSE c \in found : TRUE]
               ELSE coordinatorClients
      /\ snum' = [snum EXCEPT ![s] = subNum[sat[s]][SubMsg[s].event]]
      /\ spc' = [spc EXCEPT ![s] =
                       IF coordinatorClients'[sat[s]] = None \/ SubMsg[s].counted
                       THEN "done" ELSE "record"]
      /\ UNCHANGED <<dirVars, mainVars, subNum, sat, recorded, eventRecordMap, pubVars, callVars>>
  BY DEF SubCount
<1>2. SubTypes /\ OwnCoordinator /\ Counted /\ InfoKept /\ SubMsg[s].event \in Events
  BY CallAssumption DEF Reach, SubInfo
<1>3. sat[s] \in Ranks /\ subNum[sat[s]][SubMsg[s].event] > 0
      /\ subNum[sat[s]][SubMsg[s].event] \in Nat
  BY <1>1, <1>2 DEF Counted, SubTypes
<1>4. found \subseteq Ranks
  BY DEF CoordinatorDir, Route, MainTypes
<1>5. PICK c \in Ranks \cup {None} :
        /\ coordinatorClients' = [coordinatorClients EXCEPT ![sat[s]] = c]
        /\ coordinatorClients[sat[s]] # None => c = coordinatorClients[sat[s]]
        /\ c # None => c \in found
  <2>1. CASE coordinatorClients[sat[s]] = None /\ found # {}
    <3>1. (CHOOSE x \in found : TRUE) \in found
      BY <2>1
    <3> HIDE DEF found
    <3> QED BY <1>1, <1>4, <2>1, <3>1
  <2>2. CASE ~ (coordinatorClients[sat[s]] = None /\ found # {})
    <3>1. coordinatorClients' = coordinatorClients
      BY <1>1, <2>2
    <3>2. coordinatorClients = [coordinatorClients EXCEPT ![sat[s]] = coordinatorClients[sat[s]]]
      BY <1>2 DEF SubTypes
    <3>3. coordinatorClients[sat[s]] \in Ranks \cup {None}
      BY <1>2, <1>3 DEF SubTypes
    <3>4. coordinatorClients[sat[s]] # None => coordinatorClients[sat[s]] \in found
      BY <1>2, <1>3 DEF OwnCoordinator
    <3> QED BY <3>1, <3>2, <3>3, <3>4
  <2> QED BY <2>1, <2>2
<1> HIDE DEF found
<1>6. SubTypes'
  BY <1>1, <1>2, <1>3, <1>5 DEF SubTypes
<1>7. Announced' /\ CallTypes'
  BY <1>1 DEF Reach, Announced, CallTypes, dirVars, mainVars, callVars
<1>8. \A a \in Ranks : coordinatorClients'[a] = IF a = sat[s] THEN c ELSE coordinatorClients[a]
  BY <1>2, <1>5 DEF SubTypes
<1>9. OwnCoordinator'
  <2>1. \A g : CoordinatorDir(g)' = CoordinatorDir(g)
    BY <1>1 DEF CoordinatorDir, dirVars
  <2> QED BY <1>2, <1>5, <1>8, <2>1 DEF OwnCoordinator, found
<1>10. \A a \in Ranks : coordinatorClients[a] # None => coordinatorClients'[a] = coordinatorClients[a]
  BY <1>5, <1>8
<1>11. s \notin recorded
  BY <1>1, <1>2 DEF InfoKept
<1>12. /\ \A u \in Subs \ {s} : spc'[u] = spc[u] /\ snum'[u] = snum[u]
       /\ snum'[s] = subNum[sat[s]][SubMsg[s].event]
       /\ spc'[s] = IF coordinatorClients'[sat[s]] = None \/ SubMsg[s].counted THEN "done" ELSE "record"
  BY <1>1, <1>2 DEF SubTypes
<1>13. \A u \in recorded : u \in Subs /\ u # s /\ sat[u] \in Ranks /\ coordinatorClients[sat[u]] # None
  BY <1>2, <1>11 DEF SubTypes, InfoKept, Counted
<1>14. InfoKept'
  <2> SUFFICES ASSUME NEW u \in recorded
               PROVE  /\ spc'[u] = "done" /\ coordinatorClients'[sat[u]] # None
                      /\ \E a \in Ranks : eventRecordMap[coordinatorClients'[sat[u]]][SubMsg[u].event][a] > 0
    BY <1>1 DEF InfoKept, HasRecord
  <2>1. coordinatorClients'[sat[u]] = coordinatorClients[sat[u]] /\ spc'[u] = spc[u]
    BY <1>10, <1>12, <1>13
  <2> QED BY <1>2, <2>1 DEF InfoKept, HasRecord
<1>15. Counted'
  <2> SUFFICES ASSUME NEW u \in Subs
               PROVE  /\ spc'[u] # "new" => sat[u] \in Ranks /\ subNum[sat[u]][SubMsg[u].event] > 0
                      /\ spc'[u] = "record" => snum'[u] > 0 /\ coordinatorClients'[sat[u]] # None
    BY <1>1 DEF Counted
  <2>1. CASE u = s
    BY <1>3, <1>12, <2>1
  <2>2. CASE u # s
    BY <1>2, <1>10, <1>12, <2>2 DEF Counted
  <2> QED BY <2>1, <2>2
<1>16. ASSUME NEW p \in Pubs PROVE ReachOf(p)'
  <2>1. SameFor(p) /\ (p \in ready' => p \in ready)
    BY <1>1 DEF SameFor, pubVars, callVars
  <2>2. \A u \in recorded : coordinatorClients'[sat'[u]] = coordinatorClients[sat[u]]
    BY <1>1, <1>10, <1>13
  <2> QED BY <1>1, <2>1, <2>2, ReachFrame DEF dirVars, mainVars, callVars
<1> QED BY <1>6, <1>7, <1>9, <1>14, <1>15, <1>16 DEF Reach, SubInfo

(* updateStatusMap keeps what is there and enters a positive number. *)
LEMMA RecordGrows ==
    ASSUME NEW m \in [Events -> [Ranks -> Nat]], NEW e \in Events, NEW a \in Ranks, NEW n \in Nat
    PROVE  /\ updateStatusMap(m, e, a, n) \in [Events -> [Ranks -> Nat]]
           /\ \A d \in Events, b \in Ranks : updateStatusMap(m, e, a, n)[d][b] >= m[d][b]
           /\ n > 0 => updateStatusMap(m, e, a, n)[e][a] > 0
BY DEF updateStatusMap

LEMMA ReachSubRecord ==
    ASSUME Route, Reach, NEW s \in Subs, SubRecord(s)
    PROVE  Reach'
<1> DEFINE c == coordinatorClients[sat[s]]
           e == SubMsg[s].event
<1>1. /\ spc[s] = "record" /\ spc' = [spc EXCEPT ![s] = "done"]
      /\ UNCHANGED <<dirVars, mainVars, coordinatorClients, subNum, sat, snum, pubVars, callVars>>
  BY DEF SubRecord
<1>2. \/ /\ eventRecordMap' = [eventRecordMap EXCEPT ![c] = updateStatusMap(eventRecordMap[c], e, sat[s], snum[s])]
         /\ recorded' = recorded \cup {s}
      \/ UNCHANGED <<eventRecordMap, recorded>>
  BY DEF SubRecord
<1>3. SubTypes /\ OwnCoordinator /\ Counted /\ InfoKept /\ e \in Events
  BY CallAssumption DEF Reach, SubInfo
<1>4. sat[s] \in Ranks /\ snum[s] > 0 /\ snum[s] \in Nat /\ c # None /\ c \in Ranks
  BY <1>1, <1>3 DEF Counted, SubTypes
<1> DEFINE m == updateStatusMap(eventRecordMap[c], e, sat[s], snum[s])
<1>5. /\ m \in [Events -> [Ranks -> Nat]]
      /\ \A d \in Events, b \in Ranks : m[d][b] >= eventRecordMap[c][d][b]
      /\ m[e][sat[s]] > 0
  <2>1. eventRecordMap[c] \in [Events -> [Ranks -> Nat]]
    BY <1>3, <1>4 DEF SubTypes
  <2> HIDE DEF c, e
  <2> QED BY <1>3, <1>4, <2>1, RecordGrows
<1> HIDE DEF m
<1>6. /\ eventRecordMap' \in [Ranks -> [Events -> [Ranks -> Nat]]]
      /\ \A a \in Ranks, d \in Events, b \in Ranks :
           eventRecordMap[a][d][b] > 0 => eventRecordMap'[a][d][b] > 0
      /\ s \in recorded' => s \in recorded \/ eventRecordMap'[c][e][sat[s]] > 0
  <2>1. CASE UNCHANGED <<eventRecordMap, recorded>>
    BY <1>3, <2>1 DEF SubTypes
  <2>2. CASE eventRecordMap' = [eventRecordMap EXCEPT ![c] = m] /\ recorded' = recorded \cup {s}
    <3>1. eventRecordMap \in [Ranks -> [Events -> [Ranks -> Nat]]]
      BY <1>3 DEF SubTypes
    <3> HIDE DEF c, e
    <3>2. /\ eventRecordMap' \in [Ranks -> [Events -> [Ranks -> Nat]]]
          /\ eventRecordMap'[c] = m /\ \A a \in Ranks \ {c} : eventRecordMap'[a] = eventRecordMap[a]
      BY <1>4, <1>5, <2>2, <3>1
    <3>3. ASSUME NEW a \in Ranks, NEW d \in Events, NEW b \in Ranks, eventRecordMap[a][d][b] > 0
          PROVE  eventRecordMap'[a][d][b] > 0
      <4>1. eventRecordMap[a][d][b] \in Nat /\ eventRecordMap'[a][d][b] \in Nat
        BY <3>1, <3>2
      <4>2. eventRecordMap'[a][d][b] >= eventRecordMap[a][d][b]
        <5>1. CASE a = c
          BY <1>5, <3>2, <5>1
        <5>2. CASE a # c
          BY <3>2, <4>1, <5>2
        <5> QED BY <5>1, <5>2
      <4> QED BY <3>3, <4>1, <4>2
    <3> QED BY <1>5, <3>2, <3>3
  <2> QED BY <1>2, <2>1, <2>2 DEF m
<1>7. \A u \in Subs \ {s} : spc'[u] = spc[u] /\ spc'[s] = "done"
  BY <1>1, <1>3 DEF SubTypes
<1>8. spc'[s] = "done" /\ spc' \in [Subs -> {"new", "count", "record", "done"}]
  BY <1>1, <1>3 DEF SubTypes
<1>9. recorded' \subseteq recorded \cup {s} /\ recorded \subseteq recorded'
  BY <1>2
<1>10. SubTypes'
  BY <1>1, <1>3, <1>6, <1>8, <1>9 DEF SubTypes
<1>11. OwnCoordinator' /\ Announced' /\ CallTypes'
  BY <1>1 DEF Reach, SubInfo, OwnCoordinator, CoordinatorDir, Announced, CallTypes, dirVars, mainVars, callVars
<1>12. Counted'
  BY <1>1, <1>3, <1>4, <1>7, <1>8 DEF Counted
<1>13. InfoKept'
  <2> SUFFICES ASSUME NEW u \in recorded'
               PROVE  /\ spc'[u] = "done" /\ coordinatorClients[sat[u]] # None
                      /\ \E a \in Ranks : eventRecordMap'[coordinatorClients[sat[u]]][SubMsg[u].event][a] > 0
    BY <1>1 DEF InfoKept, HasRecord
  <2>1. CASE u \in recorded
    <3>1. u \in Subs /\ SubMsg[u].event \in Events
      BY <1>3, <2>1, CallAssumption DEF SubTypes
    <3>2. spc[u] = "done" /\ coordinatorClients[sat[u]] # None /\ sat[u] \in Ranks
      BY <1>3, <2>1, <3>1 DEF InfoKept, Counted
    <3>3. coordinatorClients[sat[u]] \in Ranks
      BY <1>3, <3>2 DEF SubTypes
    <3>4. PICK a \in Ranks : eventRecordMap[coordinatorClients[sat[u]]][SubMsg[u].event][a] > 0
      BY <1>3, <2>1 DEF InfoKept, HasRecord
    <3> QED BY <1>1, <1>6, <1>7, <3>1, <3>2, <3>3, <3>4
  <2>2. CASE u \notin recorded
    <3>1. u = s
      BY <1>9, <2>2
    <3> QED BY <1>4, <1>6, <1>8, <2>2, <3>1
  <2> QED BY <2>1, <2>2
<1>14. ASSUME NEW p \in Pubs PROVE ReachOf(p)'
  <2>1. SameFor(p) /\ (p \in ready' => p \in ready)
    BY <1>1 DEF SameFor, pubVars, callVars
  <2> QED BY <1>1, <1>9, <2>1, ReachFrame DEF dirVars, mainVars, callVars
<1> QED BY <1>10, <1>11, <1>12, <1>13, <1>14 DEF Reach, SubInfo

(* The steps of a publication leave subscriptions and startup alone. *)
LEMMA ReachOther ==
    ASSUME Route, Reach, UNCHANGED <<dirVars, mainVars, subVars, eventRecordMap>>
    PROVE  SubInfo' /\ Announced'
BY DEF Reach, SubInfo, SubTypes, OwnCoordinator, CoordinatorDir, Counted, InfoKept, HasRecord,
   Announced, dirVars, mainVars, subVars

LEMMA ReachPubCall ==
    ASSUME Route, Reach, NEW p \in Pubs, PubCall(p)
    PROVE  Reach'
<1>1. PICK r \in Ranks :
        /\ sentTo' = [sentTo EXCEPT ![p] = r]
        /\ Publish(r, p, "CLIENT", multiServer, multiGroup)
  BY DEF PubCall
<1>2. /\ sentTo[p] = None
      /\ ready' = IF \A a \in Ranks : Listening(a) THEN ready \cup {p} ELSE ready
      /\ knownSubs' = [knownSubs EXCEPT ![p] = recorded]
      /\ UNCHANGED <<dirVars, mainVars, subVars, eventRecordMap>>
  BY DEF PubCall, NoteReady
<1>3. SubInfo' /\ Announced'
  BY <1>2, ReachOther
<1>4. recorded \subseteq Subs /\ CallTypes /\ ThreadTypes /\ MainTypes
  BY DEF Reach, SubInfo, SubTypes, Route
<1>5. CallTypes'
  BY <1>2, <1>4 DEF CallTypes
<1>6. ASSUME NEW q \in Pubs \ {p} PROVE ReachOf(q)'
  <2>1. SameFor(q)
    BY RoutePubCall
  <2>2. q \in ready' => q \in ready
    BY <1>2
  <2>3. knownSubs'[q] = knownSubs[q]
    BY <1>2, <1>4 DEF CallTypes
  <2> QED BY <1>2, <2>1, <2>2, <2>3, ReachFrame DEF dirVars, mainVars, subVars
<1>7. /\ sentTo'[p] = r /\ multiServer'[r][p].at = "load"
      /\ IsCoordinator(r) => multiGroup'[r][p].todo = coordinatorAddrSet[r] \ {r}
      /\ \A a \in Ranks : multiServer'[a][p].at # "send"
  <2>1. sentTo'[p] = r
    BY <1>1, <1>4 DEF ThreadTypes
  <2>2. multiServer' = [multiServer EXCEPT ![r][p] = [at |-> "load", todo |-> {}]]
    BY <1>1 DEF Publish, SpawnServer
  <2>3. multiServer'[r][p] = [at |-> "load", todo |-> {}]
        /\ \A a \in Ranks \ {r} : multiServer'[a][p] = multiServer[a][p]
    BY <1>4, <2>2 DEF ThreadTypes
  <2>4. \A a \in Ranks : multiServer[a][p] = NoThread
    BY <1>2 DEF Route, RouteOf, Unsent
  <2>5. ASSUME IsCoordinator(r) PROVE multiGroup'[r][p].todo = coordinatorAddrSet[r] \ {r}
    <3>1. multiGroup' = [multiGroup EXCEPT ![r][p] = [at |-> "send", todo |-> coordinatorAddrSet[r] \ {r}]]
      BY <1>1, <2>5 DEF Publish, SpawnGroup, IsCoordinator
    <3>2. multiGroup'[r][p] = [at |-> "send", todo |-> coordinatorAddrSet[r] \ {r}]
      BY <1>4, <3>1 DEF ThreadTypes
    <3> QED BY <3>2
  <2> QED BY <2>1, <2>3, <2>4, <2>5 DEF NoThread
<1>8. ReachOf(p)'
  <2>1. knownSubs'[p] \subseteq recorded'
    BY <1>2, <1>4 DEF CallTypes, subVars
  <2>2. ReadyMeans(p)'
    <3>1. p \notin ready
      BY <1>2 DEF Reach, ReachOf, ReadyMeans
    <3> QED BY <1>2, <1>7, <3>1, GroupAssumption DEF ReadyMeans, Listening, mainVars
  <2>3. FirstRelay(p)' /\ WorkersDue(p)'
    BY <1>7 DEF FirstRelay, WorkersDue
  <2>4. GroupsDue(p)'
    <3> SUFFICES ASSUME IsCoordinator(r),
                        NEW c \in coordinatorAddrSet[r]
                 PROVE  c \in multiGroup'[r][p].todo \/ multiServer'[c][p].at # "none"
      BY <1>2, <1>7 DEF GroupsDue, mainVars
    <3> QED BY <1>7
  <2> QED BY <2>1, <2>2, <2>3, <2>4 DEF ReachOf
<1> QED BY <1>3, <1>5, <1>6, <1>8 DEF Reach

(* A thread's step: what is left is to see that p keeps its part. *)
LEMMA ReachThread ==
    ASSUME Route, Reach, NEW r \in Ranks, NEW p \in Pubs, ThreadStep(r, p)
    PROVE  /\ SubInfo' /\ Announced' /\ CallTypes'
           /\ \A q \in Pubs \ {p} : ReachOf(q)'
           /\ knownSubs'[p] \subseteq recorded' /\ ReadyMeans(p)'
<1>1. UNCHANGED <<dirVars, mainVars, subVars, eventRecordMap, callVars>>
  BY DEF ThreadStep, ServerLoad, ServerSend, GroupSend
<1>2. SubInfo' /\ Announced'
  BY <1>1, ReachOther
<1>3. CallTypes' /\ knownSubs'[p] \subseteq recorded' /\ ReadyMeans(p)'
  BY <1>1 DEF Reach, CallTypes, ReachOf, ReadyMeans, Listening, callVars, subVars, mainVars
<1>4. ASSUME NEW q \in Pubs \ {p} PROVE ReachOf(q)'
  <2>1. SameFor(q)
    BY RouteLoad, RouteServerSend, RouteGroupSend DEF ThreadStep
  <2> QED BY <1>1, <2>1, ReachFrame DEF dirVars, mainVars, subVars, callVars
<1> QED BY <1>2, <1>3, <1>4

LEMMA ReachLoad ==
    ASSUME Route, Reach, NEW r \in Ranks, NEW p \in Pubs, ServerLoad(r, p)
    PROVE  FirstRelay(p)' /\ WorkersDue(p)' /\ GroupsDue(p)'
<1> DEFINE todo == WorkerDir(Group(r)) \ {r}
<1>1. /\ multiServer[r][p].at = "load"
      /\ multiServer' = [multiServer EXCEPT ![r][p] = [at |-> "send", todo |-> todo]]
      /\ UNCHANGED <<dirVars, mainVars, subVars, eventRecordMap, multiGroup, received, callVars>>
  BY DEF ServerLoad
<1>2. ThreadTypes /\ ReachOf(p)
  BY DEF Route, Reach
<1>3. multiServer'[r][p] = [at |-> "send", todo |-> todo]
      /\ \A a \in Ranks \ {r} : multiServer'[a][p] = multiServer[a][p]
  BY <1>1, <1>2 DEF ThreadTypes
<1>4. multiServer'[r][p].at = "send" /\ multiServer'[r][p].todo = todo
  BY <1>3
<1>5. FirstRelay(p)'
  BY <1>1, <1>2, <1>3, <1>4 DEF ReachOf, FirstRelay, ThreadTypes, callVars
<1>6. \A g : WorkerDir(g)' = WorkerDir(g)
  BY <1>1 DEF WorkerDir, dirVars
<1>7. WorkersDue(p)'
  BY <1>1, <1>2, <1>3, <1>4, <1>6 DEF ReachOf, WorkersDue, callVars
<1>8. GroupsDue(p)'
  <2>1. \A c \in Ranks : multiServer[c][p].at # "none" => multiServer'[c][p].at # "none"
    BY <1>3, <1>4
  <2>2. p \in ready => sentTo[p] \in Ranks
    BY <1>2 DEF ReachOf, ReadyMeans, ThreadTypes
  <2>3. \A a \in Ranks : coordinatorAddrSet[a] \subseteq Ranks
    BY DEF Route, MainTypes
  <2> QED BY <1>1, <1>2, <2>1, <2>2, <2>3 DEF ReachOf, GroupsDue, callVars, mainVars, subVars
<1> QED BY <1>5, <1>7, <1>8

LEMMA ReachServerSend ==
    ASSUME Route, Reach, NEW r \in Ranks, NEW p \in Pubs, ServerSend(r, p)
    PROVE  FirstRelay(p)' /\ WorkersDue(p)' /\ GroupsDue(p)'
<1>1. UNCHANGED <<dirVars, mainVars, subVars, eventRecordMap, callVars>>
  BY DEF ServerSend
<1>2. ThreadTypes /\ ReachOf(p) /\ MainTypes
  BY DEF Route, Reach
<1>3. \A a \in Ranks : multiServer'[a][p].at = multiServer[a][p].at /\ multiGroup'[a][p] = multiGroup[a][p]
  <2>1. PICK t \in multiServer[r][p].todo :
         \/ /\ Listening(t)
            /\ Publish(t, p, "SERVERINGROUP",
                       [multiServer EXCEPT ![r][p].todo = @ \ {t}], multiGroup)
         \/ /\ multiServer' = SetTodo(multiServer, r, p, {})
            /\ UNCHANGED <<multiGroup, received>>
    BY DEF ServerSend, SetTodo
  <2>2. t \in Ranks /\ ~ IsCoordinator(t)
    BY <1>2, StatusDistinct DEF Route, RouteOf, ServerThreads, ThreadTypes, Thread
  <2> DEFINE S == multiServer[r][p].todo \ {t}
  <2>3. /\ multiServer' = SetTodo(multiServer, r, p, S) \/ multiServer' = SetTodo(multiServer, r, p, {})
        /\ multiGroup' = multiGroup
    BY <2>1, <2>2 DEF SetTodo, Publish, SpawnServer, SpawnGroup, IsCoordinator
  <2>4. S \in SUBSET Ranks /\ multiServer \in [Ranks -> [Pubs -> Thread]]
    BY <1>2 DEF ThreadTypes, Thread
  <2> HIDE DEF S
  <2>5. PICK T \in SUBSET Ranks : multiServer' = SetTodo(multiServer, r, p, T)
    BY <2>3, <2>4
  <2>6. /\ \A a \in Ranks, q \in Pubs : (a # r \/ q # p) => multiServer'[a][q] = multiServer[a][q]
        /\ multiServer'[r][p].at = multiServer[r][p].at
    BY <2>4, <2>5, TodoUpdate
  <2> QED BY <2>3, <2>6
<1>4. FirstRelay(p)'
  BY <1>1, <1>2, <1>3 DEF ReachOf, FirstRelay, ThreadTypes, callVars
<1>5. GroupsDue(p)'
  <2>1. p \in ready => sentTo[p] \in Ranks
    BY <1>2 DEF ReachOf, ReadyMeans, ThreadTypes
  <2>2. \A a \in Ranks : coordinatorAddrSet[a] \subseteq Ranks
    BY <1>2 DEF MainTypes
  <2> QED BY <1>1, <1>2, <1>3, <2>1, <2>2 DEF ReachOf, GroupsDue, callVars, mainVars, subVars
<1>6. WorkersDue(p)'
  <2> SUFFICES ASSUME p \in ready, NEW a \in Ranks, multiServer[a][p].at = "send",
                      NEW b \in WorkerDir(Group(a))
               PROVE  b = a \/ b \in multiServer'[a][p].todo \/ received'[b][p] > 0
    BY <1>1, <1>3 DEF WorkersDue, WorkerDir, callVars, dirVars
  <2>1. PICK t \in multiServer[r][p].todo : Listening(t) => ServerCalls(r, p, t)
    BY RouteServerSend
  <2>2. t \in Ranks /\ b \in Ranks
    BY <1>2 DEF ThreadTypes, Thread, WorkerDir, MainTypes
  <2>3. ServerCalls(r, p, t)
    BY <1>2, <2>1, <2>2 DEF ReachOf, ReadyMeans
  <2>4. b = a \/ b \in multiServer[a][p].todo \/ received[b][p] > 0
    BY <1>2 DEF ReachOf, WorkersDue
  <2> QED BY <2>2, <2>3, <2>4 DEF ServerCalls
<1> QED BY <1>4, <1>5, <1>6

LEMMA ReachGroupSend ==
    ASSUME Route, Reach, NEW r \in Ranks, NEW p \in Pubs, GroupSend(r, p)
    PROVE  FirstRelay(p)' /\ WorkersDue(p)' /\ GroupsDue(p)'
<1>1. UNCHANGED <<dirVars, mainVars, subVars, eventRecordMap, callVars>>
  BY DEF GroupSend
<1>2. ThreadTypes /\ ReachOf(p) /\ MainTypes
  BY DEF Route, Reach
<1>3. \A a \in Ranks : multiServer[a][p].at # "none" => multiServer'[a][p] = multiServer[a][p]
  <2>1. PICK t \in multiGroup[r][p].todo :
          multiServer' = multiServer \/ multiServer' = [multiServer EXCEPT ![t][p] = [at |-> "load", todo |-> {}]]
    BY DEF GroupSend, Publish, SpawnServer
  <2>2. t \in Ranks /\ received[t][p] = 0
    BY <1>2 DEF ThreadTypes, Thread, Route, RouteOf, GroupThreads
  <2>3. multiServer[t][p].at = "none"
    BY <2>2 DEF Route, RouteOf, Relays
  <2>4. \A a \in Ranks \ {t} : multiServer'[a][p] = multiServer[a][p]
    BY <1>2, <2>1 DEF ThreadTypes
  <2> QED BY <2>3, <2>4
<1>4. FirstRelay(p)'
  BY <1>1, <1>2, <1>3 DEF ReachOf, FirstRelay, ThreadTypes, callVars
<1>5. ASSUME p \in ready
      PROVE  \E t \in multiGroup[r][p].todo : t \in Ranks /\ r = sentTo[p] /\ GroupCalls(r, p, t)
  <2>1. PICK t \in multiGroup[r][p].todo : Listening(t) => GroupCalls(r, p, t)
    BY RouteGroupSend
  <2>2. t \in Ranks /\ r = sentTo[p]
    BY <1>2 DEF ThreadTypes, Thread, Route, RouteOf, GroupThreads
  <2>3. Listening(t)
    BY <1>2, <1>5, <2>2 DEF ReachOf, ReadyMeans
  <2> QED BY <2>1, <2>2, <2>3
<1>6. WorkersDue(p)'
  <2> SUFFICES ASSUME p \in ready, NEW a \in Ranks, multiServer'[a][p].at = "send",
                      NEW b \in WorkerDir(Group(a))
               PROVE  b = a \/ b \in multiServer'[a][p].todo \/ received'[b][p] > 0
    BY <1>1 DEF WorkersDue, WorkerDir, callVars, dirVars
  <2>1. PICK t \in multiGroup[r][p].todo : t \in Ranks /\ GroupCalls(r, p, t)
    BY <1>5
  <2>2. a # t /\ multiServer'[a][p] = multiServer[a][p]
    BY <2>1 DEF GroupCalls
  <2>3. b = a \/ b \in multiServer[a][p].todo \/ received[b][p] > 0
    BY <1>2, <2>2 DEF ReachOf, WorkersDue
  <2>4. b \in Ranks
    BY <1>2 DEF WorkerDir, MainTypes
  <2> QED BY <2>1, <2>2, <2>3, <2>4 DEF GroupCalls
<1>7. GroupsDue(p)'
  <2> SUFFICES ASSUME p \in ready, IsCoordinator(sentTo[p]), NEW s \in knownSubs[p],
                      SubMsg[s].event = PubMsg[p],
                      coordinatorClients[sat[s]] \in coordinatorAddrSet[sentTo[p]]
               PROVE  \/ coordinatorClients[sat[s]] \in multiGroup'[sentTo[p]][p].todo
                      \/ multiServer'[coordinatorClients[sat[s]]][p].at # "none"
    BY <1>1 DEF GroupsDue, callVars, mainVars, subVars
  <2> DEFINE c == coordinatorClients[sat[s]]
  <2>1. PICK t \in multiGroup[r][p].todo : t \in Ranks /\ r = sentTo[p] /\ GroupCalls(r, p, t)
    BY <1>5
  <2>2. c \in Ranks
    BY <1>2, <2>1 DEF MainTypes
  <2>3. c \in multiGroup[r][p].todo \/ multiServer[c][p].at # "none"
    BY <1>2, <2>1 DEF ReachOf, GroupsDue
  <2>4. HasRecord(c, PubMsg[p])
    BY <1>2 DEF ReachOf, Reach, SubInfo, InfoKept
  <2> HIDE DEF c
  <2>5. c = t => multiServer'[c][p].at # "none"
    BY <2>1, <2>4 DEF GroupCalls
  <2>6. c # t => c \in multiGroup'[r][p].todo \/ multiServer'[c][p].at # "none"
    BY <1>3, <2>1, <2>2, <2>3 DEF GroupCalls
  <2> QED BY <2>1, <2>5, <2>6 DEF c
<1> QED BY <1>4, <1>6, <1>7

LEMMA ReachStep == Route /\ Reach /\ [Next]_vars => Reach'
<1> SUFFICES ASSUME Route, Reach, [Next]_vars PROVE Reach'
  OBVIOUS
<1>1. ASSUME NEW r \in Ranks, MainStep(r) PROVE Reach'
  BY <1>1, ReachMain
<1>2. ASSUME NEW s \in Subs, SubCall(s) \/ SubStep(s) PROVE Reach'
  BY <1>2, ReachSubCall, ReachSubCount, ReachSubRecord DEF SubStep
<1>3. ASSUME NEW p \in Pubs, PubCall(p) PROVE Reach'
  BY <1>3, ReachPubCall
<1>4. ASSUME NEW r \in Ranks, NEW p \in Pubs, ThreadStep(r, p) PROVE Reach'
  <2>1. FirstRelay(p)' /\ WorkersDue(p)' /\ GroupsDue(p)'
    BY <1>4, ReachLoad, ReachServerSend, ReachGroupSend DEF ThreadStep
  <2> QED BY <1>4, <2>1, ReachThread DEF Reach, ReachOf
<1>5. ASSUME UNCHANGED vars PROVE Reach'
  <2>1. UNCHANGED <<dirVars, mainVars, subVars, eventRecordMap, pubVars, callVars>>
    BY <1>5 DEF vars
  <2>2. SubInfo' /\ Announced' /\ CallTypes'
    BY <2>1, ReachOther DEF Reach, CallTypes, callVars
  <2>3. ASSUME NEW p \in Pubs PROVE ReachOf(p)'
    BY <2>1, ReachFrame DEF SameFor, pubVars, callVars, dirVars, mainVars, subVars
  <2> QED BY <2>2, <2>3 DEF Reach
<1> QED BY <1>1, <1>2, <1>3, <1>4, <1>5 DEF Next, Wait

LEMMA ReachHolds == Spec => [](Route /\ Reach)
<1>1. Init => Route /\ Reach
  BY RouteInit, ReachInit
<1>2. (Route /\ Reach) /\ [Next]_vars => (Route /\ Reach)'
  BY RouteStep, ReachStep
<1> QED BY <1>1, <1>2, PTL DEF Spec

(* A relay whose thread is done has reached the workers of its group. *)
LEMMA GroupReached ==
    ASSUME Route, Reach, NEW p \in Pubs, Settled(p), p \in ready, NEW r \in Ranks,
           multiServer[r][p].at # "none", NEW t \in WorkerDir(Group(r))
    PROVE  received[t][p] = 1
<1>1. t \in Ranks
  BY DEF WorkerDir, Route, MainTypes
<1>2. Over(multiServer[r][p])
  BY DEF Settled
<1>3. multiServer[r][p].at = "send" /\ multiServer[r][p].todo = {}
  BY <1>2 DEF Over, Route, ThreadTypes, Thread
<1>4. received[r][p] > 0
  BY DEF Route, RouteOf, Relays
<1>5. received[t][p] > 0
  BY <1>3, <1>4 DEF Reach, ReachOf, WorkersDue
<1>6. received[t][p] <= 1 /\ received[t][p] \in Nat
  BY <1>1 DEF Route, RouteOf, Once, ThreadTypes
<1> QED BY <1>5, <1>6

(* A publication sent when every server listened reaches every worker of   *)
(* the group it was sent to, for groups of any size: the directory is      *)
(* complete by then, and no call fails.                                    *)
THEOREM GroupIsReached == Spec => []WorkersReached
<1>1. Route /\ Reach => WorkersReached
  <2> SUFFICES ASSUME Route, Reach, NEW p \in Pubs, Settled(p), p \in ready,
                      NEW t \in WorkerDir(Group(sentTo[p]))
               PROVE  received[t][p] = 1
    BY DEF WorkersReached
  <2>1. sentTo[p] \in Ranks
    BY DEF Reach, ReachOf, ReadyMeans, Route, ThreadTypes
  <2>2. multiServer[sentTo[p]][p].at # "none"
    BY <2>1, GroupAssumption DEF Reach, ReachOf, FirstRelay
  <2> QED BY <2>1, <2>2, GroupReached
<1> QED BY <1>1, ReachHolds, PTL

(* The sub info RecordSub left routes publications: one sent to a          *)
(* coordinator reaches every subscription recorded before, in every group  *)
(* whose coordinator it had found, whatever the cluster looks like.        *)
THEOREM RecordsRoute == Spec => []SubscribersReached
<1>1. Route /\ Reach => SubscribersReached
  <2> SUFFICES ASSUME Route, Reach, NEW p \in Pubs, Settled(p), p \in ready,
                      IsCoordinator(sentTo[p]), NEW s \in knownSubs[p],
                      SubMsg[s].event = PubMsg[p], Status(sat[s]) # "freepool",
                      CoordinatorDir(Group(sat[s])) \subseteq coordinatorAddrSet[sentTo[p]]
               PROVE  received[sat[s]][p] = 1
    BY DEF SubscribersReached, IsCoordinator
  <2> DEFINE c == coordinatorClients[sat[s]]
  <2>1. s \in recorded /\ s \in Subs
    BY DEF Reach, ReachOf, SubInfo, SubTypes
  <2>2. sat[s] \in Ranks /\ c # None
    BY <2>1 DEF Reach, SubInfo, InfoKept, Counted
  <2>3. c \in CoordinatorDir(Group(sat[s]))
    BY <2>2 DEF Reach, SubInfo, OwnCoordinator
  <2>4. c \in Ranks /\ IsCoordinator(c) /\ Group(c) = Group(sat[s])
    BY <2>3 DEF CoordinatorDir, IsCoordinator, Route, MainTypes
  <2>5. multiServer[c][p].at # "none"
    <3>1. multiGroup[sentTo[p]][p].todo = {}
      BY DEF Settled, Over, Reach, ReachOf, ReadyMeans, Route, ThreadTypes
    <3>2. c \in multiGroup[sentTo[p]][p].todo \/ multiServer[c][p].at # "none"
      BY <2>3 DEF Reach, ReachOf, GroupsDue
    <3> QED BY <3>1, <3>2
  <2> HIDE DEF c
  <2>6. CASE IsWorker(sat[s])
    <3>1. sat[s] \in addrFiles
      BY <2>2 DEF Reach, ReachOf, ReadyMeans, Listening, Announced
    <3>2. sat[s] \in WorkerDir(Group(c))
      BY <2>4, <2>6, <3>1 DEF WorkerDir, IsWorker
    <3> QED BY <2>4, <2>5, <3>2, GroupReached
  <2>7. CASE IsCoordinator(sat[s])
    <3>1. c = sat[s]
      BY <2>2, <2>4, <2>7, OneCoordinator
    <3>2. received[c][p] > 0 /\ received[c][p] <= 1 /\ received[c][p] \in Nat
      BY <2>4, <2>5 DEF Route, RouteOf, Relays, Once, ThreadTypes
    <3> QED BY <3>1, <3>2
  <2> QED BY <2>6, <2>7 DEF IsWorker, IsCoordinator, Status
<1> QED BY <1>1, ReachHolds, PTL
=============================================================================
