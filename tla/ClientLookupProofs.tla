------------------------- MODULE ClientLookupProofs -------------------------
(***************************************************************************)
(* Proofs about ClientLookup: the lock file excludes, for any number of    *)
(* processes, groups and servers and with processes that stop anywhere,    *)
(* and what a client finds is what had been announced.                     *)
(***************************************************************************)
EXTENDS ClientLookup, FiniteSetTheorems, TLAPS

Locations == {"idle", "lock", "workers", "coordinators", "release", "fill",
              "initCoordinators", "size", "call", "stopped"}

Types ==
    /\ pc \in [Procs -> Locations]
    /\ event \in [Procs -> Nat]

LockInv == Types /\ LockExclusive

LEMMA LockInvInit == Init => LockInv
BY DEF Init, LockInv, Types, Locations, LockExclusive, InSection

LEMMA TypesStep == Types /\ [Next]_vars => Types'
<1> SUFFICES ASSUME Types, [Next]_vars PROVE Types'
    OBVIOUS
<1> USE DEF Types, Locations
<1>1. ASSUME NEW s \in Servers, Announce(s) PROVE Types'
  BY <1>1 DEF Announce, procVars
<1>2. ASSUME NEW p \in Procs, getClientFromEvent(p) PROVE Types'
  <2>1. PICK e \in Events :
          /\ event' = [event EXCEPT ![p] = e]
          /\ pc' = [pc EXCEPT ![p] = IF ClusterOf(p, e) \in workerKeys[p] THEN "size" ELSE "lock"]
    BY <1>2 DEF getClientFromEvent
  <2>2. e \in Nat
    BY LookupAssumption
  <2> QED BY <2>1, <2>2
<1>3. ASSUME NEW p \in Procs, LookupStep(p) PROVE Types'
  BY <1>3 DEF LookupStep, getLock, LoadWorkers, LoadCoordinators, releaseLock,
     updateWorkerClients, updateCoordinatorClients, ChooseServer, CallServer
<1>4. ASSUME NEW p \in Procs, StopProcess(p) PROVE Types'
  BY <1>4 DEF StopProcess
<1>5. ASSUME UNCHANGED vars PROVE Types'
  BY <1>5 DEF vars, procVars
<1> QED BY <1>1, <1>2, <1>3, <1>4, <1>5 DEF Next, Poll, Finished

(* A step that leaves the lock files alone and takes nobody into the       *)
(* section keeps the exclusion.                                            *)
LEMMA OutsideKeeps ==
    ASSUME LockInv, Types', NEW p \in Procs, UNCHANGED lockFile,
           \A q \in Procs \ {p} : pc'[q] = pc[q] /\ event'[q] = event[q],
           InSection(p)' => InSection(p) /\ event'[p] = event[p]
    PROVE  LockExclusive'
BY DEF LockInv, LockExclusive, InSection, cluster

(* The lock file excludes: getLock creates it only where there is none,    *)
(* and it is there for as long as its process is in the section.           *)
THEOREM LockExcludes == Spec => []LockExclusive
<1>1. LockInv /\ [Next]_vars => LockInv'
  <2> SUFFICES ASSUME LockInv, [Next]_vars PROVE LockExclusive'
      BY TypesStep DEF LockInv
  <2>t. Types /\ Types'
      BY TypesStep DEF LockInv
  <2>1. ASSUME UNCHANGED <<lockFile, pc, event>> PROVE LockExclusive'
    BY <2>1 DEF LockInv, LockExclusive, InSection, cluster
  <2>2. ASSUME NEW p \in Procs, getClientFromEvent(p) PROVE LockExclusive'
    <3>1. PICK e \in Events :
            /\ event' = [event EXCEPT ![p] = e]
            /\ pc' = [pc EXCEPT ![p] = IF ClusterOf(p, e) \in workerKeys[p] THEN "size" ELSE "lock"]
      BY <2>2 DEF getClientFromEvent
    <3>2. ~ InSection(p)' /\ UNCHANGED lockFile
      BY <3>1, <2>t, <2>2 DEF InSection, Types, getClientFromEvent
    <3>3. \A q \in Procs \ {p} : pc'[q] = pc[q] /\ event'[q] = event[q]
      BY <3>1, <2>t DEF Types
    <3> QED BY <3>2, <3>3, <2>t, OutsideKeeps
  <2>3. ASSUME NEW p \in Procs, getLock(p) PROVE LockExclusive'
    BY <2>3, <2>t DEF getLock, atomicCreate, LockInv, LockExclusive, InSection, cluster, Types
  <2>4. ASSUME NEW p \in Procs, releaseLock(p) PROVE LockExclusive'
    BY <2>4, <2>t DEF releaseLock, LockInv, LockExclusive, InSection, cluster, Types
  <2>5. ASSUME NEW p \in Procs,
               \/ LoadWorkers(p) \/ LoadCoordinators(p) \/ updateWorkerClients(p)
               \/ updateCoordinatorClients(p) \/ ChooseServer(p) \/ CallServer(p)
               \/ StopProcess(p)
        PROVE  LockExclusive'
    <3>1. UNCHANGED <<lockFile, event>>
      BY <2>5 DEF LoadWorkers, LoadCoordinators, updateWorkerClients,
         updateCoordinatorClients, ChooseServer, CallServer, StopProcess
    <3>2. \E l \in Locations : pc' = [pc EXCEPT ![p] = l]
      BY <2>5 DEF LoadWorkers, LoadCoordinators, updateWorkerClients, Locations,
         updateCoordinatorClients, ChooseServer, CallServer, StopProcess
    <3>3. InSection(p)' => InSection(p)
      BY <2>5, <2>t DEF LoadWorkers, LoadCoordinators, updateWorkerClients, Types, InSection,
         updateCoordinatorClients, ChooseServer, CallServer, StopProcess
    <3> QED BY <3>1, <3>2, <3>3, <2>t, OutsideKeeps DEF Types
  <2> QED
    BY <2>1, <2>2, <2>3, <2>4, <2>5 DEF Next, LookupStep, Announce, Poll, Finished, vars, procVars
<1>2. LockInv => LockExclusive
  BY DEF LockInv
<1> QED BY LockInvInit, <1>1, <1>2, PTL DEF Spec

-----------------------------------------------------------------------------
(* What a process knows of a group, on the way from the directories to the *)
(* map of clients.                                                         *)

Announced(g) == {s \in addrFiles : ServerGroup[s] = g}

MapTypes ==
    /\ addrFiles \subseteq Servers
    /\ workerAddr \in [Procs -> SUBSET Servers]
    /\ loadCoordinatorMap \in [Procs -> SUBSET Groups]
    /\ workerKeys \in [Procs -> SUBSET Groups]
    /\ workerAddrMap \in [Procs -> [Groups -> SUBSET Servers]]
    /\ workerClients \in [Procs -> [Groups -> SUBSET Servers]]
    /\ seen \in [Procs -> [Groups -> SUBSET Servers]]
    /\ greeter \in [Procs -> Servers \cup {None}]

(* A group is loaded only while it is no key, so it is loaded for the      *)
(* first time; the key comes with or after the load.                       *)
KeyOrder(p) ==
    /\ pc[p] \in {"lock", "workers", "coordinators", "release", "fill"} =>
         cluster(p) \notin workerKeys[p]
    /\ pc[p] \notin {"initCoordinators", "size", "stopped"} =>
         loadCoordinatorMap[p] \subseteq workerKeys[p]
    /\ pc[p] \in {"initCoordinators", "size"} =>
         loadCoordinatorMap[p] \subseteq workerKeys[p] \cup {cluster(p)}

(* Addresses come from the directories of the group, and none that was     *)
(* there at the beginning of the load gets lost on the way.                *)
Sound(p) ==
    /\ \A g \in Groups : workerClients[p][g] \subseteq Announced(g)
                          /\ seen[p][g] \subseteq Announced(g)
    /\ pc[p] \in {"coordinators", "release", "fill"} =>
         workerAddr[p] \subseteq Announced(cluster(p))
    /\ pc[p] = "call" => greeter[p] \in workerClients[p][cluster(p)]

Complete(p) ==
    /\ pc[p] = "coordinators" => seen[p][cluster(p)] \ Coordinators \subseteq workerAddr[p]
    /\ pc[p] \in {"release", "fill"} => seen[p][cluster(p)] \subseteq workerAddr[p]
    /\ pc[p] \in {"initCoordinators", "size"} =>
         seen[p][cluster(p)] \subseteq workerClients[p][cluster(p)]
    /\ \A g \in workerKeys[p] : seen[p][g] \subseteq workerClients[p][g]

Knows(p) == KeyOrder(p) /\ Sound(p) /\ Complete(p)

FoundInv == Types /\ MapTypes /\ \A p \in Procs : Knows(p)

LEMMA ClusterInGroups == ASSUME Types, NEW p \in Procs PROVE cluster(p) \in Groups
BY LookupAssumption DEF Types, cluster, ClusterOf, Groups

LEMMA FoundInvInit == Init => FoundInv
BY LockInvInit DEF Init, LockInv, FoundInv, MapTypes, Knows, KeyOrder, Sound, Complete

LEMMA MapTypesStep == Types /\ MapTypes /\ [Next]_vars => MapTypes'
<1> SUFFICES ASSUME Types, MapTypes, [Next]_vars PROVE MapTypes'
    OBVIOUS
<1> USE DEF MapTypes
<1>1. ASSUME NEW s \in Servers, Announce(s) PROVE MapTypes'
  BY <1>1 DEF Announce, procVars, mapVars
<1>2. ASSUME NEW p \in Procs, getClientFromEvent(p) PROVE MapTypes'
  BY <1>2 DEF getClientFromEvent, serverVars, mapVars
<1>3. ASSUME NEW p \in Procs, LookupStep(p) PROVE MapTypes'
  <2> USE ClusterInGroups
  <2>1. CASE getLock(p) \/ releaseLock(p) \/ CallServer(p)
    BY <2>1 DEF getLock, releaseLock, CallServer, serverVars, mapVars
  <2>2. CASE LoadWorkers(p)
    BY <2>2 DEF LoadWorkers, serverVars, WorkerDir
  <2>3. CASE LoadCoordinators(p)
    BY <2>3 DEF LoadCoordinators, serverVars, mapVars, CoordinatorDir
  <2>4. CASE updateWorkerClients(p)
    BY <2>4 DEF updateWorkerClients, serverVars
  <2>5. CASE updateCoordinatorClients(p)
    BY <2>5 DEF updateCoordinatorClients, serverVars
  <2>6. CASE ChooseServer(p)
    <3>1. workerClients[p][cluster(p)] \subseteq Servers
      OBVIOUS
    <3>2. \E a \in Servers \cup {None} : greeter' = [greeter EXCEPT ![p] = a]
      BY <2>6, <3>1 DEF ChooseServer
    <3>3. workerKeys' \in [Procs -> SUBSET Groups]
      BY <2>6 DEF ChooseServer
    <3>4. UNCHANGED <<addrFiles, workerAddr, loadCoordinatorMap, workerAddrMap, workerClients, seen>>
      BY <2>6 DEF ChooseServer, serverVars
    <3> QED BY <3>2, <3>3, <3>4
  <2> QED BY <1>3, <2>1, <2>2, <2>3, <2>4, <2>5, <2>6 DEF LookupStep
<1>4. ASSUME NEW p \in Procs, StopProcess(p) PROVE MapTypes'
  BY <1>4 DEF StopProcess, serverVars, mapVars
<1>5. ASSUME UNCHANGED vars PROVE MapTypes'
  BY <1>5 DEF vars, procVars, mapVars, serverVars
<1> QED BY <1>1, <1>2, <1>3, <1>4, <1>5 DEF Next, Poll, Finished

(* Whoever does not move keeps what it knows, while files only appear. *)
LEMMA OthersKeep ==
    ASSUME FoundInv, NEW q \in Procs, addrFiles \subseteq addrFiles',
           pc'[q] = pc[q], event'[q] = event[q], workerAddr'[q] = workerAddr[q],
           loadCoordinatorMap'[q] = loadCoordinatorMap[q], workerKeys'[q] = workerKeys[q],
           workerClients'[q] = workerClients[q], seen'[q] = seen[q], greeter'[q] = greeter[q]
    PROVE  Knows(q)'
<1>1. cluster(q)' = cluster(q)
  BY DEF cluster, ClusterOf
<1>2. \A g \in Groups : Announced(g) \subseteq Announced(g)'
  BY DEF Announced
<1>3. cluster(q) \in Groups
  BY ClusterInGroups DEF FoundInv
<1> QED BY <1>1, <1>2, <1>3 DEF FoundInv, Knows, KeyOrder, Sound, Complete, Groups

(* The steps of a process, for the process itself. *)
LEMMA SelfKeeps ==
    ASSUME FoundInv, Types', MapTypes', NEW p \in Procs,
           getClientFromEvent(p) \/ LookupStep(p) \/ StopProcess(p)
    PROVE  Knows(p)'
<1> USE DEF FoundInv
<1>c. cluster(p) \in Groups /\ cluster(p)' \in Groups
  <2>1. cluster(p) \in Groups
    BY ClusterInGroups
  <2>2. cluster(p)' \in Groups
    BY LookupAssumption DEF Types, cluster, ClusterOf, Groups
  <2> QED BY <2>1, <2>2
<1>k. Knows(p)
  OBVIOUS
<1> USE DEF Types, MapTypes, Knows, KeyOrder, Sound, Complete, Announced
<1>1. CASE getClientFromEvent(p)
  BY <1>1, <1>c, <1>k DEF getClientFromEvent, cluster, serverVars, mapVars
<1>2. ASSUME LookupStep(p) \/ StopProcess(p) PROVE cluster(p)' = cluster(p)
  BY <1>2 DEF cluster, ClusterOf, LookupStep, StopProcess, getLock, LoadWorkers, LoadCoordinators,
     releaseLock, updateWorkerClients, updateCoordinatorClients, ChooseServer, CallServer
<1>3. CASE getLock(p) \/ releaseLock(p) \/ CallServer(p) \/ StopProcess(p)
  <2>1. cluster(p)' = cluster(p)
    BY <1>2, <1>3 DEF LookupStep
  <2> QED BY <1>3, <1>c, <1>k, <2>1
       DEF getLock, atomicCreate, releaseLock, CallServer, StopProcess, serverVars, mapVars
<1>4. CASE LoadWorkers(p)
  <2>1. cluster(p)' = cluster(p)
    BY <1>2, <1>4 DEF LookupStep
  <2> QED BY <1>4, <1>c, <1>k, <2>1 DEF LoadWorkers, serverVars, WorkerDir
<1>5. CASE LoadCoordinators(p)
  <2>1. cluster(p)' = cluster(p)
    BY <1>2, <1>5 DEF LookupStep
  <2> QED BY <1>5, <1>c, <1>k, <2>1 DEF LoadCoordinators, serverVars, mapVars, CoordinatorDir
<1>6. CASE updateWorkerClients(p)
  <2>1. cluster(p)' = cluster(p)
    BY <1>2, <1>6 DEF LookupStep
  <2>2. cluster(p) \notin loadCoordinatorMap[p]
    BY <1>6, <1>k DEF updateWorkerClients
  <2>3. /\ workerClients' = [workerClients EXCEPT ![p][cluster(p)] = @ \cup workerAddr[p]]
        /\ loadCoordinatorMap' = [loadCoordinatorMap EXCEPT ![p] = @ \cup {cluster(p)}]
        /\ \/ workerKeys' = workerKeys
           \/ workerKeys' = [workerKeys EXCEPT ![p] = @ \cup {cluster(p)}]
        /\ pc[p] = "fill" /\ pc' = [pc EXCEPT ![p] = "initCoordinators"]
        /\ UNCHANGED <<seen, addrFiles>>
    BY <1>6, <2>2 DEF updateWorkerClients, serverVars
  <2>4. KeyOrder(p)'
    BY <2>1, <2>3, <1>c, <1>k
  <2>5. Sound(p)'
    BY <2>1, <2>3, <1>c, <1>k
  <2>6. Complete(p)'
    BY <2>1, <2>3, <1>c, <1>k
  <2> QED BY <2>4, <2>5, <2>6
<1>7. CASE updateCoordinatorClients(p)
  <2>1. cluster(p)' = cluster(p)
    BY <1>2, <1>7 DEF LookupStep
  <2> QED BY <1>7, <1>c, <1>k, <2>1 DEF updateCoordinatorClients, serverVars
<1>8. CASE ChooseServer(p)
  <2>1. cluster(p)' = cluster(p)
    BY <1>2, <1>8 DEF LookupStep
  <2> QED BY <1>8, <1>c, <1>k, <2>1 DEF ChooseServer, serverVars
<1> QED BY <1>1, <1>3, <1>4, <1>5, <1>6, <1>7, <1>8 DEF LookupStep

(* A step of a process leaves the others and the directories alone. *)
LEMMA OthersStill ==
    ASSUME Types, MapTypes, NEW p \in Procs, NEW q \in Procs, p # q,
           getClientFromEvent(p) \/ LookupStep(p) \/ StopProcess(p)
    PROVE  /\ addrFiles' = addrFiles
           /\ pc'[q] = pc[q] /\ event'[q] = event[q] /\ workerAddr'[q] = workerAddr[q]
           /\ loadCoordinatorMap'[q] = loadCoordinatorMap[q] /\ workerKeys'[q] = workerKeys[q]
           /\ workerClients'[q] = workerClients[q] /\ seen'[q] = seen[q]
           /\ greeter'[q] = greeter[q]
<1> USE DEF Types, MapTypes, serverVars, mapVars
<1>1. CASE getClientFromEvent(p)
  BY <1>1 DEF getClientFromEvent
<1>2. CASE getLock(p) \/ releaseLock(p) \/ CallServer(p) \/ StopProcess(p)
  BY <1>2 DEF getLock, releaseLock, CallServer, StopProcess
<1>3. CASE LoadWorkers(p) \/ LoadCoordinators(p)
  BY <1>3 DEF LoadWorkers, LoadCoordinators
<1>4. CASE updateWorkerClients(p)
  BY <1>4 DEF updateWorkerClients
<1>5. CASE updateCoordinatorClients(p) \/ ChooseServer(p)
  BY <1>5 DEF updateCoordinatorClients, ChooseServer
<1> QED BY <1>1, <1>2, <1>3, <1>4, <1>5 DEF LookupStep

LEMMA FoundInvStep == FoundInv /\ [Next]_vars => FoundInv'
<1> SUFFICES ASSUME FoundInv, [Next]_vars PROVE FoundInv'
    OBVIOUS
<1>t. Types /\ MapTypes /\ Types' /\ MapTypes'
    BY TypesStep, MapTypesStep DEF FoundInv
<1>1. ASSUME NEW s \in Servers, Announce(s), NEW q \in Procs PROVE Knows(q)'
  BY <1>1, OthersKeep DEF Announce, procVars, mapVars
<1>2. ASSUME NEW p \in Procs, getClientFromEvent(p) \/ LookupStep(p) \/ StopProcess(p),
             NEW q \in Procs
      PROVE  Knows(q)'
  <2>1. CASE q = p
    BY <1>2, <1>t, <2>1, SelfKeeps
  <2>2. CASE q # p
    BY <1>2, <1>t, <2>2, OthersStill, OthersKeep
  <2> QED BY <2>1, <2>2
<1>3. ASSUME UNCHANGED vars, NEW q \in Procs PROVE Knows(q)'
  BY <1>3, OthersKeep DEF vars, procVars, mapVars, serverVars
<1> QED BY <1>t, <1>1, <1>2, <1>3 DEF Next, Poll, Finished, FoundInv

(* A client calls only a server of its event's group, and what it knows of *)
(* a group is all that was announced when it read the directories.         *)
THEOREM FindsServer == Spec => []FoundServer
<1>1. FoundInv => FoundServer
  BY ClusterInGroups DEF FoundInv, Knows, Sound, Complete, Announced, FoundServer, cluster, ClusterOf
<1> QED BY FoundInvInit, FoundInvStep, <1>1, PTL DEF Spec

-----------------------------------------------------------------------------
(* The descriptors getLock leaves open, counted by the groups loaded. *)

Loading(p) == pc[p] \in {"workers", "coordinators", "release", "fill"}
With(p) == loadCoordinatorMap[p] \cup {cluster(p)}

Descriptors(p) ==
    /\ Loading(p) => fds[p] <= Cardinality(loadCoordinatorMap[p]) + 1
    /\ pc[p] = "stopped" => fds[p] <= Cardinality(With(p))
    /\ ~ Loading(p) /\ pc[p] # "stopped" => fds[p] <= Cardinality(loadCoordinatorMap[p])

FdInv == FoundInv /\ fds \in [Procs -> Nat] /\ \A p \in Procs : Descriptors(p)

LEMMA LoadedFinite ==
    ASSUME FoundInv, NEW p \in Procs
    PROVE  /\ IsFiniteSet(loadCoordinatorMap[p]) /\ Cardinality(loadCoordinatorMap[p]) \in Nat
           /\ Cardinality(With(p)) \in Nat
           /\ Cardinality(loadCoordinatorMap[p]) <= Cardinality(With(p))
           /\ cluster(p) \notin loadCoordinatorMap[p] =>
                Cardinality(With(p)) = Cardinality(loadCoordinatorMap[p]) + 1
<1>1. IsFiniteSet(Groups)
  BY LookupAssumption, FS_Interval DEF Groups
<1>2. IsFiniteSet(loadCoordinatorMap[p])
  BY <1>1, FS_Subset DEF FoundInv, MapTypes
<1>3. Cardinality(loadCoordinatorMap[p]) \in Nat
  BY <1>2, FS_CardinalityType
<1>4. Cardinality(With(p)) = IF cluster(p) \in loadCoordinatorMap[p]
                             THEN Cardinality(loadCoordinatorMap[p])
                             ELSE Cardinality(loadCoordinatorMap[p]) + 1
  BY <1>2, FS_AddElement DEF With
<1> QED BY <1>2, <1>3, <1>4

LEMMA DescriptorsKept ==
    ASSUME FdInv, FoundInv', NEW p \in Procs,
           getClientFromEvent(p) \/ LookupStep(p) \/ StopProcess(p)
    PROVE  fds'[p] \in Nat /\ Descriptors(p)'
<1> DEFINE n == Cardinality(loadCoordinatorMap[p])
<1>f. /\ n \in Nat /\ Cardinality(With(p)) \in Nat /\ n <= Cardinality(With(p))
      /\ cluster(p) \notin loadCoordinatorMap[p] => Cardinality(With(p)) = n + 1
  BY LoadedFinite DEF FdInv
<1>t. /\ pc \in [Procs -> Locations] /\ fds \in [Procs -> Nat] /\ Descriptors(p)
      /\ loadCoordinatorMap \in [Procs -> SUBSET Groups]
  BY DEF FdInv, FoundInv, Types, MapTypes
<1>n. pc[p] \in {"lock", "workers", "coordinators", "release", "fill"} =>
        cluster(p) \notin loadCoordinatorMap[p]
  BY DEF FdInv, FoundInv, Knows, KeyOrder
<1> USE DEF Descriptors, Loading
<1>1. CASE getClientFromEvent(p)
  <2>1. /\ pc[p] = "idle" /\ pc'[p] \in {"size", "lock"}
        /\ UNCHANGED <<fds, loadCoordinatorMap>>
    BY <1>1, <1>t DEF getClientFromEvent, mapVars
  <2> QED BY <2>1, <1>t
<1>2. CASE getLock(p)
  <2>1. /\ pc[p] = "lock" /\ pc'[p] = "workers" /\ fds'[p] = fds[p] + 1
        /\ UNCHANGED loadCoordinatorMap
    BY <1>2, <1>t DEF getLock, atomicCreate, mapVars
  <2>2. fds[p] \in Nat /\ fds[p] <= n
    BY <2>1, <1>t
  <2> QED BY <2>1, <2>2, <1>f
<1>3. CASE LoadWorkers(p) \/ LoadCoordinators(p) \/ releaseLock(p)
  <2>1. Loading(p) /\ Loading(p)' /\ pc'[p] # "stopped" /\ UNCHANGED <<fds, loadCoordinatorMap>>
    BY <1>3, <1>t DEF LoadWorkers, LoadCoordinators, releaseLock, mapVars
  <2> QED BY <2>1, <1>t
<1>4. CASE updateWorkerClients(p)
  <2>1. /\ pc[p] = "fill" /\ pc'[p] = "initCoordinators" /\ UNCHANGED fds
        /\ loadCoordinatorMap'[p] = With(p)
    BY <1>4, <1>t DEF updateWorkerClients, With
  <2>2. fds[p] \in Nat /\ fds[p] <= n + 1 /\ Cardinality(With(p)) = n + 1
    BY <2>1, <1>t, <1>f, <1>n
  <2> QED BY <2>1, <2>2
<1>5. CASE updateCoordinatorClients(p) \/ ChooseServer(p) \/ CallServer(p)
  <2>1. /\ ~ Loading(p) /\ pc[p] # "stopped" /\ ~ Loading(p)' /\ pc'[p] # "stopped"
        /\ UNCHANGED <<fds, loadCoordinatorMap>>
    BY <1>5, <1>t DEF updateCoordinatorClients, ChooseServer, CallServer, mapVars
  <2> QED BY <2>1, <1>t
<1>6. CASE StopProcess(p)
  <2>1. /\ pc[p] # "stopped" /\ pc'[p] = "stopped" /\ UNCHANGED <<fds, loadCoordinatorMap>>
        /\ With(p)' = With(p)
    BY <1>6, <1>t DEF StopProcess, mapVars, With, cluster, ClusterOf
  <2>2. fds[p] \in Nat /\ fds[p] <= Cardinality(With(p))
    BY <2>1, <1>t, <1>f, <1>n
  <2> QED BY <2>1, <2>2
<1> QED BY <1>1, <1>2, <1>3, <1>4, <1>5, <1>6 DEF LookupStep

LEMMA FdInvStep == FdInv /\ [Next]_vars => FdInv'
<1> SUFFICES ASSUME FdInv, [Next]_vars
             PROVE  fds' \in [Procs -> Nat] /\ \A q \in Procs : Descriptors(q)'
    BY FoundInvStep DEF FdInv
<1>f. FoundInv /\ FoundInv'
    BY FoundInvStep DEF FdInv
<1>d. ASSUME NEW p \in Procs, getClientFromEvent(p) \/ LookupStep(p) \/ StopProcess(p)
      PROVE  \E n : fds' = [fds EXCEPT ![p] = n]
  BY <1>d DEF FdInv, LookupStep, getClientFromEvent, StopProcess, getLock, LoadWorkers,
     LoadCoordinators, releaseLock, updateWorkerClients, updateCoordinatorClients,
     ChooseServer, CallServer
<1>1. ASSUME NEW p \in Procs, getClientFromEvent(p) \/ LookupStep(p) \/ StopProcess(p)
      PROVE  fds' \in [Procs -> Nat] /\ \A q \in Procs : Descriptors(q)'
  <2>1. fds'[p] \in Nat /\ Descriptors(p)'
    BY <1>1, <1>f, DescriptorsKept
  <2>2. fds' \in [Procs -> Nat] /\ \A q \in Procs \ {p} : fds'[q] = fds[q]
    BY <2>1, <1>1, <1>d DEF FdInv
  <2>3. ASSUME NEW q \in Procs, q # p PROVE Descriptors(q)'
    <3>1. /\ pc'[q] = pc[q] /\ event'[q] = event[q]
          /\ loadCoordinatorMap'[q] = loadCoordinatorMap[q]
      BY <1>1, <2>3, <1>f, OthersStill DEF FoundInv
    <3>2. With(q)' = With(q)
      BY <3>1 DEF With, cluster, ClusterOf
    <3> QED BY <2>2, <2>3, <3>1, <3>2 DEF FdInv, Descriptors, Loading
  <2> QED BY <2>1, <2>2, <2>3
<1>2. ASSUME UNCHANGED <<procVars, mapVars>>
      PROVE  fds' \in [Procs -> Nat] /\ \A q \in Procs : Descriptors(q)'
  BY <1>2 DEF procVars, mapVars, FdInv, Descriptors, Loading, With, cluster, ClusterOf
<1> QED BY <1>1, <1>2 DEF Next, Announce, Poll, Finished, vars

(* The descriptors a process leaves open are bounded by the groups it has  *)
(* looked up, not by the events it handles.                                *)
THEOREM DescriptorsBounded == Spec => []FdBounded
<1>1. Init => FdInv
  <2>1. ASSUME Init PROVE fds \in [Procs -> Nat] /\ \A p \in Procs : Descriptors(p)
    BY <2>1, FS_EmptySet DEF Init, Descriptors, Loading
  <2> QED BY <2>1, FoundInvInit DEF FdInv
<1>2. FdInv => FdBounded
  <2> SUFFICES ASSUME FdInv, NEW p \in Procs
               PROVE  fds[p] <= Cardinality(loadCoordinatorMap[p]
                                  \cup {g \in Groups : g = cluster(p) /\ pc[p] # "idle"})
      BY DEF FdBounded
  <2> DEFINE R == loadCoordinatorMap[p] \cup {g \in Groups : g = cluster(p) /\ pc[p] # "idle"}
  <2>f. /\ Cardinality(loadCoordinatorMap[p]) \in Nat /\ Cardinality(With(p)) \in Nat
        /\ Cardinality(loadCoordinatorMap[p]) <= Cardinality(With(p))
        /\ cluster(p) \notin loadCoordinatorMap[p] =>
             Cardinality(With(p)) = Cardinality(loadCoordinatorMap[p]) + 1
    BY LoadedFinite DEF FdInv
  <2>t. fds[p] \in Nat /\ Descriptors(p) /\ cluster(p) \in Groups
    BY ClusterInGroups DEF FdInv, FoundInv
  <2>1. CASE pc[p] = "idle"
    <3>1. R = loadCoordinatorMap[p]
      BY <2>1
    <3> QED BY <3>1, <2>1, <2>t DEF Descriptors, Loading
  <2>2. CASE pc[p] # "idle"
    <3>1. R = With(p)
      BY <2>2, <2>t DEF With
    <3>2. Loading(p) => cluster(p) \notin loadCoordinatorMap[p]
      BY DEF FdInv, FoundInv, Knows, KeyOrder, Loading
    <3>3. fds[p] <= Cardinality(With(p))
      BY <3>2, <2>f, <2>t DEF Descriptors
    <3> QED BY <3>1, <3>3
  <2> QED BY <2>1, <2>2
<1> QED BY <1>1, <1>2, FdInvStep, PTL DEF Spec
=============================================================================
