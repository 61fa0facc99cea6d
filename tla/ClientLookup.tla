---------------------------- MODULE ClientLookup ----------------------------
(***************************************************************************)
(* How a client process finds a server for an event: getClientFromEvent    *)
(* (pubsubclient.cc) with the address maps of groupManager.cpp, under the  *)
(* lock file of dlm.cc, for eventSubscribe and eventPublish of             *)
(* eventmanager.cpp.  The processes are MPI ranks that share a file        *)
(* system; each looks up one event after the other.  An event is the       *)
(* number at the end of its name.                                          *)
(*                                                                         *)
(* Servers announce themselves while clients look them up, without the     *)
(* lock.  A process may stop at any time and leave the lock file behind.   *)
(***************************************************************************)
EXTENDS Naturals, FiniteSets

CONSTANTS
    Procs,          \* client processes
    MayStop,        \* those that may stop while they look a server up
    Servers,
    ServerGroup,    \* server -> group
    Coordinators,   \* the servers announced in a coordinator directory
    gm_groupNumber,
    Events,         \* the numbers of the events
    MaxCalls,       \* process -> lookups it makes
    None

ASSUME LookupAssumption ==
    /\ gm_groupNumber \in Nat \ {0}
    /\ Events \subseteq Nat /\ MaxCalls \in [Procs -> Nat]
    /\ MayStop \subseteq Procs /\ Coordinators \subseteq Servers
    /\ ServerGroup \in [Servers -> 0 .. gm_groupNumber - 1]
    /\ None \notin Servers

VARIABLES
    dirs,               \* groups whose cluster directory exists
    addrFiles,          \* servers whose address file exists
    lockFile,           \* groups whose directory holds the lock file
    pc, event,          \* process: control, the event it looks up
    workerAddr,         \* process: addresses read so far
    loadCoordinatorMap, \* process: groups whose addresses were loaded
    workerAddrMap,      \* process -> group -> addresses
    workerKeys,         \* process: the keys of workerClients
    workerClients,      \* process -> group -> servers
    coordinatorClients, \* process: coordinators, for the coordinator calls
    greeter,            \* process: the server it calls, or None
    fds,                \* process: descriptors of lock files it left open
    calls,              \* process: lookups it began
    seen                \* history: process -> group -> announced when it loaded

serverVars == <<dirs, addrFiles>>
mapVars == <<loadCoordinatorMap, workerAddrMap, workerKeys, workerClients,
             coordinatorClients, seen>>
procVars == <<pc, event, workerAddr, greeter, fds, calls>>
vars == <<serverVars, lockFile, mapVars, procVars>>

Groups == 0 .. gm_groupNumber - 1

MutByRank(p, i) == Cardinality({q \in Procs : calls[q] > calls[p]}) % gm_groupNumber

(* getClusterDirFromEvent for process p. *)
ClusterOf(p, i) == i % gm_groupNumber

cluster(p) == ClusterOf(p, event[p])

WorkerDir(g) == {s \in addrFiles : ServerGroup[s] = g /\ s \notin Coordinators}
CoordinatorDir(g) == {s \in addrFiles : ServerGroup[s] = g /\ s \in Coordinators}

Init ==
    /\ dirs = {} /\ addrFiles = {}
    /\ lockFile = {}
    /\ pc = [p \in Procs |-> "idle"]
    /\ event = [p \in Procs |-> 0]
    /\ workerAddr = [p \in Procs |-> {}]
    /\ loadCoordinatorMap = [p \in Procs |-> {}]
    /\ workerAddrMap = [p \in Procs |-> [g \in Groups |-> {}]]
    /\ workerKeys = [p \in Procs |-> {}]
    /\ workerClients = [p \in Procs |-> [g \in Groups |-> {}]]
    /\ coordinatorClients = [p \in Procs |-> {}]
    /\ greeter = [p \in Procs |-> None]
    /\ fds = [p \in Procs |-> 0]
    /\ calls = [p \in Procs |-> 0]
    /\ seen = [p \in Procs |-> [g \in Groups |-> {}]]

-----------------------------------------------------------------------------
(* The servers, whose own startup is the subject of Cluster. *)

Announce(s) ==
    /\ s \notin addrFiles
    /\ IF ServerGroup[s] \in dirs
       THEN addrFiles' = addrFiles \cup {s} /\ UNCHANGED dirs
       ELSE dirs' = dirs \cup {ServerGroup[s]} /\ UNCHANGED addrFiles
    /\ UNCHANGED <<lockFile, mapVars, procVars>>

-----------------------------------------------------------------------------
(* getClientFromEvent, for an event to publish or to subscribe to. *)
getClientFromEvent(p) ==
    /\ pc[p] = "idle" /\ calls[p] < MaxCalls[p]
    /\ calls' = [calls EXCEPT ![p] = @ + 1]
    /\ \E e \in Events :
         /\ event' = [event EXCEPT ![p] = e]
         /\ pc' = [pc EXCEPT ![p] = IF ClusterOf(p, e) \in workerKeys[p] THEN "size" ELSE "lock"]
    /\ UNCHANGED <<serverVars, lockFile, mapVars, workerAddr, greeter, fds>>

MutTestThenCreate(p) ==
    /\ pc[p] = "lock"
    /\ cluster(p) \in dirs
    /\ lockFile' = lockFile \cup {cluster(p)}
    /\ fds' = [fds EXCEPT ![p] = @ + 1]
    /\ pc' = [pc EXCEPT ![p] = "workers"]
    /\ UNCHANGED <<serverVars, mapVars, event, workerAddr, greeter, calls>>

(* open(O_CREAT | O_EXCL) in atomicCreate. *)
atomicCreate(p) == pc[p] = "lock" /\ cluster(p) \in dirs /\ cluster(p) \notin lockFile

(* getLock tries until open() creates the file: not while it is there, and *)
(* not while the directory is missing.  The descriptor is never closed.    *)
getLock(p) ==
    /\ atomicCreate(p)
    /\ lockFile' = lockFile \cup {cluster(p)}
    /\ fds' = [fds EXCEPT ![p] = @ + 1]
    /\ pc' = [pc EXCEPT ![p] = "workers"]
    /\ UNCHANGED <<serverVars, mapVars, event, workerAddr, greeter, calls>>

(* An attempt that fails, and the sleep after it. *)
Poll(p) == pc[p] = "lock" /\ ~ atomicCreate(p) /\ UNCHANGED vars

(* updateWorkerAddrMap: one directory, then the other. *)
LoadWorkers(p) ==
    /\ pc[p] = "workers"
    /\ workerAddr' = [workerAddr EXCEPT ![p] = WorkerDir(cluster(p))]
    /\ seen' = [seen EXCEPT ![p][cluster(p)] =
                  {s \in addrFiles : ServerGroup[s] = cluster(p)}]
    /\ pc' = [pc EXCEPT ![p] = "coordinators"]
    /\ UNCHANGED <<serverVars, lockFile, loadCoordinatorMap, workerAddrMap, workerKeys, workerClients,
                   coordinatorClients, event, greeter, fds, calls>>

LoadCoordinators(p) ==
    /\ pc[p] = "coordinators"
    /\ workerAddr' = [workerAddr EXCEPT ![p] = @ \cup CoordinatorDir(cluster(p))]
    /\ pc' = [pc EXCEPT ![p] = "release"]
    /\ UNCHANGED <<serverVars, lockFile, mapVars, event, greeter, fds, calls>>

MutKeepLock(p) ==
    /\ pc[p] = "release"
    /\ lockFile' = IF workerAddr[p] = {} THEN lockFile ELSE lockFile \ {cluster(p)}
    /\ pc' = [pc EXCEPT ![p] = "fill"]
    /\ UNCHANGED <<serverVars, mapVars, event, workerAddr, greeter, fds, calls>>

(* releaseLock removes the file, whoever wrote it. *)
releaseLock(p) ==
    /\ pc[p] = "release"
    /\ lockFile' = lockFile \ {cluster(p)}
    /\ pc' = [pc EXCEPT ![p] = "fill"]
    /\ UNCHANGED <<serverVars, mapVars, event, workerAddr, greeter, fds, calls>>

(* The list is kept from the first load of a group on; updateWorkerClients *)
(* makes a client for each of its addresses.                               *)
updateWorkerClients(p) ==
    /\ pc[p] = "fill"
    /\ LET g == cluster(p)
           first == g \notin loadCoordinatorMap[p]
           workList == IF first THEN workerAddr[p] ELSE workerAddrMap[p][g]
       IN /\ workerAddrMap' = [workerAddrMap EXCEPT ![p][g] = workList]
          /\ loadCoordinatorMap' = [loadCoordinatorMap EXCEPT ![p] = @ \cup {g}]
          /\ workerClients' = [workerClients EXCEPT ![p][g] = @ \cup workList]
          /\ workerKeys' = IF workList = {} THEN workerKeys
                           ELSE [workerKeys EXCEPT ![p] = @ \cup {g}]
    /\ workerAddr' = [workerAddr EXCEPT ![p] = {}]
    /\ pc' = [pc EXCEPT ![p] = "initCoordinators"]
    /\ UNCHANGED <<serverVars, lockFile, coordinatorClients, seen, event, greeter, fds, calls>>

(* The coordinator directory is read once more, without the lock. *)
updateCoordinatorClients(p) ==
    /\ pc[p] = "initCoordinators"
    /\ coordinatorClients' = [coordinatorClients EXCEPT ![p] = @ \cup CoordinatorDir(cluster(p))]
    /\ pc' = [pc EXCEPT ![p] = "size"]
    /\ UNCHANGED <<serverVars, lockFile, loadCoordinatorMap, workerAddrMap, workerKeys,
                   workerClients, seen, event, workerAddr, greeter, fds, calls>>

MutLookAgain(p) ==
    /\ pc[p] = "size"
    /\ \/ /\ workerClients[p][cluster(p)] = {}
          /\ greeter' = [greeter EXCEPT ![p] = None]
          /\ pc' = [pc EXCEPT ![p] = "idle"]
       \/ /\ \E s \in workerClients[p][cluster(p)] : greeter' = [greeter EXCEPT ![p] = s]
          /\ pc' = [pc EXCEPT ![p] = "call"]
    /\ UNCHANGED <<serverVars, lockFile, mapVars, event, workerAddr, fds, calls>>

(* workerClients[clusterDir].size() makes the key, also for no servers:    *)
(* the group is not loaded again.  One of the servers is taken at random.  *)
ChooseServer(p) ==
    /\ pc[p] = "size"
    /\ workerKeys' = [workerKeys EXCEPT ![p] = @ \cup {cluster(p)}]
    /\ \/ /\ workerClients[p][cluster(p)] = {}
          /\ greeter' = [greeter EXCEPT ![p] = None]
          /\ pc' = [pc EXCEPT ![p] = "idle"]
       \/ /\ \E s \in workerClients[p][cluster(p)] : greeter' = [greeter EXCEPT ![p] = s]
          /\ pc' = [pc EXCEPT ![p] = "call"]
    /\ UNCHANGED <<serverVars, lockFile, loadCoordinatorMap, workerAddrMap, workerClients,
                   coordinatorClients, seen, event, workerAddr, fds, calls>>

(* eventPublish and eventSubscribe: the RPC.  Answered or not, the caller  *)
(* goes on.                                                                *)
CallServer(p) ==
    /\ pc[p] = "call"
    /\ pc' = [pc EXCEPT ![p] = "idle"]
    /\ greeter' = [greeter EXCEPT ![p] = None]
    /\ UNCHANGED <<serverVars, lockFile, mapVars, event, workerAddr, fds, calls>>

(* The process is stopped. *)
StopProcess(p) ==
    /\ p \in MayStop /\ pc[p] \notin {"idle", "stopped"}
    /\ pc' = [pc EXCEPT ![p] = "stopped"]
    /\ UNCHANGED <<serverVars, lockFile, mapVars, event, workerAddr, greeter, fds, calls>>

(* Nobody has anything left to look up. *)
Finished ==
    /\ addrFiles = Servers
    /\ \A p \in Procs : pc[p] = "stopped" \/ (pc[p] = "idle" /\ calls[p] = MaxCalls[p])
    /\ UNCHANGED vars

LookupStep(p) ==
    \/ getLock(p) \/ LoadWorkers(p) \/ LoadCoordinators(p) \/ releaseLock(p)
    \/ updateWorkerClients(p) \/ updateCoordinatorClients(p)
    \/ ChooseServer(p) \/ CallServer(p)

Next ==
    \/ \E s \in Servers : Announce(s)
    \/ \E p \in Procs : getClientFromEvent(p) \/ LookupStep(p) \/ Poll(p) \/ StopProcess(p)
    \/ Finished

Spec == Init /\ [][Next]_vars

(* Servers are started and announce themselves; a process runs on until it *)
(* stops.                                                                  *)
FairSpec ==
    /\ Spec
    /\ \A s \in Servers : WF_vars(Announce(s))
    /\ \A p \in Procs : WF_vars(LookupStep(p))

-----------------------------------------------------------------------------
InSection(p) == pc[p] \in {"workers", "coordinators", "release"}

(* dlm.cc: the file is created atomically and removed by whoever leaves,   *)
(* without a look at the owner it names: at most one process reads a       *)
(* group's directories at a time, and the file is there all the while.     *)
LockExclusive ==
    \A p \in Procs :
        InSection(p) =>
            /\ cluster(p) \in lockFile
            /\ \A q \in Procs : (InSection(q) /\ cluster(q) = cluster(p)) => q = p

(* A client that looks a group up early keeps the list it got.  It never   *)
(* calls a server of another group than the event's, which the subscribers *)
(* of the event use too, and it has no server at all only if none of the   *)
(* group had announced itself when the list was loaded.                    *)
FoundServer ==
    \A p \in Procs :
        /\ pc[p] = "call" =>
             greeter[p] \in addrFiles /\ ServerGroup[greeter[p]] = event[p] % gm_groupNumber
        /\ \A g \in workerKeys[p] : seen[p][g] \subseteq workerClients[p][g]

(* Every acquisition leaves a descriptor open: a process has one for each  *)
(* group it looked up, however many events it handles and even where it    *)
(* found no server.                                                        *)
FdBounded ==
    \A p \in Procs :
        fds[p] <= Cardinality(loadCoordinatorMap[p]
                                \cup {g \in Groups : g = cluster(p) /\ pc[p] # "idle"})

(* The lock is left behind by a process that stopped in the section. *)
Orphaned(g) == g \in lockFile /\ ~ \E p \in Procs : InSection(p) /\ cluster(p) = g

(* eventPublish waits for getLock, which polls for ever: a lookup still    *)
(* ends, unless a process that stopped has left the lock of the group      *)
(* behind.                                                                 *)
LookupEnds ==
    \A p \in Procs :
        pc[p] = "lock" ~>
            \/ pc[p] \in {"idle", "stopped"}
            \/ Orphaned(cluster(p)) /\ \E q \in MayStop : pc[q] = "stopped"
=============================================================================
