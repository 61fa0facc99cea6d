------------------------------ MODULE Cluster ------------------------------
(***************************************************************************)
(* The server processes of one MPI job: how they announce themselves in    *)
(* the shared directory and find each other's coordinators, and how a      *)
(* publication travels between them (groupManager.cpp, coordinator.cpp and *)
(* the Subscribe, RecordSub and Publish handlers of workflowserver.cc).    *)
(*                                                                         *)
(* A server is its rank, and stands for its address too.  An RPC is one    *)
(* step: the caller waits for the reply, and what the handler does inside  *)
(* the server it calls is the subject of PubSub.  It fails when the callee *)
(* does not listen yet: addresses are announced before the service starts. *)
(***************************************************************************)
EXTENDS Naturals, Sequences, FiniteSets

CONSTANTS
    Ranks,                  \* the MPI ranks of the servers
    gm_groupNumber,         \* number of groups
    gm_requiredGroupSize,   \* servers per group
    Events,                 \* event names
    Subs,                   \* the clients' Subscribe calls
    SubMsg,                 \*   [event, counted]: counted when it is written "event:num"
    Pubs,                   \* the clients' Publish calls
    PubMsg,                 \*   the one event each publishes
    None

ASSUME GroupAssumption ==
    /\ Ranks \subseteq Nat /\ IsFiniteSet(Ranks)
    /\ gm_groupNumber \in Nat \ {0} /\ gm_requiredGroupSize \in Nat \ {0}
    /\ None \notin Ranks
    /\ Subs \cap Pubs = {}

ASSUME CallAssumption ==
    /\ SubMsg \in [Subs -> [event : Events, counted : BOOLEAN]]
    /\ PubMsg \in [Pubs -> Events]

VARIABLES
    dirs,           \* directories that exist on the shared file system
    addrFiles,      \* servers whose address file exists
    pc, depth,      \* servers: control of main(), directory being created
    clusters,       \* servers: cluster directories still to look into
    coordinatorAddrSet, \* servers: the coordinators they know
    coordinatorClients, \* servers: the coordinator RecordSub goes to, or None
    subNum,         \* servers: event -> size of subtoClient[event]
    eventRecordMap, \* servers: event -> server -> recorded number, 0 when absent
    spc, sat, snum, \* Subscribe handlers: control, server, number sent
    multiServer,    \* server -> publication -> publishMultiServer thread
    multiGroup,     \* server -> publication -> publishMultiGroup thread
    sentTo,         \* history: server the client called, None before
    received,       \* history: times a server handled a publication
    recorded,       \* history: subscriptions whose RecordSub was delivered
    ready,          \* history: the calls made when all servers listened
    knownSubs       \* history: subscriptions recorded when the client called

dirVars  == <<dirs, addrFiles>>
mainVars == <<pc, depth, clusters, coordinatorAddrSet>>
subVars  == <<coordinatorClients, subNum, spc, sat, snum, recorded>>
pubVars  == <<multiServer, multiGroup, received>>
callVars == <<sentTo, ready, knownSubs>>
vars == <<dirVars, mainVars, subVars, eventRecordMap, pubVars, callVars>>

-----------------------------------------------------------------------------
Groups == 0 .. gm_groupNumber - 1

(* getClusterDir: the cluster directory a server works with, also when it  *)
(* is in the free pool.                                                    *)
Group(r) == r % gm_groupNumber

Status(r) ==
    IF r < gm_groupNumber THEN "coordinator"
    ELSE IF r < gm_groupNumber * gm_requiredGroupSize THEN "worker" ELSE "freepool"

MutSwapped(r) ==
    IF Status(r) = "freepool" THEN <<<<"FreePool", 0>>, <<"multinodeip", 0>>>>
    ELSE <<<<"multinodeip", 0>>, <<Status(r), Group(r)>>, <<"cluster", Group(r)>>>>

(* The directories recordIPortIntoClusterDir creates, outermost first: the *)
(* address file goes into the last one.                                    *)
Path(r) ==
    IF Status(r) = "freepool" THEN <<<<"multinodeip", 0>>, <<"FreePool", 0>>>>
    ELSE <<<<"multinodeip", 0>>, <<"cluster", Group(r)>>, <<Status(r), Group(r)>>>>

(* mkdir succeeds only inside a directory that exists. *)
HasParent(d) ==
    CASE d[1] = "multinodeip" -> TRUE
      [] d[1] \in {"FreePool", "cluster"} -> <<"multinodeip", 0>> \in dirs
      [] OTHER -> <<"cluster", d[2]>> \in dirs

(* loadAddrInDir on a group's coordinator and worker directories. *)
CoordinatorDir(g) == {r \in addrFiles : Status(r) = "coordinator" /\ Group(r) = g}
WorkerDir(g) == {r \in addrFiles : Status(r) = "worker" /\ Group(r) = g}

Listening(r) == pc[r] = "serve"

(* A record only grows: RecordSub calls may arrive in any order. *)
updateStatusMap(m, e, addr, n) == IF n > m[e][addr] THEN [m EXCEPT ![e][addr] = n] ELSE m

(* The coordinator has sub info of the event. *)
HasRecord(r, e) == \E a \in Ranks : eventRecordMap[r][e][a] > 0

(* A broadcasting thread: not started, about to read the worker directory, *)
(* or with these servers left to call.                                     *)
NoThread == [at |-> "none", todo |-> {}]
Over(thread) == thread.at # "load" /\ thread.todo = {}

Init ==
    /\ dirs = {}
    /\ addrFiles = {}
    /\ pc = [r \in Ranks |-> "open"]
    /\ depth = [r \in Ranks |-> 1]
    /\ clusters = [r \in Ranks |-> {}]
    /\ coordinatorAddrSet = [r \in Ranks |-> {}]
    /\ coordinatorClients = [r \in Ranks |-> None]
    /\ subNum = [r \in Ranks |-> [e \in Events |-> 0]]
    /\ eventRecordMap = [r \in Ranks |-> [e \in Events |-> [a \in Ranks |-> 0]]]
    /\ spc = [s \in Subs |-> "new"]
    /\ sat = [s \in Subs |-> None]
    /\ snum = [s \in Subs |-> 0]
    /\ multiServer = [r \in Ranks |-> [p \in Pubs |-> NoThread]]
    /\ multiGroup = [r \in Ranks |-> [p \in Pubs |-> NoThread]]
    /\ sentTo = [p \in Pubs |-> None]
    /\ received = [r \in Ranks |-> [p \in Pubs |-> 0]]
    /\ recorded = {}
    /\ ready = {}
    /\ knownSubs = [p \in Pubs |-> {}]

-----------------------------------------------------------------------------
(* main() *)

NextDir(r) ==
    /\ depth' = [depth EXCEPT ![r] = @ + 1]
    /\ pc' = [pc EXCEPT ![r] = IF depth[r] = Len(Path(r)) THEN "file" ELSE "open"]

(* createDir: opens the directory to see whether it exists. *)
CreateOpen(r) ==
    /\ pc[r] = "open"
    /\ IF Path(r)[depth[r]] \in dirs
       THEN NextDir(r)
       ELSE pc' = [pc EXCEPT ![r] = "mkdir"] /\ UNCHANGED depth
    /\ UNCHANGED <<dirVars, clusters, coordinatorAddrSet, subVars, eventRecordMap, pubVars,
                   callVars>>

(* createDir: tries mkdir until it succeeds or another server's did. *)
CreateMkdir(r) ==
    /\ pc[r] = "mkdir"
    /\ Path(r)[depth[r]] \in dirs \/ HasParent(Path(r)[depth[r]])
    /\ dirs' = dirs \cup {Path(r)[depth[r]]}
    /\ NextDir(r)
    /\ UNCHANGED <<addrFiles, clusters, coordinatorAddrSet, subVars, eventRecordMap,
                   pubVars, callVars>>

(* The address file, in the directory of the server's status. *)
RecordAddr(r) ==
    /\ pc[r] = "file"
    /\ addrFiles' = addrFiles \cup {r}
    /\ pc' = [pc EXCEPT ![r] = "list"]
    /\ UNCHANGED <<dirs, depth, clusters, coordinatorAddrSet, subVars, eventRecordMap,
                   pubVars, callVars>>

(* updateCoordinatorAddr: the cluster directories there are now. *)
ListClusters(r) ==
    /\ pc[r] = "list"
    /\ clusters' = [clusters EXCEPT ![r] = {g \in Groups : <<"cluster", g>> \in dirs}]
    /\ pc' = [pc EXCEPT ![r] = "load"]
    /\ UNCHANGED <<dirVars, depth, coordinatorAddrSet, subVars, eventRecordMap, pubVars,
                   callVars>>

LoadCoordinator(r) ==
    /\ pc[r] = "load"
    /\ \E g \in clusters[r] :
         /\ clusters' = [clusters EXCEPT ![r] = @ \ {g}]
         /\ coordinatorAddrSet' = [coordinatorAddrSet EXCEPT ![r] = @ \cup CoordinatorDir(g)]
    /\ UNCHANGED <<dirVars, pc, depth, subVars, eventRecordMap, pubVars, callVars>>

(* After sleep(1) the service listens; nothing is loaded again. *)
RunServer(r) ==
    /\ pc[r] = "load"
    /\ clusters[r] = {}
    /\ pc' = [pc EXCEPT ![r] = "serve"]
    /\ UNCHANGED <<dirVars, depth, clusters, coordinatorAddrSet, subVars, eventRecordMap,
                   pubVars, callVars>>

MainStep(r) ==
    CreateOpen(r) \/ CreateMkdir(r) \/ RecordAddr(r) \/ ListClusters(r)
    \/ LoadCoordinator(r) \/ RunServer(r)

-----------------------------------------------------------------------------
(* Subscribe, after pubsubSubscribe, and RecordSub *)

NoteReady(call) ==
    ready' = IF \A r \in Ranks : Listening(r) THEN ready \cup {call} ELSE ready

SubCall(s) ==
    /\ spc[s] = "new"
    /\ \E r \in Ranks :
         /\ Listening(r)
         /\ sat' = [sat EXCEPT ![s] = r]
         /\ subNum' = [subNum EXCEPT ![r][SubMsg[s].event] = @ + 1]
    /\ spc' = [spc EXCEPT ![s] = "count"]
    /\ NoteReady(s)
    /\ UNCHANGED <<dirVars, mainVars, coordinatorClients, snum, recorded, eventRecordMap,
                   pubVars, sentTo, knownSubs>>

(* The coordinator is looked up once and kept.  The number is read only    *)
(* when the string the client sent is a key of subtoClient, which it is    *)
(* not when it carries a count.                                            *)
SubCount(s) ==
    /\ spc[s] = "count"
    /\ LET r == sat[s]
           found == CoordinatorDir(Group(r))
       IN /\ coordinatorClients' =
               IF coordinatorClients[r] = None /\ found # {}
               THEN [coordinatorClients EXCEPT ![r] = CHOOSE c \in found : TRUE]
               ELSE coordinatorClients
          /\ snum' = [snum EXCEPT ![s] = subNum[r][SubMsg[s].event]]
          /\ spc' = [spc EXCEPT ![s] =
                       IF coordinatorClients'[r] = None \/ SubMsg[s].counted
                       THEN "done" ELSE "record"]
    /\ UNCHANGED <<dirVars, mainVars, subNum, sat, recorded, eventRecordMap, pubVars,
                   callVars>>

(* A RecordSub that fails is only logged. *)
SubRecord(s) ==
    /\ spc[s] = "record"
    /\ LET c == coordinatorClients[sat[s]]
       IN IF Listening(c)
          THEN /\ eventRecordMap' = [eventRecordMap EXCEPT ![c] =
                    updateStatusMap(@, SubMsg[s].event, sat[s], snum[s])]
               /\ recorded' = recorded \cup {s}
          ELSE UNCHANGED <<eventRecordMap, recorded>>
    /\ spc' = [spc EXCEPT ![s] = "done"]
    /\ UNCHANGED <<dirVars, mainVars, coordinatorClients, subNum, sat, snum, pubVars,
                   callVars>>

SubStep(s) == SubCount(s) \/ SubRecord(s)

-----------------------------------------------------------------------------
(* Publish *)

MutClientOnly(ms, r, p, source) ==
    IF source = "CLIENT" THEN [ms EXCEPT ![r][p] = [at |-> "load", todo |-> {}]] ELSE ms

(* A client's publication is passed on in the group, and by a coordinator  *)
(* one from another group too, when it has sub info of the event.          *)
SpawnServer(ms, r, p, source) ==
    IF \/ source = "CLIENT"
       \/ Status(r) = "coordinator" /\ source = "SERVERBTGROUP" /\ HasRecord(r, PubMsg[p])
    THEN [ms EXCEPT ![r][p] = [at |-> "load", todo |-> {}]]
    ELSE ms

MutBounce(mg, r, p, source) ==
    IF Status(r) = "coordinator"
    THEN [mg EXCEPT ![r][p] = [at |-> "send", todo |-> coordinatorAddrSet[r] \ {r}]]
    ELSE mg

(* A coordinator passes on to the others what comes from its own group.    *)
SpawnGroup(mg, r, p, source) ==
    IF Status(r) = "coordinator" /\ source \in {"CLIENT", "SERVERINGROUP"}
    THEN [mg EXCEPT ![r][p] = [at |-> "send", todo |-> coordinatorAddrSet[r] \ {r}]]
    ELSE mg

(* The handler of server r; ms and mg are the threads as the caller left   *)
(* them.                                                                   *)
Publish(r, p, source, ms, mg) ==
    /\ received' = [received EXCEPT ![r][p] = @ + 1]
    /\ multiServer' = SpawnServer(ms, r, p, source)
    /\ multiGroup' = SpawnGroup(mg, r, p, source)

PubCall(p) ==
    /\ sentTo[p] = None
    /\ \E r \in Ranks :
         /\ Listening(r)
         /\ sentTo' = [sentTo EXCEPT ![p] = r]
         /\ Publish(r, p, "CLIENT", multiServer, multiGroup)
    /\ NoteReady(p)
    /\ knownSubs' = [knownSubs EXCEPT ![p] = recorded]
    /\ UNCHANGED <<dirVars, mainVars, subVars, eventRecordMap>>

MutAwaitWorkers(r, p) ==
    /\ multiServer[r][p].at = "load"
    /\ Cardinality(WorkerDir(Group(r)) \ {r}) = gm_requiredGroupSize - 1
    /\ multiServer' = [multiServer EXCEPT ![r][p] =
                         [at |-> "send", todo |-> WorkerDir(Group(r)) \ {r}]]
    /\ UNCHANGED <<dirVars, mainVars, subVars, eventRecordMap, multiGroup, received, callVars>>

(* publishMultiServer: the worker directory of the server's cluster. *)
ServerLoad(r, p) ==
    /\ multiServer[r][p].at = "load"
    /\ multiServer' = [multiServer EXCEPT ![r][p] =
                         [at |-> "send", todo |-> WorkerDir(Group(r)) \ {r}]]
    /\ UNCHANGED <<dirVars, mainVars, subVars, eventRecordMap, multiGroup, received, callVars>>

MutStopEarly(r, p) ==
    /\ multiServer[r][p].at = "send"
    /\ \E t \in multiServer[r][p].todo :
         /\ Listening(t)
         /\ Publish(t, p, "SERVERINGROUP",
                    [multiServer EXCEPT ![r][p].todo = {}], multiGroup)
    /\ UNCHANGED <<dirVars, mainVars, subVars, eventRecordMap, callVars>>

(* One call after the other; the first that fails ends the broadcast. *)
ServerSend(r, p) ==
    /\ multiServer[r][p].at = "send"
    /\ \E t \in multiServer[r][p].todo :
         \/ /\ Listening(t)
            /\ Publish(t, p, "SERVERINGROUP",
                       [multiServer EXCEPT ![r][p].todo = @ \ {t}], multiGroup)
         \/ /\ ~ Listening(t)
            /\ multiServer' = [multiServer EXCEPT ![r][p].todo = {}]
            /\ UNCHANGED <<multiGroup, received>>
    /\ UNCHANGED <<dirVars, mainVars, subVars, eventRecordMap, callVars>>

(* publishMultiGroup goes on after a failure. *)
GroupSend(r, p) ==
    /\ \E t \in multiGroup[r][p].todo :
         \/ /\ Listening(t)
            /\ Publish(t, p, "SERVERBTGROUP", multiServer,
                       [multiGroup EXCEPT ![r][p].todo = @ \ {t}])
         \/ /\ ~ Listening(t)
            /\ multiGroup' = [multiGroup EXCEPT ![r][p].todo = @ \ {t}]
            /\ UNCHANGED <<multiServer, received>>
    /\ UNCHANGED <<dirVars, mainVars, subVars, eventRecordMap, callVars>>

ThreadStep(r, p) == ServerLoad(r, p) \/ ServerSend(r, p) \/ GroupSend(r, p)

-----------------------------------------------------------------------------
(* Nothing that belongs to publication p is under way. *)
Settled(p) ==
    sentTo[p] # None /\ \A r \in Ranks : Over(multiServer[r][p]) /\ Over(multiGroup[r][p])

(* Servers wait for calls. *)
Wait ==
    /\ \A r \in Ranks : Listening(r)
    /\ \A s \in Subs : spc[s] = "done"
    /\ \A p \in Pubs : Settled(p)
    /\ UNCHANGED vars

Next ==
    \/ \E r \in Ranks : MainStep(r)
    \/ \E s \in Subs : SubCall(s) \/ SubStep(s)
    \/ \E p \in Pubs : PubCall(p)
    \/ \E r \in Ranks, p \in Pubs : ThreadStep(r, p)
    \/ Wait

Spec == Init /\ [][Next]_vars

(* The processes and their threads run; clients need not call. *)
Fairness ==
    /\ \A r \in Ranks : WF_vars(MainStep(r))
    /\ \A s \in Subs : WF_vars(SubStep(s))
    /\ \A r \in Ranks, p \in Pubs :
         WF_vars(ServerLoad(r, p) \/ ServerSend(r, p)) /\ WF_vars(GroupSend(r, p))

FairSpec == Spec /\ Fairness

-----------------------------------------------------------------------------
(* The source tag keeps broadcasts from echoing: whichever server a client *)
(* calls, and however the threads of the servers interleave, no server     *)
(* handles one publication twice, so no count is incremented twice for it. *)
HandledOnce == \A r \in Ranks, p \in Pubs : received[r][p] <= 1

(* publishMultiServer: a publication sent when every server listened has   *)
(* reached every worker of the group it was sent to, once its threads are  *)
(* done.                                                                   *)
WorkersReached ==
    \A p \in Pubs :
        (Settled(p) /\ p \in ready) =>
            \A r \in WorkerDir(Group(sentTo[p])) : received[r][p] = 1

(* The sub info RecordSub leaves at the coordinators routes publications:  *)
(* one that a client sends to a coordinator reaches the servers of the     *)
(* subscriptions recorded before, in each group whose coordinator it knows *)
(* (one loaded at startup).                                                *)
SubscribersReached ==
    \A p \in Pubs :
        (Settled(p) /\ p \in ready /\ Status(sentTo[p]) = "coordinator") =>
            \A s \in knownSubs[p] :
                (/\ SubMsg[s].event = PubMsg[p]
                 /\ Status(sat[s]) # "freepool"
                 /\ CoordinatorDir(Group(sat[s])) \subseteq coordinatorAddrSet[sentTo[p]])
                => received[sat[s]][p] = 1

(* createDir retries for ever: still every server gets to listen. *)
StartupEnds == \A r \in Ranks : <>(pc[r] = "serve")

(* Every broadcast ends: the threads do not call each other in a circle.   *)
BroadcastEnds == \A p \in Pubs : sentTo[p] # None ~> Settled(p)
=============================================================================
