--------------------------- MODULE Redistribution ---------------------------
(***************************************************************************)
(* Overload handling: periodChecking, which runs checkOverload once on     *)
(* each coordinator beside the services, servers taken from the free pool, *)
(* and the RedistributeSub handler that moves subscriptions to them while  *)
(* clients go on subscribing (workflowserver.cc, coordinator.cpp,          *)
(* groupManager.cpp).                                                      *)
(*                                                                         *)
(* Servers and clients are numbers, in the order of their addresses and    *)
(* ids; a group is named by its coordinator.  A client subscribes once, to *)
(* one event.                                                              *)
(***************************************************************************)
EXTENDS RedistributionPlan

CONSTANTS
    Servers, Coordinators, FreeServers, \* FreeServers announced themselves in FreePool
    Home,      \* server -> the group its rank gives it
    Events,
    Clients,
    EventOf,   \* client -> its event
    Settled,   \* server -> clients that subscribed there long ago
    None

End == 0   \* end() of subtoClient[event]

ASSUME ServerAssumption ==
    /\ Servers \subseteq Nat /\ Coordinators \subseteq Servers \ FreeServers
    /\ FreeServers \subseteq Servers
    /\ Home \in [Servers -> Coordinators] /\ \A c \in Coordinators : Home[c] = c
    /\ IsFiniteSet(Servers) /\ None \notin Servers

ASSUME ClientAssumption ==
    /\ IsFiniteSet(Clients) /\ Clients \subseteq Nat \ {End}
    /\ EventOf \in [Clients -> Events]
    /\ Settled \in [Servers -> SUBSET Clients]
    /\ \A s, t \in Servers : s # t => Settled[s] \cap Settled[t] = {}
    /\ \A s \in FreeServers : Settled[s] = {}

VARIABLES
    subtoClient,        \* server -> event -> clients
    eventRecordMap,     \* coordinator -> event -> (server -> recorded number)
    coordinatorClients, \* server -> coordinators it knows, the first is used
    GM_CLUSTERDIR,      \* server -> group
    listening,          \* servers whose service has started
    FreePool,           \* servers with a file in the free pool
    workerDir,          \* group -> servers attached to it by a check
    call,               \* Subscribe handlers, by caller
    check,              \* coordinator -> its checkOverload
    move,               \* coordinator -> the RedistributeSub it waits for
    lost,               \* history: <<client, coordinator, server>>: moved copies that were refused
    warned,             \* history: <<coordinator, server>> whose UpdateCluster failed
    overlap,            \* history: servers listed by two checks at the same time
    sources             \* history: servers that RedistributeSub was called at

serverVars == <<subtoClient, coordinatorClients, GM_CLUSTERDIR>>
poolVars == <<FreePool, workerDir, overlap>>
vars == <<serverVars, eventRecordMap, listening, poolVars, call, check, move, lost, warned, sources>>

-----------------------------------------------------------------------------
(* Subscribe is called by clients and by the RedistributeSub handlers. *)
ByClient(c) == <<"client", c>>
ByMove(k) == <<"move", k>>
NewClients == Clients \ UNION {Settled[s] : s \in Servers}
Callers == {ByClient(c) : c \in NewClients} \cup {ByMove(k) : k \in Coordinators}

Call(pc, c, s, n) == [pc |-> pc, client |-> c, at |-> s, num |-> n]
NoCall == Call("none", None, None, 0)

First(S) == IF S = {} THEN End ELSE Min(S)
Successor(S, c) == First({d \in S : d > c})

MutLastWins(rec, s, n) == [a \in DOMAIN rec \cup {s} |-> IF a = s THEN n ELSE rec[a]]

(* A record only grows; a server that is not in it gets in, also with 0. *)
updateStatusMap(rec, s, n) ==
    [a \in DOMAIN rec \cup {s} |->
        IF a # s THEN rec[a] ELSE IF s \in DOMAIN rec THEN Max({rec[s], n}) ELSE n]

(* The numbers RecordSub left at the coordinator of the settled clients. *)
SettledRecord(k, e) ==
    [s \in {t \in Servers : Home[t] = k /\ \E c \in Settled[t] : EventOf[c] = e} |->
        Cardinality({c \in Settled[s] : EventOf[c] = e})]

NoMove == [src |-> None, dst |-> None, diff |-> 0, count |-> 0, itera |-> End,
           spsw |-> <<>>, size |-> 0]
NoCheck == [pc |-> "sleep", todo |-> {}, event |-> None, list |-> {}, taken |-> {},
            plans |-> <<>>, newSubTime |-> 0, serverNumber |-> 1]

Init ==
    /\ subtoClient = [s \in Servers |-> [e \in Events |-> {c \in Settled[s] : EventOf[c] = e}]]
    /\ eventRecordMap = [k \in Coordinators |-> [e \in Events |-> SettledRecord(k, e)]]
    /\ coordinatorClients = [s \in Servers |-> IF Settled[s] = {} THEN <<>> ELSE <<Home[s]>>]
    /\ GM_CLUSTERDIR = Home
    /\ listening = Servers \ FreeServers
    /\ FreePool = FreeServers
    /\ workerDir = [k \in Coordinators |-> {}]
    /\ call = [k \in Callers |-> NoCall]
    /\ check = [k \in Coordinators |-> NoCheck]
    /\ move = [k \in Coordinators |-> NoMove]
    /\ lost = {} /\ warned = {} /\ overlap = {} /\ sources = {}

(* A server of the pool gets through sleep(1) and RunServer. *)
Listen(s) ==
    /\ s \in FreeServers \ listening
    /\ listening' = listening \cup {s}
    /\ UNCHANGED <<serverVars, eventRecordMap, poolVars, call, check, move, lost, warned, sources>>

-----------------------------------------------------------------------------
(* The Subscribe handler: pubsubSubscribe, the number, RecordSub.  The     *)
(* first step is the RPC of whoever calls.                                 *)

Insert(k, c, s) ==
    /\ subtoClient' = [subtoClient EXCEPT ![s][EventOf[c]] = @ \cup {c}]
    /\ call' = [call EXCEPT ![k] = Call("count", c, s, 0)]

ClientSubscribe(c) ==
    /\ call[ByClient(c)].pc = "none"
    /\ \E s \in listening : Insert(ByClient(c), c, s)
    /\ UNCHANGED <<eventRecordMap, coordinatorClients, GM_CLUSTERDIR, listening, poolVars,
                   check, move, lost, warned, sources>>

(* The coordinator of the server's directory is added when none is known. *)
SubCount(k) ==
    /\ call[k].pc = "count" /\ call[k].at \in listening
    /\ LET s == call[k].at
       IN /\ coordinatorClients' = [coordinatorClients EXCEPT ![s] =
                IF @ = <<>> THEN <<GM_CLUSTERDIR[s]>> ELSE @]
          /\ call' = [call EXCEPT ![k].pc = "record",
                        ![k].num = Cardinality(subtoClient[s][EventOf[call[k].client]])]
    /\ UNCHANGED <<subtoClient, GM_CLUSTERDIR, eventRecordMap, listening, poolVars, check, move,
                   lost, warned, sources>>

(* A RecordSub that is not answered is only logged. *)
SubRecord(k) ==
    /\ call[k].pc = "record" /\ call[k].at \in listening
    /\ LET to == coordinatorClients[call[k].at][1]
       IN IF to \in listening
          THEN eventRecordMap' = [eventRecordMap EXCEPT ![to][EventOf[call[k].client]] =
                 updateStatusMap(@, call[k].at, call[k].num)]
          ELSE UNCHANGED eventRecordMap
    /\ call' = [call EXCEPT ![k].pc = "done"]
    /\ UNCHANGED <<serverVars, listening, poolVars, check, move, lost, warned, sources>>

(* The server of the call went down. *)
CallBroken(k) ==
    /\ call[k].pc \in {"count", "record"} /\ call[k].at \notin listening
    /\ call' = [call EXCEPT ![k].pc = "done"]
    /\ UNCHANGED <<serverVars, eventRecordMap, listening, poolVars, check, move, lost, warned, sources>>

-----------------------------------------------------------------------------
(* checkOverload on coordinator k *)

At(k, pc) == check[k].pc = pc
Record(k) == eventRecordMap[k][check[k].event]

NextEvent(k, todo) ==
    IF todo = {} THEN [NoCheck EXCEPT !.pc = "done"]
    ELSE [NoCheck EXCEPT !.pc = "list", !.todo = todo, !.event = CHOOSE e \in todo : TRUE,
                         !.serverNumber = check[k].serverNumber]

(* The events whose servers have too many subscriptions on average. *)
Scan(k) ==
    /\ At(k, "sleep")
    /\ LET imBalanced == {e \in Events : DOMAIN eventRecordMap[k][e] # {}
                                           /\ Overloaded(eventRecordMap[k][e])}
       IN check' = [check EXCEPT ![k] = NextEvent(k, imBalanced)]
    /\ UNCHANGED <<serverVars, eventRecordMap, listening, poolVars, call, move, lost, warned, sources>>

(* serverNumber, which keeps the largest need of the events so far, and    *)
(* the first loop of getFreeNodeList: so many files of the pool, in        *)
(* whatever order the directory gives them.                                *)
getFreeNodeList(k) ==
    /\ At(k, "list")
    /\ LET serverNumber == Max({check[k].serverNumber, calculateNewServerNum(Record(k))})
       IN \E list \in kSubset(Min({serverNumber, Cardinality(FreePool)}), FreePool) :
            /\ check' = [check EXCEPT ![k].pc = "remove", ![k].list = list, ![k].taken = list,
                                   ![k].serverNumber = serverNumber]
            /\ overlap' = overlap \cup
                 {s \in list : \E j \in Coordinators \ {k} : At(j, "remove") /\ s \in check[j].list}
    /\ UNCHANGED <<serverVars, eventRecordMap, listening, FreePool, workerDir, call, move, lost,
                   warned, sources>>

MutKeepFiles(k) ==
    /\ At(k, "remove")
    /\ check' = [check EXCEPT ![k].pc = "update"]
    /\ UNCHANGED <<serverVars, eventRecordMap, listening, poolVars, call, move, lost, warned, sources>>

(* The files are deleted afterwards; one that is gone is only reported. *)
RemoveFiles(k) ==
    /\ At(k, "remove")
    /\ FreePool' = FreePool \ check[k].list
    /\ check' = [check EXCEPT ![k].pc = "update"]
    /\ UNCHANGED <<serverVars, eventRecordMap, listening, workerDir, overlap, call, move, lost,
                   warned, sources>>

MutSkipUpdate(k, s) ==
    /\ At(k, "update") /\ s \in check[k].list
    /\ check' = [check EXCEPT ![k].list = @ \ {s}]
    /\ eventRecordMap' = [eventRecordMap EXCEPT ![k][check[k].event] = updateStatusMap(@, s, 0)]
    /\ UNCHANGED <<subtoClient, GM_CLUSTERDIR, coordinatorClients, listening, poolVars, call,
                   move, lost, warned, sources>>

(* UpdateCluster tells a new server its group.  Whether it answered or     *)
(* not, it gets into the record.                                           *)
UpdateCluster(k, s) ==
    /\ At(k, "update") /\ s \in check[k].list
    /\ check' = [check EXCEPT ![k].list = @ \ {s}]
    /\ eventRecordMap' = [eventRecordMap EXCEPT ![k][check[k].event] = updateStatusMap(@, s, 0)]
    /\ IF s \in listening
       THEN /\ GM_CLUSTERDIR' = [GM_CLUSTERDIR EXCEPT ![s] = k]
            /\ coordinatorClients' = [coordinatorClients EXCEPT ![s] = Append(@, k)]
            /\ UNCHANGED warned
       ELSE /\ warned' = warned \cup {<<k, s>>}
            /\ UNCHANGED <<GM_CLUSTERDIR, coordinatorClients>>
    /\ UNCHANGED <<subtoClient, listening, poolVars, call, move, lost, sources>>

(* generatePlanForEvent.  A walk past the end of the list takes the        *)
(* process down, or ends on what it finds there: the plans made so far are *)
(* carried out, those made of what is no address reach no server.          *)
MakePlan(k) ==
    /\ At(k, "update") /\ check[k].list = {}
    /\ LET result == generatePlanForEvent(Record(k))
       IN \/ /\ check' = [check EXCEPT ![k].pc = "plan", ![k].plans = result.plans]
             /\ UNCHANGED listening
          \/ /\ result.overrun
             /\ check' = [check EXCEPT ![k].pc = "crashed"]
             /\ listening' = listening \ {k}
    /\ UNCHANGED <<serverVars, eventRecordMap, poolVars, call, move, lost, warned, sources>>

(* RedistributeByPlan: the next plan, or nodeAttach for the new servers    *)
(* and the next event.                                                     *)
RedistributeByPlan(k) ==
    /\ At(k, "plan") /\ check[k].plans # <<>>
    /\ LET plan == Head(check[k].plans)
           S == subtoClient[plan.srcAddr][check[k].event]
           reached == plan.srcAddr \in listening
       IN /\ move' = [move EXCEPT ![k] =
                [src |-> plan.srcAddr, dst |-> plan.destAddr, diff |-> plan.moveNumber,
                 count |-> 0, itera |-> First(S), spsw |-> <<>>, size |-> Cardinality(S)]]
          /\ check' = [check EXCEPT ![k].plans = Tail(@),
                         ![k].pc = IF reached /\ S # {} THEN "erase" ELSE "own"]
          /\ sources' = sources \cup {plan.srcAddr}
    /\ UNCHANGED <<serverVars, eventRecordMap, listening, poolVars, call, lost, warned>>

nodeAttach(k) ==
    /\ At(k, "plan") /\ check[k].plans = <<>>
    /\ workerDir' = [workerDir EXCEPT ![k] = @ \cup check[k].taken]
    /\ check' = [check EXCEPT ![k] = NextEvent(k, check[k].todo \ {check[k].event})]
    /\ UNCHANGED <<serverVars, eventRecordMap, listening, FreePool, overlap, call, move, lost,
                   warned, sources>>

-----------------------------------------------------------------------------
(* RedistributeSub, called by coordinator k *)

(* Another RedistributeSub at the same server has erased the client the    *)
(* iterator is at: nothing is said of what follows.                        *)
Dangling(k) ==
    move[k].itera \notin subtoClient[move[k].src][check[k].event] \cup {End}

UseDangling(k) ==
    /\ check[k].pc \in {"erase", "advance"} /\ Dangling(k)
    /\ check' = [check EXCEPT ![k].pc = "undefined"]
    /\ UNCHANGED <<serverVars, eventRecordMap, listening, poolVars, call, move, lost, warned, sources>>

MutNoErase(k) ==
    /\ At(k, "erase")
    /\ LET m == move[k]
           S == subtoClient[m.src][check[k].event]
       IN /\ move' = [move EXCEPT ![k].spsw = Append(@, m.itera), ![k].count = @ + 1,
                        ![k].itera = Successor(S, @)]
          /\ check' = [check EXCEPT ![k].pc = IF m.count + 1 = m.diff THEN "send" ELSE "advance"]
    /\ UNCHANGED <<serverVars, eventRecordMap, listening, poolVars, call, lost, warned, sources>>

MutOneMore(k) ==
    /\ At(k, "erase") /\ ~ Dangling(k)
    /\ LET m == move[k]
           S == subtoClient[m.src][check[k].event]
       IN /\ subtoClient' = [subtoClient EXCEPT ![m.src][check[k].event] = @ \ {m.itera}]
          /\ move' = [move EXCEPT ![k].spsw = Append(@, m.itera), ![k].count = @ + 1,
                        ![k].itera = Successor(S, @)]
          /\ check' = [check EXCEPT ![k].pc = IF m.count = m.diff THEN "send" ELSE "advance"]
    /\ UNCHANGED <<eventRecordMap, coordinatorClients, GM_CLUSTERDIR, listening, poolVars, call,
                   lost, warned, sources>>

(* The client is copied and erased, and the iterator moved on. *)
EraseSub(k) ==
    /\ At(k, "erase") /\ ~ Dangling(k)
    /\ LET m == move[k]
           S == subtoClient[m.src][check[k].event]
       IN /\ subtoClient' = [subtoClient EXCEPT ![m.src][check[k].event] = @ \ {m.itera}]
          /\ move' = [move EXCEPT ![k].spsw = Append(@, m.itera), ![k].count = @ + 1,
                        ![k].itera = Successor(S, @)]
          /\ check' = [check EXCEPT ![k].pc = IF m.count + 1 = m.diff THEN "send" ELSE "advance"]
    /\ UNCHANGED <<eventRecordMap, coordinatorClients, GM_CLUSTERDIR, listening, poolVars, call,
                   lost, warned, sources>>

(* The loop's own ++itera moves it once more, over one client.  At end()   *)
(* it lands on a client that is left, or turns for ever in the empty tree. *)
Advance(k) ==
    /\ At(k, "advance") /\ ~ Dangling(k)
    /\ LET m == move[k]
           S == subtoClient[m.src][check[k].event]
       IN \/ /\ m.itera # End
             /\ move' = [move EXCEPT ![k].itera = Successor(S, @)]
             /\ check' = [check EXCEPT ![k].pc = IF Successor(S, m.itera) = End THEN "send" ELSE "erase"]
          \/ /\ m.itera = End
             /\ \E c \in S : move' = [move EXCEPT ![k].itera = c]
             /\ check' = [check EXCEPT ![k].pc = "erase"]
          \/ /\ m.itera = End /\ S = {}
             /\ check' = [check EXCEPT ![k].pc = "hung"]
             /\ UNCHANGED move
    /\ UNCHANGED <<serverVars, eventRecordMap, listening, poolVars, call, lost, warned, sources>>

MutRetry(k) ==
    /\ At(k, "send") /\ move[k].spsw # <<>>
    /\ call[ByMove(k)].pc \in {"none", "done"}
    /\ move[k].dst \in listening
    /\ Insert(ByMove(k), Head(move[k].spsw), move[k].dst)
    /\ move' = [move EXCEPT ![k].spsw = Tail(@)]
    /\ UNCHANGED <<eventRecordMap, coordinatorClients, GM_CLUSTERDIR, listening, poolVars, check,
                   lost, warned, sources>>

(* The copies are subscribed at the destination, one call after the other; *)
(* a call that fails is only reported.                                     *)
SendSub(k) ==
    /\ At(k, "send") /\ move[k].spsw # <<>>
    /\ call[ByMove(k)].pc \in {"none", "done"}
    /\ LET c == Head(move[k].spsw)
       IN IF move[k].dst \in listening
          THEN Insert(ByMove(k), c, move[k].dst) /\ UNCHANGED lost
          ELSE lost' = lost \cup {<<c, k, move[k].dst>>} /\ UNCHANGED <<subtoClient, call>>
    /\ move' = [move EXCEPT ![k].spsw = Tail(@)]
    /\ UNCHANGED <<eventRecordMap, coordinatorClients, GM_CLUSTERDIR, listening, poolVars, check,
                   warned, sources>>

Moved(k) ==
    /\ At(k, "send") /\ move[k].spsw = <<>>
    /\ call[ByMove(k)].pc \in {"none", "done"}
    /\ check' = [check EXCEPT ![k].pc = "own"]
    /\ UNCHANGED <<serverVars, eventRecordMap, listening, poolVars, call, move, lost, warned, sources>>

(* Back in RedistributeByPlan: the coordinator's own number, written as    *)
(* that of the source.                                                     *)
ReadOwn(k) ==
    /\ At(k, "own")
    /\ check' = [check EXCEPT ![k].pc = "write",
                   ![k].newSubTime = Cardinality(subtoClient[k][check[k].event])]
    /\ UNCHANGED <<serverVars, eventRecordMap, listening, poolVars, call, move, lost, warned, sources>>

WriteOwn(k) ==
    /\ At(k, "write")
    /\ eventRecordMap' = [eventRecordMap EXCEPT ![k][check[k].event] =
            [s \in DOMAIN @ \cup {move[k].src} |->
                IF s = move[k].src THEN check[k].newSubTime ELSE @[s]]]
    /\ check' = [check EXCEPT ![k].pc = "plan"]
    /\ UNCHANGED <<serverVars, listening, poolVars, call, move, lost, warned, sources>>

-----------------------------------------------------------------------------
MoveStep(k) == EraseSub(k) \/ Advance(k) \/ UseDangling(k) \/ SendSub(k) \/ Moved(k)

CheckStep(k) ==
    \/ Scan(k) \/ getFreeNodeList(k) \/ RemoveFiles(k)
    \/ \E s \in Servers : UpdateCluster(k, s)
    \/ MakePlan(k) \/ RedistributeByPlan(k) \/ nodeAttach(k) \/ ReadOwn(k) \/ WriteOwn(k)

HandlerStep(k) == SubCount(k) \/ SubRecord(k) \/ CallBroken(k)

Ended(k) == check[k].pc \in {"done", "crashed", "hung", "undefined"}

(* The servers wait for calls. *)
Wait ==
    /\ \A k \in Coordinators : Ended(k)
    /\ \A k \in Callers : call[k].pc \in {"none", "done"}
    /\ UNCHANGED vars

Next ==
    \/ \E s \in Servers : Listen(s)
    \/ \E c \in NewClients : ClientSubscribe(c)
    \/ \E k \in Callers : HandlerStep(k)
    \/ \E k \in Coordinators : CheckStep(k) \/ MoveStep(k)
    \/ Wait

Spec == Init /\ [][Next]_vars

(* Threads run; clients need not call, a server need not come up. *)
Fairness ==
    /\ \A k \in Callers : WF_vars(HandlerStep(k))
    /\ \A k \in Coordinators : WF_vars(CheckStep(k) \/ MoveStep(k))

FairSpec == Spec /\ Fairness

-----------------------------------------------------------------------------
(* Where the subscription of client c is: on servers, or in the copies     *)
(* RedistributeSub has still to send.                                      *)
OnServers(c) == {s \in Servers : c \in subtoClient[s][EventOf[c]]}
InTransit(c) == UNION {{<<k, i>> : i \in {j \in DOMAIN move[k].spsw : move[k].spsw[j] = c}} : k \in Coordinators}
Refused(c) == {l \in lost : l[1] = c}

Defined == \A k \in Coordinators : check[k].pc # "undefined"

(* RedistributeSub deletes first and subscribes then, in several calls:    *)
(* a subscription is never on two servers, and it is on none only while it *)
(* waits to be sent, or because the destination refused it.                *)
OnePlace ==
    Defined => \A c \in Clients :
        (c \in NewClients => call[ByClient(c)].pc # "none") =>
            Cardinality(OnServers(c)) + Cardinality(InTransit(c)) + Cardinality(Refused(c)) = 1

(* A subscription is lost only on the way to a server whose UpdateCluster  *)
(* had failed before, in the same check: nothing is lost of a check whose  *)
(* new servers all answered.                                               *)
LossForeseen ==
    Defined => \A l \in lost : <<l[2], l[3]>> \in warned

(* The double increment skips every other client, so the loop reaches half *)
(* of them, rounded up.  A plan that asks for no more than that moves      *)
(* exactly what it asks, however many clients subscribe meanwhile.         *)
MovesDiff ==
    Defined => \A k \in Coordinators :
        LET m == move[k]
        IN (m.diff >= 1 /\ 2 * m.diff <= m.size + 1) =>
             /\ check[k].pc # "hung"
             /\ (check[k].pc = "send" /\ m.count > 0) => m.count = m.diff

(* A server ends up in two groups only when both coordinators read the     *)
(* pool before either had deleted the file.                                *)
ClaimedOnce ==
    \A s \in Servers, j, k \in Coordinators :
        (j # k /\ s \in check[j].taken \cup workerDir[j] /\ s \in check[k].taken \cup workerDir[k])
            => s \in overlap

Quiet == Defined /\ (\A k \in Coordinators : Ended(k)) /\ (\A k \in Callers : call[k].pc \in {"none", "done"})

(* When everything is done, a coordinator has the true number of every     *)
(* server that reports to it and was not itself relieved, new servers that *)
(* clients found during the move included, as long as both are up.         *)
RecordCurrent ==
    Quiet =>
        \A s \in listening \ sources, e \in Events :
            (/\ coordinatorClients[s] # <<>> /\ subtoClient[s][e] # {}
             /\ coordinatorClients[s][1] \in listening) =>
                LET rec == eventRecordMap[coordinatorClients[s][1]][e]
                IN s \in DOMAIN rec /\ rec[s] = Cardinality(subtoClient[s][e])

(* The check waits for calls into servers that call it back: it ends all   *)
(* the same, or is caught in the walk over the map or the list.            *)
CheckEnds == \A k \in Coordinators : <>Ended(k)
=============================================================================
