------------------------ MODULE RedistributionProofs ------------------------
(***************************************************************************)
(* Proofs about Redistribution: for any servers, clients and plans, a      *)
(* subscription is in one place while RedistributeSub moves it; a server   *)
(* of the pool is claimed by one group unless two checks listed it at the  *)
(* same time; a subscription is lost only where UpdateCluster had failed;  *)
(* coordinators have the true numbers once all calls have ended; and a     *)
(* move takes the planned number, unless another one walks over the same   *)
(* clients.                                                                *)
(***************************************************************************)
EXTENDS Redistribution, FiniteSetTheorems, WellFoundedInduction, TLAPS

(* The fields of the records. *)
CheckFields == {"pc", "todo", "event", "list", "taken", "plans", "newSubTime", "serverNumber"}
MoveFields == {"src", "dst", "diff", "count", "itera", "spsw", "size"}
CallFields == {"pc", "client", "at", "num"}

Shapes ==
    /\ DOMAIN check = Coordinators /\ \A k \in Coordinators : DOMAIN check[k] = CheckFields
    /\ DOMAIN move = Coordinators /\ \A k \in Coordinators : DOMAIN move[k] = MoveFields
    /\ DOMAIN call = Callers /\ \A k \in Callers : DOMAIN call[k] = CallFields

(* A server that a check took, now or before, has lost its file, or is on  *)
(* the list of the files that are being removed.                           *)
Claims ==
    /\ DOMAIN workerDir = Coordinators
    /\ \A k \in Coordinators : \A s \in check[k].taken \cup workerDir[k] :
          s \notin FreePool \/ (At(k, "remove") /\ s \in check[k].list)

Moving(k) == check[k].pc \in {"erase", "advance", "send", "hung", "undefined"}

(* Subscriptions are filed under their events. *)
Stores ==
    /\ listening \subseteq Servers
    /\ subtoClient \in [Servers -> [Events -> SUBSET Clients]]
    /\ \A s \in Servers, e \in Events : \A c \in subtoClient[s][e] : EventOf[c] = e

(* A check handles an event, and copies are left only during a move. *)
Carries(k) ==
    /\ check[k].todo \subseteq Events
    /\ check[k].pc \notin {"sleep", "done"} => check[k].event \in Events
    /\ move[k].spsw \in Seq(Clients)
    /\ ~ Moving(k) => move[k].spsw = <<>>
    /\ check[k].pc \in {"erase", "advance"} => move[k].src \in Servers
    /\ check[k].pc = "erase" => move[k].itera # End
Carry == \A k \in Coordinators : Carries(k)

(* Where the subscription of a client is: on a server, at a position of    *)
(* the copies of a move, or among the refused ones.                        *)
On(c, s) == s \in Servers /\ c \in subtoClient[s][EventOf[c]]
Copy(c, k, i) == k \in Coordinators /\ i \in 1 .. Len(move[k].spsw) /\ move[k].spsw[i] = c
Lost(c, l) == l \in lost /\ l[1] = c

(* A client that has not called yet. *)
Uncalled(c) == c \in NewClients /\ call[ByClient(c)].pc = "none"

(* The subscription of a client is in at most one place, and in one once   *)
(* the client has called.                                                  *)
OneOn(c) == \A s, t \in Servers : On(c, s) /\ On(c, t) => s = t
OneCopy(c) ==
    \A j, k \in Coordinators, h, i \in Nat : Copy(c, j, h) /\ Copy(c, k, i) => j = k /\ h = i
OneLost(c) == \A l, m \in lost : Lost(c, l) /\ Lost(c, m) => l = m
Apart(c) ==
    /\ \A s \in Servers, k \in Coordinators, i \in Nat : ~ (On(c, s) /\ Copy(c, k, i))
    /\ \A s \in Servers, l \in lost : ~ (On(c, s) /\ Lost(c, l))
    /\ \A l \in lost, k \in Coordinators, i \in Nat : ~ (Lost(c, l) /\ Copy(c, k, i))
Nowhere(c) ==
    /\ \A s \in Servers : ~ On(c, s)
    /\ \A k \in Coordinators, i \in Nat : ~ Copy(c, k, i)
    /\ \A l \in lost : ~ Lost(c, l)
PlacedOnce(c) == OneOn(c) /\ OneCopy(c) /\ OneLost(c) /\ Apart(c) /\ (Uncalled(c) <=> Nowhere(c))
Placed == \A c \in Clients : PlacedOnce(c)

-----------------------------------------------------------------------------
(* The initial records and the ones NextEvent makes. *)
LEMMA NewRecords ==
    /\ DOMAIN NoCheck = CheckFields /\ NoCheck.pc = "sleep" /\ NoCheck.todo = {}
    /\ NoCheck.taken = {}
    /\ DOMAIN NoMove = MoveFields /\ NoMove.spsw = <<>>
    /\ DOMAIN NoCall = CallFields /\ NoCall.pc = "none"
    /\ \A l, c, s, n : DOMAIN Call(l, c, s, n) = CallFields /\ Call(l, c, s, n).pc = l
BY DEF NoCheck, NoMove, NoCall, Call, CheckFields, MoveFields, CallFields

LEMMA NextEventFields ==
    ASSUME NEW k, NEW todo, todo \subseteq Events
    PROVE  LET r == NextEvent(k, todo)
           IN /\ DOMAIN r = CheckFields /\ r.pc \in {"done", "list"} /\ r.taken = {}
              /\ r.todo \subseteq Events
              /\ r.pc = "list" => r.event \in Events
<1>1. CASE todo = {}
  BY <1>1, NewRecords DEF NextEvent, CheckFields
<1>2. CASE todo # {}
  <2>1. (CHOOSE e \in todo : TRUE) \in todo
    BY <1>2
  <2> QED BY <1>2, <2>1, NewRecords DEF NextEvent, CheckFields
<1> QED BY <1>1, <1>2

(* The checks of the coordinators other than k stay as they are. *)
Others(k) == DOMAIN check' = Coordinators /\ \A j \in Coordinators \ {k} : check'[j] = check[j]

(* What a step that only sets the program counter of a check leaves alone. *)
LEMMA SetPc ==
    ASSUME Shapes, NEW k \in Coordinators, NEW l, check' = [check EXCEPT ![k].pc = l]
    PROVE  /\ Others(k) /\ DOMAIN check'[k] = CheckFields /\ check'[k].pc = l
           /\ check'[k].todo = check[k].todo /\ check'[k].event = check[k].event
           /\ check'[k].list = check[k].list /\ check'[k].taken = check[k].taken
BY DEF Shapes, Others, CheckFields


-----------------------------------------------------------------------------
(* The records keep their fields. *)
LEMMA ShapesKept == Shapes /\ [Next]_vars => Shapes'
<1> SUFFICES ASSUME Shapes, [Next]_vars
             PROVE  Shapes'
  OBVIOUS
<1> DEFINE CheckShape == DOMAIN check = Coordinators /\ \A k \in Coordinators : DOMAIN check[k] = CheckFields
           MoveShape == DOMAIN move = Coordinators /\ \A k \in Coordinators : DOMAIN move[k] = MoveFields
           CallShape == DOMAIN call = Callers /\ \A k \in Callers : DOMAIN call[k] = CallFields
<1>0. CheckShape /\ MoveShape /\ CallShape
  BY DEF Shapes
<1> SUFFICES CheckShape' /\ MoveShape' /\ CallShape'
  BY DEF Shapes
<1>1. CASE UNCHANGED vars
  BY <1>0, <1>1 DEF vars, poolVars, serverVars
<1>2. CASE Wait
  BY <1>0, <1>2 DEF Wait, vars, poolVars, serverVars
<1>3. ASSUME NEW s \in Servers, Listen(s)
      PROVE  CheckShape' /\ MoveShape' /\ CallShape'
  BY <1>0, <1>3 DEF Listen
<1>4. ASSUME NEW c \in NewClients, ClientSubscribe(c)
      PROVE  CheckShape' /\ MoveShape' /\ CallShape'
  BY <1>0, <1>4, NewRecords DEF ClientSubscribe, Insert
<1>5. ASSUME NEW k \in Callers, HandlerStep(k)
      PROVE  CheckShape' /\ MoveShape' /\ CallShape'
  <2>1. check' = check /\ move' = move
    BY <1>5 DEF HandlerStep, SubCount, SubRecord, CallBroken
  <2>2. CallShape'
    <3>1. CASE SubCount(k)
      BY <1>0, <3>1 DEF SubCount
    <3>2. CASE SubRecord(k)
      BY <1>0, <3>2 DEF SubRecord
    <3>3. CASE CallBroken(k)
      BY <1>0, <3>3 DEF CallBroken
    <3> QED BY <1>5, <3>1, <3>2, <3>3 DEF HandlerStep
  <2> QED BY <1>0, <2>1, <2>2
<1>6. ASSUME NEW k \in Coordinators, CheckStep(k)
      PROVE  CheckShape' /\ MoveShape' /\ CallShape'
  <2>1. CASE Scan(k)
    <3> DEFINE T == {e \in Events : DOMAIN eventRecordMap[k][e] # {}
                                      /\ Overloaded(eventRecordMap[k][e])}
    <3>1. DOMAIN NextEvent(k, T) = CheckFields
      BY NextEventFields
    <3> HIDE DEF T
    <3>2. check' = [check EXCEPT ![k] = NextEvent(k, T)] /\ move' = move /\ call' = call
      BY <2>1 DEF Scan, T
    <3> QED BY <1>0, <3>1, <3>2
  <2>2. CASE getFreeNodeList(k)
    BY <1>0, <2>2 DEF getFreeNodeList
  <2>3. CASE RemoveFiles(k)
    BY <1>0, <2>3 DEF RemoveFiles
  <2>4. ASSUME NEW s \in Servers, UpdateCluster(k, s)
        PROVE  CheckShape' /\ MoveShape' /\ CallShape'
    BY <1>0, <2>4 DEF UpdateCluster
  <2>5. CASE MakePlan(k)
    BY <1>0, <2>5 DEF MakePlan
  <2>6. CASE RedistributeByPlan(k)
    BY <1>0, <2>6 DEF RedistributeByPlan, MoveFields
  <2>7. CASE nodeAttach(k)
    <3>1. DOMAIN NextEvent(k, check[k].todo \ {check[k].event}) = CheckFields
      BY NewRecords DEF NextEvent, CheckFields
    <3> QED BY <1>0, <2>7, <3>1 DEF nodeAttach
  <2>8. CASE ReadOwn(k)
    BY <1>0, <2>8 DEF ReadOwn
  <2>9. CASE WriteOwn(k)
    BY <1>0, <2>9 DEF WriteOwn
  <2> QED BY <1>6, <2>1, <2>2, <2>3, <2>4, <2>5, <2>6, <2>7, <2>8, <2>9 DEF CheckStep
<1>7. ASSUME NEW k \in Coordinators, MoveStep(k)
      PROVE  CheckShape' /\ MoveShape' /\ CallShape'
  <2>1. CASE EraseSub(k)
    BY <1>0, <2>1 DEF EraseSub
  <2>2. CASE Advance(k)
    BY <1>0, <2>2 DEF Advance
  <2>3. CASE UseDangling(k)
    BY <1>0, <2>3 DEF UseDangling
  <2>4. CASE SendSub(k)
    BY <1>0, <2>4, NewRecords DEF SendSub, Insert
  <2>5. CASE Moved(k)
    BY <1>0, <2>5 DEF Moved
  <2> QED BY <1>7, <2>1, <2>2, <2>3, <2>4, <2>5 DEF MoveStep
<1> QED BY <1>1, <1>2, <1>3, <1>4, <1>5, <1>6, <1>7 DEF Next

LEMMA ShapesInit == Init => Shapes
BY NewRecords DEF Init, Shapes


-----------------------------------------------------------------------------
(* Steps that neither take servers from the pool nor remove files, and     *)
(* leave what the checks took as it is.                                    *)
Passing ==
    /\ FreePool' = FreePool /\ workerDir' = workerDir /\ overlap' = overlap
    /\ DOMAIN check' = Coordinators
    /\ \A k \in Coordinators :
          /\ check'[k].taken = check[k].taken
          /\ check[k].pc = "remove" => check'[k].pc = "remove" /\ check'[k].list = check[k].list

LEMMA PassingKeeps ==
    ASSUME Claims, ClaimedOnce, Passing
    PROVE  Claims' /\ ClaimedOnce'
<1>1. Claims'
  BY DEF Claims, Passing, At
<1>2. ClaimedOnce'
  BY DEF ClaimedOnce, Passing
<1> QED BY <1>1, <1>2

(* One check moves on, from another place than the removal of the files. *)
LEMMA PassingStep ==
    ASSUME Shapes, NEW k \in Coordinators, Others(k), check[k].pc # "remove",
           check'[k].taken = check[k].taken,
           FreePool' = FreePool, workerDir' = workerDir, overlap' = overlap
    PROVE  Passing
BY DEF Others, Passing

LEMMA ClaimsKept ==
    ASSUME Shapes, Claims, ClaimedOnce, [Next]_vars
    PROVE  Claims' /\ ClaimedOnce'
<1>1. CASE UNCHANGED vars
  BY <1>1, PassingKeeps DEF vars, poolVars, Passing, Shapes
<1>2. CASE Wait
  BY <1>2, PassingKeeps DEF Wait, vars, poolVars, Passing, Shapes
<1>3. ASSUME NEW s \in Servers, Listen(s)
      PROVE  Claims' /\ ClaimedOnce'
  BY <1>3, PassingKeeps DEF Listen, poolVars, Passing, Shapes
<1>4. ASSUME NEW c \in NewClients, ClientSubscribe(c)
      PROVE  Claims' /\ ClaimedOnce'
  BY <1>4, PassingKeeps DEF ClientSubscribe, poolVars, Passing, Shapes
<1>5. ASSUME NEW k \in Callers, HandlerStep(k)
      PROVE  Claims' /\ ClaimedOnce'
  BY <1>5, PassingKeeps DEF HandlerStep, SubCount, SubRecord, CallBroken, poolVars, Passing, Shapes
<1>6. ASSUME NEW k \in Coordinators, CheckStep(k)
      PROVE  Claims' /\ ClaimedOnce'
  <2>1. CASE Scan(k)
    <3> DEFINE T == {e \in Events : DOMAIN eventRecordMap[k][e] # {}
                                      /\ Overloaded(eventRecordMap[k][e])}
    <3>1. NextEvent(k, T).taken = {}
      BY NextEventFields
    <3> HIDE DEF T
    <3>2. /\ check' = [check EXCEPT ![k] = NextEvent(k, T)] /\ check[k].pc = "sleep"
          /\ FreePool' = FreePool /\ workerDir' = workerDir /\ overlap' = overlap
      BY <2>1 DEF Scan, T, poolVars, At
    <3>3. Others(k) /\ check'[k].taken = {}
      BY <3>1, <3>2 DEF Others, Shapes
    <3>4. Claims'
      BY <3>2, <3>3 DEF Claims, Others, At
    <3>5. ClaimedOnce'
      BY <3>2, <3>3 DEF ClaimedOnce, Others
    <3> QED BY <3>4, <3>5
  <2>2. CASE getFreeNodeList(k)
    <3>1. PICK list, n :
            /\ list \subseteq FreePool
            /\ check' = [check EXCEPT ![k].pc = "remove", ![k].list = list, ![k].taken = list,
                                      ![k].serverNumber = n]
            /\ overlap' = overlap \cup
                 {s \in list : \E j \in Coordinators \ {k} : At(j, "remove") /\ s \in check[j].list}
      BY <2>2 DEF getFreeNodeList, kSubset
    <3>2. /\ Others(k) /\ check'[k].pc = "remove" /\ check'[k].list = list
          /\ check'[k].taken = list
      BY <3>1 DEF Shapes, Others, CheckFields
    <3>3. check[k].pc = "list" /\ FreePool' = FreePool /\ workerDir' = workerDir
      BY <2>2 DEF getFreeNodeList, At
    <3>4. Claims'
      <4>1. ASSUME NEW j \in Coordinators, NEW s \in check'[j].taken \cup workerDir'[j]
            PROVE  s \notin FreePool' \/ (check'[j].pc = "remove" /\ s \in check'[j].list)
        BY <4>1, <3>2, <3>3 DEF Claims, Others, At
      <4> QED BY <4>1, <3>3 DEF Claims, At
    <3>5. ASSUME NEW s \in Servers, NEW j \in Coordinators \ {k},
                 s \in check'[j].taken \cup workerDir'[j], s \in check'[k].taken \cup workerDir'[k]
          PROVE  s \in overlap'
      <4>1. s \in check[j].taken \cup workerDir[j]
        BY <3>2, <3>3, <3>5 DEF Others
      <4>2. CASE s \in list
        <5>0. s \in FreePool
          BY <4>2, <3>1
        <5>1. At(j, "remove") /\ s \in check[j].list
          BY <5>0, <4>1 DEF Claims
        <5> QED BY <5>1, <4>2, <3>1
      <4>3. CASE s \notin list
        <5>1. s \in check[k].taken \cup workerDir[k]
          BY <3>2, <3>3, <3>5, <4>3
        <5>2. s \in overlap
          BY <5>1, <4>1 DEF ClaimedOnce
        <5> QED BY <5>2, <3>1
      <4> QED BY <4>2, <4>3
    <3>6. ASSUME NEW s \in Servers, NEW i \in Coordinators \ {k}, NEW j \in Coordinators \ {k}, i # j,
                 s \in check'[j].taken \cup workerDir'[j], s \in check'[i].taken \cup workerDir'[i]
          PROVE  s \in overlap'
      <4>1. s \in check[j].taken \cup workerDir[j] /\ s \in check[i].taken \cup workerDir[i]
        BY <3>2, <3>3, <3>6 DEF Others
      <4>2. s \in overlap
        BY <4>1, <3>6 DEF ClaimedOnce
      <4> QED BY <4>2, <3>1
    <3>7. ClaimedOnce'
      BY <3>5, <3>6 DEF ClaimedOnce
    <3> QED BY <3>4, <3>7
  <2>3. CASE RemoveFiles(k)
    <3>1. /\ check' = [check EXCEPT ![k].pc = "update"] /\ FreePool' = FreePool \ check[k].list
          /\ workerDir' = workerDir /\ overlap' = overlap
      BY <2>3 DEF RemoveFiles
    <3>2. Others(k) /\ check'[k].taken = check[k].taken
      BY <3>1, SetPc
    <3>3. Claims'
      BY <3>1, <3>2 DEF Claims, Others, At
    <3>4. ClaimedOnce'
      BY <3>1, <3>2 DEF ClaimedOnce, Others
    <3> QED BY <3>3, <3>4
  <2>4. ASSUME NEW s \in Servers, UpdateCluster(k, s)
        PROVE  Passing
    <3>1. Others(k) /\ check'[k].taken = check[k].taken
      BY <2>4 DEF UpdateCluster, Shapes, Others, CheckFields
    <3> QED BY <3>1, <2>4, PassingStep DEF UpdateCluster, poolVars, At
  <2>5. ASSUME MakePlan(k)
        PROVE  Passing
    <3>1. Others(k) /\ check'[k].taken = check[k].taken
      BY <2>5 DEF MakePlan, Shapes, Others, CheckFields
    <3> QED BY <3>1, <2>5, PassingStep DEF MakePlan, poolVars, At
  <2>6. ASSUME RedistributeByPlan(k)
        PROVE  Passing
    <3>1. Others(k) /\ check'[k].taken = check[k].taken
      BY <2>6 DEF RedistributeByPlan, Shapes, Others, CheckFields
    <3> QED BY <3>1, <2>6, PassingStep DEF RedistributeByPlan, poolVars, At
  <2>7. CASE nodeAttach(k)
    <3> DEFINE T == check[k].todo \ {check[k].event}
    <3>1. NextEvent(k, T).taken = {}
      BY NewRecords DEF NextEvent, CheckFields
    <3> HIDE DEF T
    <3>2. /\ check' = [check EXCEPT ![k] = NextEvent(k, T)] /\ check[k].pc = "plan"
          /\ workerDir' = [workerDir EXCEPT ![k] = @ \cup check[k].taken]
          /\ FreePool' = FreePool /\ overlap' = overlap
      BY <2>7 DEF nodeAttach, T, At
    <3>3. Others(k) /\ check'[k].taken = {}
      BY <3>1, <3>2 DEF Others, Shapes
    <3>4. /\ DOMAIN workerDir' = Coordinators /\ workerDir'[k] = workerDir[k] \cup check[k].taken
          /\ \A j \in Coordinators \ {k} : workerDir'[j] = workerDir[j]
      BY <3>2 DEF Claims
    <3>5. Claims'
      BY <3>2, <3>3, <3>4 DEF Claims, Others, At
    <3>6. ClaimedOnce'
      BY <3>2, <3>3, <3>4 DEF ClaimedOnce, Others
    <3> QED BY <3>5, <3>6
  <2>8. ASSUME ReadOwn(k)
        PROVE  Passing
    <3>1. Others(k) /\ check'[k].taken = check[k].taken
      BY <2>8 DEF ReadOwn, Shapes, Others, CheckFields
    <3> QED BY <3>1, <2>8, PassingStep DEF ReadOwn, poolVars, At
  <2>9. ASSUME WriteOwn(k)
        PROVE  Passing
    <3>1. Others(k) /\ check'[k].taken = check[k].taken
      BY <2>9, SetPc DEF WriteOwn
    <3> QED BY <3>1, <2>9, PassingStep DEF WriteOwn, poolVars, At
  <2> QED BY <1>6, <2>1, <2>2, <2>3, <2>4, <2>5, <2>6, <2>7, <2>8, <2>9, PassingKeeps DEF CheckStep
<1>7. ASSUME NEW k \in Coordinators, MoveStep(k)
      PROVE  Passing
  <2>1. CASE EraseSub(k)
    <3>1. Others(k) /\ check'[k].taken = check[k].taken
      BY <2>1, SetPc DEF EraseSub
    <3> QED BY <3>1, <2>1, PassingStep DEF EraseSub, poolVars, At
  <2>2. CASE Advance(k)
    <3>1. Others(k) /\ check'[k].taken = check[k].taken
      BY <2>2, SetPc DEF Advance
    <3> QED BY <3>1, <2>2, PassingStep DEF Advance, poolVars, At
  <2>3. CASE UseDangling(k)
    <3>1. Others(k) /\ check'[k].taken = check[k].taken
      BY <2>3, SetPc DEF UseDangling
    <3> QED BY <3>1, <2>3, PassingStep DEF UseDangling, poolVars
  <2>4. CASE SendSub(k)
    BY <2>4 DEF SendSub, poolVars, Passing, Shapes
  <2>5. CASE Moved(k)
    <3>1. Others(k) /\ check'[k].taken = check[k].taken
      BY <2>5, SetPc DEF Moved
    <3> QED BY <3>1, <2>5, PassingStep DEF Moved, poolVars, At
  <2> QED BY <1>7, <2>1, <2>2, <2>3, <2>4, <2>5 DEF MoveStep
<1> QED BY <1>1, <1>2, <1>3, <1>4, <1>5, <1>6, <1>7, PassingKeeps DEF Next

(* Two checks never hold the same server of the pool, unless both had read *)
(* its file before either deleted it: getFreeNodeList lists the files in   *)
(* one loop and removes them in another, and nothing else puts a server    *)
(* into two groups, whatever the number of coordinators and free servers.  *)
THEOREM PoolClaims == Spec => []ClaimedOnce
<1>1. Init => Shapes /\ Claims /\ ClaimedOnce
  <2>1. Init => Claims /\ ClaimedOnce
    BY NewRecords DEF Init, Claims, ClaimedOnce
  <2> QED BY <2>1, ShapesInit
<1>2. (Shapes /\ Claims /\ ClaimedOnce) /\ [Next]_vars => (Shapes /\ Claims /\ ClaimedOnce)'
  <2> SUFFICES ASSUME Shapes, Claims, ClaimedOnce, [Next]_vars
               PROVE  Shapes' /\ Claims' /\ ClaimedOnce'
    OBVIOUS
  <2> QED BY ShapesKept, ClaimsKept
<1> QED BY <1>1, <1>2, PTL DEF Spec


-----------------------------------------------------------------------------
(* begin() of a set of clients is one of them. *)
LEMMA FirstIn ==
    ASSUME NEW S \in SUBSET Clients
    PROVE  /\ S # {} => First(S) \in S
           /\ First(S) \in S \cup {End}
           /\ First(S) # End => First(S) \in Clients
           /\ S # {} => \A d \in S : First(S) =< d
<1>1. S \subseteq Nat
  BY ClientAssumption
<1>2. CASE S # {}
  <2>1. PICK x \in S : \A y \in S : ~ (<<y, x>> \in OpToRel(<, Nat))
    BY <1>1, <1>2, NatLessThanWellFounded, WFMin
  <2>2. \A y \in S : x \in Nat /\ y \in Nat
    BY <1>1
  <2>3. \A y \in S : ~ (y < x)
    BY <2>1, <2>2, Zenon DEF OpToRel
  <2>4. \A y \in S : x =< y
    BY <2>2, <2>3
  <2>5. Min(S) \in S /\ \A y \in S : Min(S) =< y
    <3> DEFINE Least(z) == z \in S /\ \A y \in S : z =< y
    <3>1. Least(x)
      BY <2>4
    <3>3. Min(S) = CHOOSE z \in S : \A y \in S : z =< y
      BY Zenon DEF Min
    <3>4. Least(CHOOSE z \in S : \A y \in S : z =< y)
      BY <3>1, Zenon
    <3> QED BY <3>3, <3>4, Zenon
  <2> QED BY <1>2, <2>5 DEF First
<1>3. CASE S = {}
  BY <1>3 DEF First
<1> QED BY <1>2, <1>3

(* pubsubSubscribe at server s *)
InsertedAt(c, s) ==
    /\ subtoClient' \in [Servers -> [Events -> SUBSET Clients]]
    /\ \A t \in Servers, e \in Events : subtoClient'[t][e] =
          IF t = s /\ e = EventOf[c] THEN subtoClient[t][e] \cup {c} ELSE subtoClient[t][e]

LEMMA Inserted ==
    ASSUME Stores, NEW c \in Clients, NEW s \in Servers,
           subtoClient' = [subtoClient EXCEPT ![s][EventOf[c]] = @ \cup {c}]
    PROVE  InsertedAt(c, s)
<1>1. EventOf[c] \in Events
  BY ClientAssumption
<1>2. /\ subtoClient' = [subtoClient EXCEPT ![s] = [subtoClient[s] EXCEPT ![EventOf[c]] = @ \cup {c}]]
      /\ subtoClient[s] \in [Events -> SUBSET Clients]
  BY DEF Stores
<1>3. /\ [subtoClient[s] EXCEPT ![EventOf[c]] = @ \cup {c}] \in [Events -> SUBSET Clients]
      /\ \A e \in Events : [subtoClient[s] EXCEPT ![EventOf[c]] = @ \cup {c}][e] =
           IF e = EventOf[c] THEN subtoClient[s][e] \cup {c} ELSE subtoClient[s][e]
  BY <1>1, <1>2
<1> QED BY <1>2, <1>3 DEF Stores, InsertedAt

(* The erasure of client c at server s *)
ErasedAt(c, s, f) ==
    /\ subtoClient' \in [Servers -> [Events -> SUBSET Clients]]
    /\ \A t \in Servers, e \in Events : subtoClient'[t][e] =
          IF t = s /\ e = f THEN subtoClient[t][e] \ {c} ELSE subtoClient[t][e]

LEMMA Erased ==
    ASSUME Stores, NEW c, NEW s \in Servers, NEW f \in Events,
           subtoClient' = [subtoClient EXCEPT ![s][f] = @ \ {c}]
    PROVE  ErasedAt(c, s, f)
<1>2. /\ subtoClient' = [subtoClient EXCEPT ![s] = [subtoClient[s] EXCEPT ![f] = @ \ {c}]]
      /\ subtoClient[s] \in [Events -> SUBSET Clients]
  BY DEF Stores
<1>3. /\ [subtoClient[s] EXCEPT ![f] = @ \ {c}] \in [Events -> SUBSET Clients]
      /\ \A e \in Events : [subtoClient[s] EXCEPT ![f] = @ \ {c}][e] =
           IF e = f THEN subtoClient[s][e] \ {c} ELSE subtoClient[s][e]
  BY <1>2
<1> QED BY <1>2, <1>3 DEF Stores, ErasedAt

(* A step of one check, its move included. *)
OtherMoves(k) == DOMAIN move' = Coordinators /\ \A j \in Coordinators \ {k} : move'[j] = move[j]

LEMMA CarriesOn ==
    ASSUME Carry, NEW k \in Coordinators, Others(k), OtherMoves(k), Carries(k)'
    PROVE  Carry'
BY DEF Carry, Carries, Moving, Others, OtherMoves

LEMMA CarrySame ==
    ASSUME Carry, check' = check, move' = move
    PROVE  Carry'
BY DEF Carry, Carries, Moving

LEMMA StoresSame ==
    ASSUME Stores, subtoClient' = subtoClient, listening' \subseteq listening
    PROVE  Stores'
BY DEF Stores


-----------------------------------------------------------------------------
(* Inserting at a server that is up keeps the subscriptions filed. *)
LEMMA InsertStores ==
    ASSUME Stores, NEW c \in Clients, NEW s \in listening, listening' = listening,
           subtoClient' = [subtoClient EXCEPT ![s][EventOf[c]] = @ \cup {c}]
    PROVE  Stores'
<1>1. s \in Servers
  BY DEF Stores
<1>2. /\ subtoClient' \in [Servers -> [Events -> SUBSET Clients]]
      /\ \A t \in Servers, e \in Events : subtoClient'[t][e] =
           IF t = s /\ e = EventOf[c] THEN subtoClient[t][e] \cup {c} ELSE subtoClient[t][e]
  <2>1. InsertedAt(c, s)
    BY <1>1, Inserted
  <2> QED BY <2>1 DEF InsertedAt
<1>3. \A t \in Servers, e \in Events : \A d \in subtoClient'[t][e] : EventOf[d] = e
  BY <1>2 DEF Stores
<1> QED BY <1>2, <1>3 DEF Stores

LEMMA NewClientsAreClients == NewClients \subseteq Clients
BY DEF NewClients

(* Where the moves, the subscriptions and the events of the checks are     *)
(* well formed, they stay so.                                              *)
LEMMA FiledKept ==
    ASSUME Shapes, Stores, Carry, [Next]_vars
    PROVE  Stores' /\ Carry'
<1>1. CASE UNCHANGED vars
  BY <1>1, StoresSame, CarrySame DEF vars, serverVars
<1>2. CASE Wait
  BY <1>2, StoresSame, CarrySame DEF Wait, vars, serverVars
<1>3. ASSUME NEW s \in Servers, Listen(s)
      PROVE  Stores' /\ Carry'
  <2>1. Stores'
    BY <1>3, ServerAssumption DEF Listen, Stores, serverVars
  <2> QED BY <1>3, <2>1, CarrySame DEF Listen
<1>4. ASSUME NEW c \in NewClients, ClientSubscribe(c)
      PROVE  Stores' /\ Carry'
  <2>1. Stores'
    BY <1>4, InsertStores, NewClientsAreClients DEF ClientSubscribe, Insert
  <2> QED BY <1>4, <2>1, CarrySame DEF ClientSubscribe
<1>5. ASSUME NEW k \in Callers, HandlerStep(k)
      PROVE  Stores' /\ Carry'
  BY <1>5, StoresSame, CarrySame DEF HandlerStep, SubCount, SubRecord, CallBroken, serverVars
<1>6. ASSUME NEW k \in Coordinators, CheckStep(k)
      PROVE  Stores' /\ Carry'
  <2>0. Stores'
    BY <1>6, StoresSame DEF CheckStep, Scan, getFreeNodeList, RemoveFiles, UpdateCluster, MakePlan,
         RedistributeByPlan, nodeAttach, ReadOwn, WriteOwn, serverVars
  <2>10. Carries(k) /\ (check[k].pc # "sleep" /\ check[k].pc # "done" => check[k].event \in Events)
    BY DEF Carry, Carries
  <2>1. CASE Scan(k)
    <3> DEFINE T == {e \in Events : DOMAIN eventRecordMap[k][e] # {}
                                      /\ Overloaded(eventRecordMap[k][e])}
    <3>1. LET r == NextEvent(k, T)
          IN /\ DOMAIN r = CheckFields /\ r.pc \in {"done", "list"} /\ r.taken = {}
             /\ r.todo \subseteq Events
             /\ r.pc = "list" => r.event \in Events
      BY NextEventFields
    <3> HIDE DEF T
    <3>2. check' = [check EXCEPT ![k] = NextEvent(k, T)] /\ check[k].pc = "sleep" /\ move' = move
      BY <2>1 DEF Scan, T, At
    <3>3. Others(k) /\ OtherMoves(k) /\ check'[k] = NextEvent(k, T)
      BY <3>2 DEF Others, OtherMoves, Shapes
    <3>4. Carries(k)'
      BY <3>1, <3>2, <3>3, <2>10 DEF Carries, Moving
    <3> QED BY <2>0, <3>3, <3>4, CarriesOn
  <2>2. CASE getFreeNodeList(k)
    <3>1. PICK list, n : check' = [check EXCEPT ![k].pc = "remove", ![k].list = list, ![k].taken = list,
                                      ![k].serverNumber = n]
      BY <2>2 DEF getFreeNodeList
    <3>2. /\ Others(k) /\ check'[k].pc = "remove" /\ check'[k].todo = check[k].todo
          /\ check'[k].event = check[k].event
      BY <3>1 DEF Shapes, Others, CheckFields
    <3>3. check[k].pc = "list" /\ move' = move /\ OtherMoves(k)
      BY <2>2 DEF getFreeNodeList, At, OtherMoves, Shapes
    <3>4. Carries(k)'
      BY <3>2, <3>3, <2>10 DEF Carries, Moving
    <3> QED BY <2>0, <3>2, <3>3, <3>4, CarriesOn
  <2>3. CASE RemoveFiles(k)
    <3>1. /\ Others(k) /\ check'[k].pc = "update" /\ check'[k].todo = check[k].todo
          /\ check'[k].event = check[k].event
      BY <2>3, SetPc DEF RemoveFiles
    <3>2. check[k].pc = "remove" /\ move' = move /\ OtherMoves(k)
      BY <2>3 DEF RemoveFiles, At, OtherMoves, Shapes
    <3>3. Carries(k)'
      BY <3>1, <3>2, <2>10 DEF Carries, Moving
    <3> QED BY <2>0, <3>1, <3>2, <3>3, CarriesOn
  <2>4. ASSUME NEW s \in Servers, UpdateCluster(k, s)
        PROVE  Carry'
    <3>1. /\ Others(k) /\ check'[k].pc = check[k].pc /\ check'[k].todo = check[k].todo
          /\ check'[k].event = check[k].event
      BY <2>4 DEF UpdateCluster, Shapes, Others, CheckFields
    <3>2. move' = move /\ OtherMoves(k)
      BY <2>4 DEF UpdateCluster, OtherMoves, Shapes
    <3>3. Carries(k)'
      BY <3>1, <3>2, <2>10 DEF Carries, Moving
    <3> QED BY <3>1, <3>2, <3>3, CarriesOn
  <2>5. CASE MakePlan(k)
    <3>1. /\ Others(k) /\ check'[k].pc \in {"plan", "crashed"} /\ check'[k].todo = check[k].todo
          /\ check'[k].event = check[k].event
      BY <2>5 DEF MakePlan, Shapes, Others, CheckFields
    <3>2. check[k].pc = "update" /\ move' = move /\ OtherMoves(k)
      BY <2>5 DEF MakePlan, At, OtherMoves, Shapes
    <3>3. Carries(k)'
      BY <3>1, <3>2, <2>10 DEF Carries, Moving
    <3> QED BY <2>0, <3>1, <3>2, <3>3, CarriesOn
  <2>6. CASE RedistributeByPlan(k)
    <3> DEFINE src == Head(check[k].plans).srcAddr
               S == subtoClient[src][check[k].event]
               l == IF src \in listening /\ S # {} THEN "erase" ELSE "own"
    <3>1. /\ Others(k) /\ check'[k].pc = l /\ check'[k].todo = check[k].todo
          /\ check'[k].event = check[k].event
      BY <2>6 DEF RedistributeByPlan, Shapes, Others, CheckFields
    <3>2. /\ OtherMoves(k) /\ move'[k].src = src /\ move'[k].spsw = <<>>
          /\ move'[k].itera = First(S)
      BY <2>6 DEF RedistributeByPlan, Shapes, OtherMoves
    <3>3. check[k].pc = "plan" /\ check[k].event \in Events
      BY <2>6, <2>10 DEF RedistributeByPlan, At
    <3>4. l = "erase" => src \in Servers /\ First(S) # End
      <4>1. SUFFICES ASSUME src \in listening, S # {}
                     PROVE  src \in Servers /\ First(S) # End
        OBVIOUS
      <4>2. src \in Servers /\ S \in SUBSET Clients
        BY <4>1, <3>3 DEF Stores
      <4> HIDE DEF S, src
      <4>3. First(S) \in S
        BY <4>1, <4>2, FirstIn
      <4> QED BY <4>2, <4>3, ClientAssumption
    <3>5. l = "erase" \/ l = "own"
      OBVIOUS
    <3> HIDE DEF l, S, src
    <3>6. Carries(k)'
      BY <3>1, <3>2, <3>3, <3>4, <3>5, <2>10 DEF Carries, Moving
    <3> QED BY <2>0, <3>1, <3>2, <3>6, CarriesOn
  <2>7. CASE nodeAttach(k)
    <3> DEFINE T == check[k].todo \ {check[k].event}
    <3>1. LET r == NextEvent(k, T)
          IN /\ DOMAIN r = CheckFields /\ r.pc \in {"done", "list"} /\ r.taken = {}
             /\ r.todo \subseteq Events
             /\ r.pc = "list" => r.event \in Events
      <4>1. T \subseteq Events
        BY <2>10 DEF Carries
      <4> HIDE DEF T
      <4> QED BY <4>1, NextEventFields
    <3> HIDE DEF T
    <3>2. check' = [check EXCEPT ![k] = NextEvent(k, T)] /\ check[k].pc = "plan" /\ move' = move
      BY <2>7 DEF nodeAttach, T, At
    <3>3. Others(k) /\ OtherMoves(k) /\ check'[k] = NextEvent(k, T)
      BY <3>2 DEF Others, OtherMoves, Shapes
    <3>4. Carries(k)'
      BY <3>1, <3>2, <3>3, <2>10 DEF Carries, Moving
    <3> QED BY <2>0, <3>3, <3>4, CarriesOn
  <2>8. CASE ReadOwn(k)
    <3>1. /\ Others(k) /\ check'[k].pc = "write" /\ check'[k].todo = check[k].todo
          /\ check'[k].event = check[k].event
      BY <2>8 DEF ReadOwn, Shapes, Others, CheckFields
    <3>2. check[k].pc = "own" /\ move' = move /\ OtherMoves(k)
      BY <2>8 DEF ReadOwn, At, OtherMoves, Shapes
    <3>3. Carries(k)'
      BY <3>1, <3>2, <2>10 DEF Carries, Moving
    <3> QED BY <2>0, <3>1, <3>2, <3>3, CarriesOn
  <2>9. CASE WriteOwn(k)
    <3>1. /\ Others(k) /\ check'[k].pc = "plan" /\ check'[k].todo = check[k].todo
          /\ check'[k].event = check[k].event
      BY <2>9, SetPc DEF WriteOwn
    <3>2. check[k].pc = "write" /\ move' = move /\ OtherMoves(k)
      BY <2>9 DEF WriteOwn, At, OtherMoves, Shapes
    <3>3. Carries(k)'
      BY <3>1, <3>2, <2>10 DEF Carries, Moving
    <3> QED BY <2>0, <3>1, <3>2, <3>3, CarriesOn
  <2> QED BY <1>6, <2>0, <2>1, <2>2, <2>3, <2>4, <2>5, <2>6, <2>7, <2>8, <2>9 DEF CheckStep
<1>7. ASSUME NEW k \in Coordinators, MoveStep(k)
      PROVE  Stores' /\ Carry'
  <2>10. Carries(k) /\ (check[k].pc # "sleep" /\ check[k].pc # "done" => check[k].event \in Events)
    BY DEF Carry, Carries
  <2>1. CASE EraseSub(k)
    <3> DEFINE c == move[k].itera
               src == move[k].src
               e == check[k].event
    <3>1. /\ Others(k) /\ check'[k].pc \in {"send", "advance"} /\ check'[k].todo = check[k].todo
          /\ check'[k].event = e
      BY <2>1, SetPc DEF EraseSub
    <3>2. /\ check[k].pc = "erase" /\ src \in Servers /\ e \in Events /\ c \in subtoClient[src][e]
          /\ c \in Clients /\ move[k].spsw \in Seq(Clients)
      BY <2>1, <2>10 DEF EraseSub, At, Dangling, Carries, Stores
    <3>3. /\ OtherMoves(k) /\ move'[k].src = src /\ move'[k].spsw = Append(move[k].spsw, c)
      BY <2>1 DEF EraseSub, Shapes, MoveFields, OtherMoves
    <3>4. Carries(k)'
      BY <3>1, <3>2, <3>3, <2>10 DEF Carries, Moving
    <3>5. subtoClient' = [subtoClient EXCEPT ![src][e] = @ \ {c}] /\ listening' = listening
      BY <2>1 DEF EraseSub
    <3>6. /\ subtoClient' \in [Servers -> [Events -> SUBSET Clients]]
          /\ \A t \in Servers, f \in Events : subtoClient'[t][f] =
                IF t = src /\ f = e THEN subtoClient[t][f] \ {c} ELSE subtoClient[t][f]
      <4>1. ErasedAt(c, src, e)
        BY <3>2, <3>5, Erased
      <4> QED BY <4>1 DEF ErasedAt
    <3>7. Stores'
      BY <3>5, <3>6 DEF Stores
    <3> QED BY <3>1, <3>3, <3>4, <3>7, CarriesOn
  <2>2. CASE Advance(k)
    <3> DEFINE S == subtoClient[move[k].src][check[k].event]
    <3>1. /\ Others(k) /\ check'[k].todo = check[k].todo /\ check'[k].event = check[k].event
      BY <2>2, SetPc DEF Advance
    <3>2. check[k].pc = "advance" /\ move[k].src \in Servers /\ S \in SUBSET Clients
      <4>1. check[k].pc = "advance"
        BY <2>2 DEF Advance, At
      <4> QED
        BY <4>1, <2>10 DEF Carries, Stores
    <3>3. /\ OtherMoves(k) /\ move'[k].src = move[k].src /\ move'[k].spsw = move[k].spsw
      BY <2>2 DEF Advance, Shapes, MoveFields, OtherMoves
    <3>4. \/ check'[k].pc \in {"send", "hung"}
          \/ check'[k].pc = "erase" /\ move'[k].itera # End
      <4>1. CASE move[k].itera # End
        <5>1. /\ check' = [check EXCEPT ![k].pc = IF Successor(S, move[k].itera) = End THEN "send" ELSE "erase"]
              /\ move' = [move EXCEPT ![k].itera = Successor(S, @)]
          BY <2>2, <4>1 DEF Advance
        <5>2. /\ check'[k].pc = IF Successor(S, move[k].itera) = End THEN "send" ELSE "erase"
              /\ move'[k].itera = Successor(S, move[k].itera)
          BY <5>1 DEF Shapes, MoveFields, CheckFields
        <5> QED BY <5>2
      <4>2. ASSUME NEW c \in S, move' = [move EXCEPT ![k].itera = c],
                   check' = [check EXCEPT ![k].pc = "erase"]
            PROVE  check'[k].pc = "erase" /\ move'[k].itera # End
        <5>1. check'[k].pc = "erase" /\ move'[k].itera = c
          BY <4>2 DEF Shapes, MoveFields, CheckFields
        <5> QED BY <5>1, <3>2, ClientAssumption
      <4>3. ASSUME check' = [check EXCEPT ![k].pc = "hung"]
            PROVE  check'[k].pc = "hung"
        BY <4>3, SetPc
      <4> QED BY <2>2, <4>1, <4>2, <4>3 DEF Advance
    <3>5. Carries(k)'
      BY <3>1, <3>2, <3>3, <3>4, <2>10 DEF Carries, Moving
    <3>6. Stores'
      BY <2>2, StoresSame DEF Advance, serverVars
    <3> QED BY <3>1, <3>3, <3>5, <3>6, CarriesOn
  <2>3. CASE UseDangling(k)
    <3>1. /\ Others(k) /\ check'[k].pc = "undefined" /\ check'[k].todo = check[k].todo
          /\ check'[k].event = check[k].event
      BY <2>3, SetPc DEF UseDangling
    <3>2. check[k].pc \in {"erase", "advance"} /\ move' = move /\ OtherMoves(k)
      BY <2>3 DEF UseDangling, OtherMoves, Shapes
    <3>3. Carries(k)'
      BY <3>1, <3>2, <2>10 DEF Carries, Moving
    <3>4. Stores'
      BY <2>3, StoresSame DEF UseDangling, serverVars
    <3> QED BY <3>1, <3>2, <3>3, <3>4, CarriesOn
  <2>4. CASE SendSub(k)
    <3>1. /\ check[k].pc = "send" /\ move[k].spsw # <<>> /\ move[k].spsw \in Seq(Clients)
          /\ Head(move[k].spsw) \in Clients /\ Tail(move[k].spsw) \in Seq(Clients)
      BY <2>4, <2>10 DEF SendSub, At, Carries
    <3>2. OtherMoves(k) /\ move'[k].spsw = Tail(move[k].spsw)
      BY <2>4 DEF SendSub, OtherMoves, Shapes, MoveFields
    <3>3. check' = check /\ Others(k)
      BY <2>4 DEF SendSub, Others, Shapes
    <3>4. Carries(k)'
      BY <3>1, <3>2, <3>3, <2>10 DEF Carries, Moving
    <3>5. Stores'
      BY <2>4, <3>1, InsertStores, StoresSame DEF SendSub, Insert
    <3> QED BY <3>2, <3>3, <3>4, <3>5, CarriesOn
  <2>5. CASE Moved(k)
    <3>1. /\ Others(k) /\ check'[k].pc = "own" /\ check'[k].todo = check[k].todo
          /\ check'[k].event = check[k].event
      BY <2>5, SetPc DEF Moved
    <3>2. check[k].pc = "send" /\ move' = move /\ move[k].spsw = <<>> /\ OtherMoves(k)
      BY <2>5 DEF Moved, At, OtherMoves, Shapes
    <3>3. Carries(k)'
      BY <3>1, <3>2, <2>10 DEF Carries, Moving
    <3>4. Stores'
      BY <2>5, StoresSame DEF Moved, serverVars
    <3> QED BY <3>1, <3>2, <3>3, <3>4, CarriesOn
  <2> QED BY <1>7, <2>1, <2>2, <2>3, <2>4, <2>5 DEF MoveStep
<1> QED BY <1>1, <1>2, <1>3, <1>4, <1>5, <1>6, <1>7 DEF Next


-----------------------------------------------------------------------------
(* What a step does to the places of a client decides PlacedOnce. *)
LEMMA SamePlaces ==
    ASSUME NEW c \in Clients, PlacedOnce(c),
           \A s \in Servers : On(c, s)' <=> On(c, s),
           \A k \in Coordinators, i \in Nat : Copy(c, k, i)' <=> Copy(c, k, i),
           \A l : Lost(c, l)' <=> Lost(c, l),
           Uncalled(c)' <=> Uncalled(c)
    PROVE  PlacedOnce(c)'
<1>1. OneOn(c)' /\ OneCopy(c)'
  BY DEF PlacedOnce, OneOn, OneCopy
<1>2. \A l \in lost' : Lost(c, l)' => l \in lost
  BY DEF Lost
<1>3. OneLost(c)'
  BY <1>2 DEF PlacedOnce, OneLost
<1>4. Apart(c)'
  BY <1>2 DEF PlacedOnce, Apart
<1>5. Nowhere(c)' <=> Nowhere(c)
  BY <1>2 DEF Nowhere, Lost
<1> QED BY <1>1, <1>3, <1>4, <1>5 DEF PlacedOnce

(* Steps that move no subscription. *)
LEMMA Still ==
    ASSUME Placed, subtoClient' = subtoClient, lost' = lost,
           \A k \in Coordinators : move'[k].spsw = move[k].spsw,
           \A c \in NewClients : (call'[ByClient(c)].pc = "none") <=> (call[ByClient(c)].pc = "none")
    PROVE  Placed'
<1> SUFFICES ASSUME NEW c \in Clients
             PROVE  PlacedOnce(c)'
  BY DEF Placed
<1>1. \A s \in Servers : On(c, s)' <=> On(c, s)
  BY DEF On
<1>2. \A k \in Coordinators, i \in Nat : Copy(c, k, i)' <=> Copy(c, k, i)
  BY DEF Copy
<1>3. \A l : Lost(c, l)' <=> Lost(c, l)
  BY DEF Lost
<1>4. Uncalled(c)' <=> Uncalled(c)
  BY DEF Uncalled
<1> QED BY <1>1, <1>2, <1>3, <1>4, SamePlaces DEF Placed


(* Clients and moves are different callers. *)
LEMMA CallersApart ==
    /\ \A c, d : ByClient(c) = ByClient(d) => c = d
    /\ \A c, k : ByClient(c) # ByMove(k)
    /\ \A c \in NewClients : ByClient(c) \in Callers
    /\ \A k \in Coordinators : ByMove(k) \in Callers
BY DEF ByClient, ByMove, Callers

(* A client's subscription gets onto a server from nowhere. *)
LEMMA SubscribePlaces ==
    ASSUME Shapes, Stores, Placed, NEW c \in NewClients, ClientSubscribe(c)
    PROVE  Placed'
<1>0. c \in Clients
  BY NewClientsAreClients
<1>1. PICK s \in listening :
        /\ subtoClient' = [subtoClient EXCEPT ![s][EventOf[c]] = @ \cup {c}]
        /\ call' = [call EXCEPT ![ByClient(c)] = Call("count", c, s, 0)]
  BY DEF ClientSubscribe, Insert
<1>2. s \in Servers /\ lost' = lost /\ move' = move /\ call[ByClient(c)].pc = "none"
  BY DEF ClientSubscribe, Stores
<1>3. \A t \in Servers, e \in Events : subtoClient'[t][e] =
        IF t = s /\ e = EventOf[c] THEN subtoClient[t][e] \cup {c} ELSE subtoClient[t][e]
  <2>1. InsertedAt(c, s)
    BY <1>0, <1>1, <1>2, Inserted
  <2> QED BY <2>1 DEF InsertedAt
<1>4. \A d \in Clients : EventOf[d] \in Events
  BY ClientAssumption
<1>5. /\ call'[ByClient(c)].pc = "count"
      /\ \A d \in NewClients \ {c} : call'[ByClient(d)] = call[ByClient(d)]
  <2>1. call'[ByClient(c)] = Call("count", c, s, 0)
    BY <1>1, CallersApart DEF Shapes
  <2>2. \A d \in NewClients \ {c} : call'[ByClient(d)] = call[ByClient(d)]
    BY <1>1, CallersApart DEF Shapes
  <2> QED BY <2>1, <2>2, NewRecords
<1>6. \A d, l : Lost(d, l)' <=> Lost(d, l)
  BY <1>2 DEF Lost
<1>7. \A d, k, i : Copy(d, k, i)' <=> Copy(d, k, i)
  BY <1>2 DEF Copy
<1>8. ASSUME NEW d \in Clients \ {c}
      PROVE  PlacedOnce(d)'
  <2>1. \A t \in Servers : On(d, t)' <=> On(d, t)
    BY <1>3, <1>4 DEF On
  <2>2. Uncalled(d)' <=> Uncalled(d)
    BY <1>5 DEF Uncalled
  <2> QED BY <2>1, <2>2, <1>6, <1>7, SamePlaces DEF Placed
<1>9. PlacedOnce(c)'
  <2>1. Nowhere(c)
    BY <1>0, <1>2 DEF Placed, PlacedOnce, Uncalled
  <2>2. \A t \in Servers : On(c, t)' <=> t = s
    BY <2>1, <1>0, <1>2, <1>3, <1>4 DEF On, Nowhere
  <2>3. /\ \A k \in Coordinators, i \in Nat : ~ Copy(c, k, i)'
        /\ \A l \in lost' : ~ Lost(c, l)'
    BY <2>1, <1>2, <1>6, <1>7 DEF Nowhere
  <2>4. ~ Uncalled(c)'
    BY <1>5 DEF Uncalled
  <2>5. OneOn(c)' /\ OneCopy(c)' /\ OneLost(c)' /\ Apart(c)'
    BY <2>2, <2>3 DEF OneOn, OneCopy, OneLost, Apart
  <2>6. ~ Nowhere(c)'
    BY <2>2, <1>2 DEF Nowhere
  <2> QED BY <2>4, <2>5, <2>6 DEF PlacedOnce
<1> QED BY <1>8, <1>9 DEF Placed

(* RedistributeSub takes a subscription off its server and into the copies. *)
LEMMA ErasePlaces ==
    ASSUME Shapes, Stores, Carry, Placed, NEW k \in Coordinators, EraseSub(k)
    PROVE  Placed'
<1>0. PICK c, src, e, n : /\ c = move[k].itera /\ src = move[k].src /\ e = check[k].event
                          /\ n = Len(move[k].spsw) + 1
  OBVIOUS
<1>1. /\ src \in Servers /\ e \in Events /\ c \in subtoClient[src][e]
      /\ c \in Clients /\ EventOf[c] = e /\ move[k].spsw \in Seq(Clients)
  <2>1. Carries(k) /\ check[k].pc = "erase" /\ ~ Dangling(k)
    BY DEF EraseSub, At, Carry
  <2>2. src \in Servers /\ e \in Events /\ c # End /\ move[k].spsw \in Seq(Clients)
    BY <1>0, <2>1 DEF Carries
  <2>3. c \in subtoClient[src][e]
    BY <1>0, <2>1, <2>2 DEF Dangling
  <2> QED BY <2>2, <2>3 DEF Stores
<1>2. /\ DOMAIN move' = Coordinators /\ move'[k].spsw = Append(move[k].spsw, c)
      /\ \A j \in Coordinators \ {k} : move'[j] = move[j]
  BY <1>0 DEF EraseSub, Shapes, MoveFields
<1>3. subtoClient' = [subtoClient EXCEPT ![src][e] = @ \ {c}] /\ lost' = lost /\ call' = call
  BY <1>0 DEF EraseSub
<1>4. \A t \in Servers, f \in Events : subtoClient'[t][f] =
        IF t = src /\ f = e THEN subtoClient[t][f] \ {c} ELSE subtoClient[t][f]
  <2>1. ErasedAt(c, src, e)
    BY <1>1, <1>3, Erased
  <2> QED BY <2>1 DEF ErasedAt
<1>5. \A d \in Clients : EventOf[d] \in Events
  BY ClientAssumption
<1>6. \A d, l : Lost(d, l)' <=> Lost(d, l)
  BY <1>3 DEF Lost
<1>7. \A d : Uncalled(d)' <=> Uncalled(d)
  BY <1>3 DEF Uncalled
<1>8. /\ n \in Nat /\ Len(move'[k].spsw) = n /\ move'[k].spsw[n] = c
      /\ \A i \in 1 .. n - 1 : move'[k].spsw[i] = move[k].spsw[i]
      /\ n - 1 = Len(move[k].spsw)
  BY <1>0, <1>1, <1>2
<1>9. ASSUME NEW d \in Clients \ {c}
      PROVE  PlacedOnce(d)'
  <2>1. \A t \in Servers : On(d, t)' <=> On(d, t)
    BY <1>4, <1>5 DEF On
  <2>2. \A j \in Coordinators, i \in Nat : Copy(d, j, i)' <=> Copy(d, j, i)
    <3>1. \A j \in Coordinators \ {k}, i \in Nat : Copy(d, j, i)' <=> Copy(d, j, i)
      BY <1>2 DEF Copy
    <3>2. \A i \in Nat : Copy(d, k, i)' <=> Copy(d, k, i)
      BY <1>8 DEF Copy
    <3> QED BY <3>1, <3>2
  <2> QED BY <2>1, <2>2, <1>6, <1>7, SamePlaces DEF Placed
<1>10. PlacedOnce(c)'
  <2>1. PlacedOnce(c) /\ On(c, src)
    BY <1>1 DEF Placed, On
  <2>2. /\ \A j \in Coordinators, i \in Nat : ~ Copy(c, j, i)
        /\ \A l \in lost : ~ Lost(c, l)
        /\ ~ Uncalled(c)
        /\ \A t \in Servers : On(c, t) => t = src
    BY <2>1, <1>1 DEF PlacedOnce, Apart, Nowhere, OneOn
  <2>3. \A t \in Servers : ~ On(c, t)'
    BY <2>2, <1>1, <1>4 DEF On
  <2>4. /\ \A j \in Coordinators, i \in Nat : Copy(c, j, i)' => j = k /\ i = n
        /\ Copy(c, k, n)'
    <3>1. ASSUME NEW j \in Coordinators \ {k}, NEW i \in Nat
          PROVE  ~ Copy(c, j, i)'
      BY <2>2, <1>2 DEF Copy
    <3>2. ASSUME NEW i \in Nat, Copy(c, k, i)', i # n
          PROVE  FALSE
      <4>1. i \in 1 .. n - 1 /\ move[k].spsw[i] = c
        BY <3>2, <1>8 DEF Copy
      <4>2. Copy(c, k, i)
        BY <4>1, <1>8 DEF Copy
      <4> QED BY <4>2, <2>2
    <3>3. Copy(c, k, n)'
      BY <1>8 DEF Copy
    <3> QED BY <3>1, <3>2, <3>3
  <2>5. \A l \in lost' : ~ Lost(c, l)'
    BY <2>2, <1>6, <1>3
  <2>6. OneOn(c)' /\ OneCopy(c)' /\ OneLost(c)' /\ Apart(c)'
    BY <2>3, <2>4, <2>5 DEF OneOn, OneCopy, OneLost, Apart
  <2>7. ~ Nowhere(c)'
    BY <2>4, <1>8 DEF Nowhere
  <2> QED BY <2>2, <2>6, <2>7, <1>7 DEF PlacedOnce
<1> QED BY <1>9, <1>10 DEF Placed


(* The copies behind the one that was sent move up by one. *)
LEMMA ShiftedPlaces ==
    ASSUME NEW d \in Clients, NEW k \in Coordinators, PlacedOnce(d),
           \A s \in Servers : On(d, s)' <=> On(d, s),
           \A j \in Coordinators \ {k}, i \in Nat : Copy(d, j, i)' <=> Copy(d, j, i),
           \A i \in Nat : Copy(d, k, i)' <=> Copy(d, k, i + 1),
           ~ Copy(d, k, 0),
           \A l : Lost(d, l)' <=> Lost(d, l),
           Uncalled(d)' <=> Uncalled(d)
    PROVE  PlacedOnce(d)'
<1>0. \A i \in Nat : i + 1 \in Nat
  OBVIOUS
<1>1. OneOn(d)'
  BY DEF PlacedOnce, OneOn
<1>2. OneCopy(d)'
  <2> SUFFICES ASSUME NEW j \in Coordinators, NEW g \in Coordinators, NEW h \in Nat, NEW i \in Nat,
                      Copy(d, j, h)', Copy(d, g, i)'
               PROVE  j = g /\ h = i
    BY DEF OneCopy
  <2>1. PICK h1 \in Nat, i1 \in Nat :
          /\ Copy(d, j, h1) /\ Copy(d, g, i1)
          /\ h1 = (IF j = k THEN h + 1 ELSE h) /\ i1 = (IF g = k THEN i + 1 ELSE i)
    BY <1>0
  <2>2. j = g /\ h1 = i1
    BY <2>1 DEF PlacedOnce, OneCopy
  <2> QED BY <2>1, <2>2
<1>3. \A l \in lost' : Lost(d, l)' => l \in lost
  BY DEF Lost
<1>4. OneLost(d)'
  BY <1>3 DEF PlacedOnce, OneLost
<1>5. \A j \in Coordinators, i \in Nat : Copy(d, j, i)' => \E h \in Nat : Copy(d, j, h)
  BY <1>0
<1>6. Apart(d)'
  BY <1>3, <1>5 DEF PlacedOnce, Apart
<1>7. ASSUME NEW j \in Coordinators, NEW i \in Nat, Copy(d, j, i)
      PROVE  \E h \in Nat : Copy(d, j, h)'
  <2>1. CASE j # k
    BY <2>1, <1>7
  <2>2. CASE j = k
    <3>1. i - 1 \in Nat /\ (i - 1) + 1 = i
      BY <2>2, <1>7
    <3> QED BY <3>1, <2>2, <1>7
  <2> QED BY <2>1, <2>2
<1>8. Nowhere(d)' <=> Nowhere(d)
  BY <1>3, <1>5, <1>7 DEF Nowhere, Lost
<1> QED BY <1>1, <1>2, <1>4, <1>6, <1>8 DEF PlacedOnce

(* A copy is subscribed at the destination, or refused. *)
LEMMA SendPlaces ==
    ASSUME Shapes, Stores, Carry, Placed, NEW k \in Coordinators, SendSub(k)
    PROVE  Placed'
<1>0. PICK c, q, dst : c = Head(move[k].spsw) /\ q = move[k].spsw /\ dst = move[k].dst
  BY Zenon
<1>1. q \in Seq(Clients) /\ q # <<>> /\ c \in Clients
  BY <1>0 DEF SendSub, Carry, Carries
<1>2. /\ DOMAIN move' = Coordinators /\ move'[k].spsw = Tail(q)
      /\ \A j \in Coordinators \ {k} : move'[j] = move[j]
  BY <1>0 DEF SendSub, Shapes, MoveFields
<1>3. /\ Len(q) \in Nat /\ 1 \in 1 .. Len(q) /\ q[1] = c
      /\ Len(move'[k].spsw) = Len(q) - 1
      /\ \A i \in 1 .. Len(q) - 1 : move'[k].spsw[i] = q[i + 1]
  BY <1>0, <1>1, <1>2
<1>4. \A d \in Clients : EventOf[d] \in Events
  BY ClientAssumption
<1>5. \A d : Uncalled(d)' <=> Uncalled(d)
  <2>1. \A d \in NewClients : call'[ByClient(d)] = call[ByClient(d)]
    BY CallersApart DEF SendSub, Insert, Shapes
  <2> QED BY <2>1 DEF Uncalled
<1>6. PlacedOnce(c) /\ Copy(c, k, 1)
  BY <1>0, <1>1, <1>3 DEF Placed, Copy
<1>7. /\ \A j \in Coordinators, i \in Nat : Copy(c, j, i) => j = k /\ i = 1
      /\ \A s \in Servers : ~ On(c, s)
      /\ \A l \in lost : ~ Lost(c, l)
      /\ ~ Uncalled(c)
  BY <1>6 DEF PlacedOnce, OneCopy, Apart, Nowhere
<1>8. \A d, j, i : j \in Coordinators \ {k} => (Copy(d, j, i)' <=> Copy(d, j, i))
  BY <1>2 DEF Copy
<1>9. \A j \in Coordinators, i \in Nat : ~ Copy(c, j, i)'
  <2>1. ASSUME NEW i \in Nat, Copy(c, k, i)'
        PROVE  FALSE
    <3>1. i \in 1 .. Len(q) - 1 /\ q[i + 1] = c
      BY <2>1, <1>3 DEF Copy
    <3>2. Copy(c, k, i + 1) /\ i + 1 \in Nat /\ i + 1 # 1
      BY <3>1, <1>0, <1>3 DEF Copy
    <3> QED BY <3>2, <1>7
  <2>2. ASSUME NEW j \in Coordinators \ {k}, NEW i \in Nat, Copy(c, j, i)'
        PROVE  FALSE
    BY <2>2, <1>7, <1>8
  <2> QED BY <2>1, <2>2
<1>10. ASSUME NEW d \in Clients \ {c}
       PROVE  (\A i \in Nat : Copy(d, k, i)' <=> Copy(d, k, i + 1)) /\ ~ Copy(d, k, 0)
  <2>1. ASSUME NEW i \in Nat
        PROVE  Copy(d, k, i)' <=> Copy(d, k, i + 1)
    <3>1. Copy(d, k, i)' <=> (i \in 1 .. Len(q) - 1 /\ q[i + 1] = d)
      <4>1. Copy(d, k, i)' <=> (i \in 1 .. Len(move'[k].spsw) /\ move'[k].spsw[i] = d)
        BY DEF Copy
      <4> QED BY <4>1, <1>3
    <3>2. Copy(d, k, i + 1) <=> (i + 1 \in 1 .. Len(q) /\ q[i + 1] = d)
      BY <1>0 DEF Copy
    <3>3. i = 0 => q[i + 1] # d
      BY <1>3
    <3> QED BY <3>1, <3>2, <3>3, <1>3
  <2> QED BY <2>1, <1>3 DEF Copy
<1>11. CASE dst \in listening
  <2>1. /\ subtoClient' = [subtoClient EXCEPT ![dst][EventOf[c]] = @ \cup {c}] /\ lost' = lost
        /\ dst \in Servers
    BY <1>0, <1>11 DEF SendSub, Insert, Stores
  <2>2. \A t \in Servers, e \in Events : subtoClient'[t][e] =
          IF t = dst /\ e = EventOf[c] THEN subtoClient[t][e] \cup {c} ELSE subtoClient[t][e]
    <3>1. InsertedAt(c, dst)
      BY <1>1, <2>1, Inserted
    <3> QED BY <3>1 DEF InsertedAt
  <2>3. \A d, l : Lost(d, l)' <=> Lost(d, l)
    BY <2>1 DEF Lost
  <2>4. ASSUME NEW d \in Clients \ {c}
        PROVE  PlacedOnce(d)'
    <3>1. \A t \in Servers : On(d, t)' <=> On(d, t)
      BY <2>2, <1>4 DEF On
    <3> QED BY <3>1, <2>3, <1>5, <1>8, <1>10, ShiftedPlaces DEF Placed
  <2>5. PlacedOnce(c)'
    <3>1. \A t \in Servers : On(c, t)' <=> t = dst
      <4>1. EventOf[c] \in Events /\ \A t \in Servers : c \notin subtoClient[t][EventOf[c]]
        BY <1>1, <1>4, <1>7 DEF On
      <4>2. \A t \in Servers : c \in subtoClient'[t][EventOf[c]] <=> t = dst
        BY <4>1, <2>2
      <4> QED BY <4>2 DEF On
    <3>2. \A l \in lost' : ~ Lost(c, l)'
      BY <1>7, <2>1, <2>3
    <3>3. OneOn(c)' /\ OneCopy(c)' /\ OneLost(c)' /\ Apart(c)'
      BY <3>1, <3>2, <1>9 DEF OneOn, OneCopy, OneLost, Apart
    <3>4. ~ Nowhere(c)'
      BY <3>1, <2>1 DEF Nowhere
    <3> QED BY <3>3, <3>4, <1>5, <1>7 DEF PlacedOnce
  <2> QED BY <2>4, <2>5 DEF Placed
<1>12. CASE dst \notin listening
  <2>1. subtoClient' = subtoClient /\ lost' = lost \cup {<<c, k, dst>>}
    BY <1>0, <1>12 DEF SendSub
  <2>2. \A d, t : On(d, t)' <=> On(d, t)
    BY <2>1 DEF On
  <2>3. ASSUME NEW d \in Clients \ {c}
        PROVE  PlacedOnce(d)'
    <3>1. \A l : Lost(d, l)' <=> Lost(d, l)
      BY <2>1 DEF Lost
    <3> QED BY <3>1, <2>2, <1>5, <1>8, <1>10, ShiftedPlaces DEF Placed
  <2>4. PlacedOnce(c)'
    <3>1. \A l \in lost' : Lost(c, l)' <=> l = <<c, k, dst>>
      BY <2>1, <1>7 DEF Lost
    <3>2. \A t \in Servers : ~ On(c, t)'
      BY <2>2, <1>7
    <3>3. OneOn(c)' /\ OneCopy(c)' /\ OneLost(c)' /\ Apart(c)'
      BY <3>1, <3>2, <1>9 DEF OneOn, OneCopy, OneLost, Apart
    <3>4. ~ Nowhere(c)'
      BY <3>1, <2>1 DEF Nowhere
    <3> QED BY <3>3, <3>4, <1>5, <1>7 DEF PlacedOnce
  <2> QED BY <2>3, <2>4 DEF Placed
<1> QED BY <1>11, <1>12


LEMMA PlacedKept ==
    ASSUME Shapes, Stores, Carry, Placed, [Next]_vars
    PROVE  Placed'
<1>1. CASE UNCHANGED vars
  BY <1>1, Still DEF vars, serverVars
<1>2. CASE Wait
  BY <1>2, Still DEF Wait, vars, serverVars
<1>3. ASSUME NEW s \in Servers, Listen(s)
      PROVE  Placed'
  BY <1>3, Still DEF Listen, serverVars
<1>4. ASSUME NEW c \in NewClients, ClientSubscribe(c)
      PROVE  Placed'
  BY <1>4, SubscribePlaces
<1>5. ASSUME NEW k \in Callers, HandlerStep(k)
      PROVE  Placed'
  <2>1. call[k].pc # "none" /\ call'[k].pc # "none" /\ \A j \in Callers \ {k} : call'[j] = call[j]
    <3>1. CASE SubCount(k)
      BY <3>1 DEF SubCount, Shapes, CallFields
    <3>2. CASE SubRecord(k)
      BY <3>2 DEF SubRecord, Shapes, CallFields
    <3>3. CASE CallBroken(k)
      BY <3>3 DEF CallBroken, Shapes, CallFields
    <3> QED BY <1>5, <3>1, <3>2, <3>3 DEF HandlerStep
  <2>2. subtoClient' = subtoClient /\ lost' = lost /\ move' = move
    BY <1>5 DEF HandlerStep, SubCount, SubRecord, CallBroken, serverVars
  <2>3. \A c \in NewClients : (call'[ByClient(c)].pc = "none") <=> (call[ByClient(c)].pc = "none")
    BY <2>1, CallersApart
  <2> QED BY <2>2, <2>3, Still
<1>6. ASSUME NEW k \in Coordinators, CheckStep(k)
      PROVE  Placed'
  <2>1. subtoClient' = subtoClient /\ lost' = lost /\ call' = call
    BY <1>6 DEF CheckStep, Scan, getFreeNodeList, RemoveFiles, UpdateCluster, MakePlan,
         RedistributeByPlan, nodeAttach, ReadOwn, WriteOwn, serverVars
  <2>2. \A j \in Coordinators : move'[j].spsw = move[j].spsw
    <3>1. CASE RedistributeByPlan(k)
      <4>1. move[k].spsw = <<>>
        BY <3>1 DEF RedistributeByPlan, At, Carry, Carries, Moving
      <4>2. move'[k].spsw = <<>> /\ \A j \in Coordinators \ {k} : move'[j] = move[j]
        BY <3>1 DEF RedistributeByPlan, Shapes
      <4> QED BY <4>1, <4>2
    <3>2. CASE ~ RedistributeByPlan(k)
      BY <1>6, <3>2 DEF CheckStep, Scan, getFreeNodeList, RemoveFiles, UpdateCluster, MakePlan,
           nodeAttach, ReadOwn, WriteOwn
    <3> QED BY <3>1, <3>2
  <2> QED BY <2>1, <2>2, Still
<1>7. ASSUME NEW k \in Coordinators, MoveStep(k)
      PROVE  Placed'
  <2>1. CASE EraseSub(k)
    BY <2>1, ErasePlaces
  <2>2. CASE Advance(k)
    <3>1. \A j \in Coordinators : move'[j].spsw = move[j].spsw
      BY <2>2 DEF Advance, Shapes, MoveFields
    <3> QED BY <2>2, <3>1, Still DEF Advance, serverVars
  <2>3. CASE UseDangling(k)
    BY <2>3, Still DEF UseDangling, serverVars
  <2>4. CASE SendSub(k)
    BY <2>4, SendPlaces
  <2>5. CASE Moved(k)
    BY <2>5, Still DEF Moved, serverVars
  <2> QED BY <1>7, <2>1, <2>2, <2>3, <2>4, <2>5 DEF MoveStep
<1> QED BY <1>1, <1>2, <1>3, <1>4, <1>5, <1>6, <1>7 DEF Next

(* The settled clients are where they subscribed, the others nowhere. *)
LEMMA PlacedInit == Init => Stores /\ Carry /\ Placed
<1> SUFFICES ASSUME Init
             PROVE  Stores /\ Carry /\ Placed
  OBVIOUS
<1>1. Stores
  <2>1. subtoClient = [s \in Servers |-> [e \in Events |-> {c \in Settled[s] : EventOf[c] = e}]]
    BY DEF Init
  <2>2. \A s \in Servers : Settled[s] \subseteq Clients
    BY ClientAssumption
  <2>3. \A s \in Servers : [e \in Events |-> {c \in Settled[s] : EventOf[c] = e}] \in [Events -> SUBSET Clients]
    BY <2>2
  <2>4. subtoClient \in [Servers -> [Events -> SUBSET Clients]]
    BY <2>1, <2>3
  <2>5. \A s \in Servers, e \in Events : subtoClient[s][e] = {c \in Settled[s] : EventOf[c] = e}
    BY <2>1
  <2>6. listening \subseteq Servers
    BY DEF Init
  <2> QED BY <2>4, <2>5, <2>6 DEF Stores
<1>2. Carry
  <2>1. \A k \in Coordinators : /\ check[k].pc = "sleep" /\ check[k].todo = {}
                                 /\ move[k].spsw = <<>>
    BY NewRecords DEF Init
  <2>2. <<>> \in Seq(Clients)
    OBVIOUS
  <2> QED BY <2>1, <2>2 DEF Carry, Carries, Moving
<1>3. Placed
  <2> SUFFICES ASSUME NEW c \in Clients
               PROVE  PlacedOnce(c)
    BY DEF Placed
  <2>1. \A s \in Servers : On(c, s) <=> c \in Settled[s]
    <3>1. EventOf[c] \in Events
      BY ClientAssumption
    <3>2. \A s \in Servers : subtoClient[s][EventOf[c]] = {d \in Settled[s] : EventOf[d] = EventOf[c]}
      BY <3>1 DEF Init
    <3> QED BY <3>2 DEF On
  <2>2. \A k \in Coordinators, i \in Nat : ~ Copy(c, k, i)
    <3>1. \A k \in Coordinators : move[k].spsw = <<>>
      BY NewRecords DEF Init
    <3> QED BY <3>1 DEF Copy
  <2>3. lost = {}
    BY DEF Init
  <2>4. Uncalled(c) <=> c \in NewClients
    <3>1. \A k \in Callers : call[k] = NoCall
      BY DEF Init
    <3> QED BY <3>1, NewRecords, CallersApart DEF Uncalled
  <2>5. c \in NewClients <=> \A s \in Servers : c \notin Settled[s]
    BY DEF NewClients
  <2>6. OneOn(c) /\ OneCopy(c) /\ OneLost(c) /\ Apart(c)
    BY <2>1, <2>2, <2>3, ClientAssumption DEF OneOn, OneCopy, OneLost, Apart
  <2>7. Nowhere(c) <=> \A s \in Servers : c \notin Settled[s]
    BY <2>1, <2>2, <2>3 DEF Nowhere
  <2> QED BY <2>4, <2>5, <2>6, <2>7 DEF PlacedOnce
<1> QED BY <1>1, <1>2, <1>3

(* A set of at most one element has 0 or 1 of them. *)
LEMMA AtMostOne ==
    ASSUME NEW S, \A a, b \in S : a = b
    PROVE  Cardinality(S) = IF S = {} THEN 0 ELSE 1
<1>1. CASE S = {}
  BY <1>1, FS_EmptySet
<1>2. CASE S # {}
  <2>1. PICK a : a \in S
    BY <1>2
  <2>2. S = {a}
    BY <2>1
  <2> QED BY <1>2, <2>2, FS_Singleton
<1> QED BY <1>1, <1>2

LEMMA PlacedIsOnePlace ==
    ASSUME Carry, Placed
    PROVE  OnePlace
<1> SUFFICES ASSUME NEW c \in Clients, ~ Uncalled(c)
             PROVE  Cardinality(OnServers(c)) + Cardinality(InTransit(c)) + Cardinality(Refused(c)) = 1
  BY DEF OnePlace, Uncalled
<1>0. PlacedOnce(c) /\ ~ Nowhere(c)
  BY DEF Placed, PlacedOnce
<1>1. \A s : s \in OnServers(c) <=> s \in Servers /\ On(c, s)
  BY DEF OnServers, On
<1>2. \A l : l \in Refused(c) <=> l \in lost /\ Lost(c, l)
  BY DEF Refused, Lost
<1>3. \A p : p \in InTransit(c) <=> \E k \in Coordinators, i \in Nat : p = <<k, i>> /\ Copy(c, k, i)
  <2>1. \A k \in Coordinators : DOMAIN move[k].spsw = 1 .. Len(move[k].spsw)
                                  /\ Len(move[k].spsw) \in Nat
    BY DEF Carry, Carries
  <2>2. \A p : p \in InTransit(c) <=>
          \E k \in Coordinators : \E i \in DOMAIN move[k].spsw : p = <<k, i>> /\ move[k].spsw[i] = c
    BY DEF InTransit
  <2> QED BY <2>1, <2>2 DEF Copy
<1>4. \A a, b \in OnServers(c) : a = b
  BY <1>0, <1>1 DEF PlacedOnce, OneOn
<1>5. \A a, b \in InTransit(c) : a = b
  BY <1>0, <1>3 DEF PlacedOnce, OneCopy
<1>6. \A a, b \in Refused(c) : a = b
  BY <1>0, <1>2 DEF PlacedOnce, OneLost
<1>7. /\ OnServers(c) = {} \/ InTransit(c) = {}
      /\ OnServers(c) = {} \/ Refused(c) = {}
      /\ InTransit(c) = {} \/ Refused(c) = {}
  BY <1>0, <1>1, <1>2, <1>3 DEF PlacedOnce, Apart
<1>8. OnServers(c) # {} \/ InTransit(c) # {} \/ Refused(c) # {}
  BY <1>0, <1>1, <1>2, <1>3 DEF Nowhere
<1>9. /\ Cardinality(OnServers(c)) = IF OnServers(c) = {} THEN 0 ELSE 1
      /\ Cardinality(InTransit(c)) = IF InTransit(c) = {} THEN 0 ELSE 1
      /\ Cardinality(Refused(c)) = IF Refused(c) = {} THEN 0 ELSE 1
  BY <1>4, <1>5, <1>6, AtMostOne
<1> QED BY <1>7, <1>8, <1>9

(* RedistributeSub erases subscriptions in one loop and subscribes the     *)
(* copies in another, while clients subscribe and other coordinators move  *)
(* theirs: whatever the plans and however the calls interleave, the        *)
(* subscription of a client that has called is in exactly one place, on a  *)
(* server, among the copies still to be sent, or refused by the server it  *)
(* was sent to.                                                            *)
THEOREM SubscriptionInOnePlace == Spec => []OnePlace
<1>1. Init => Shapes /\ Stores /\ Carry /\ Placed
  BY ShapesInit, PlacedInit
<1>2. (Shapes /\ Stores /\ Carry /\ Placed) /\ [Next]_vars => (Shapes /\ Stores /\ Carry /\ Placed)'
  <2> SUFFICES ASSUME Shapes, Stores, Carry, Placed, [Next]_vars
               PROVE  Shapes' /\ Stores' /\ Carry' /\ Placed'
    OBVIOUS
  <2> QED BY ShapesKept, FiledKept, PlacedKept
<1>3. Shapes /\ Stores /\ Carry /\ Placed => OnePlace
  BY PlacedIsOnePlace
<1> QED BY <1>1, <1>2, <1>3, PTL DEF Spec


-----------------------------------------------------------------------------
(* Losses.  A plan names only servers of the record it is made from, and a *)
(* server is in the record of a check because it reported, which only one  *)
(* that is up can, or because UpdateCluster was called at it.              *)
Plans == INSTANCE MatchAndPlanProofs
           WITH MaxCoord <- 0, MaxServers <- 0, MaxNumber <- 0, sub <- None, pub <- None, rec <- None

(* The servers a check of coordinator k can send to: k, those that came up *)
(* and stay up, and those it was warned of.                                *)
KnownTo(k) ==
    {s \in Servers : s = k \/ (s \notin Coordinators /\ (s \in listening \/ <<k, s>> \in warned))}
KnownPlans(k) == [srcAddr : KnownTo(k), destAddr : KnownTo(k), moveNumber : Int]

(* Only the crash of its check takes a coordinator down; what is taken     *)
(* from the pool was in it.                                                *)
Lists ==
    /\ \A k \in Coordinators : k \in listening \/ check[k].pc = "crashed"
    /\ FreePool \subseteq FreeServers
    /\ \A k \in Coordinators : check[k].list \subseteq FreeServers

(* A server reports to a coordinator, a coordinator to itself. *)
Directories ==
    /\ GM_CLUSTERDIR \in [Servers -> Coordinators]
    /\ coordinatorClients \in [Servers -> Seq(Coordinators)]
    /\ \A c \in Coordinators :
          GM_CLUSTERDIR[c] = c /\ (coordinatorClients[c] = <<>> \/ coordinatorClients[c] = <<c>>)

Reports(k) ==
    /\ call[k].pc \in {"count", "record"} => call[k].at \in Servers /\ call[k].client \in Clients
    /\ call[k].pc = "record" => call[k].num \in Nat /\ coordinatorClients[call[k].at] # <<>>
Reporting == \A k \in Callers : Reports(k)

(* The records hold numbers of known servers. *)
Counts(k, r) == IsFiniteSet(DOMAIN r) /\ DOMAIN r \subseteq KnownTo(k) /\ r \in [DOMAIN r -> Nat]
Counted ==
    /\ DOMAIN eventRecordMap = Coordinators
    /\ \A k \in Coordinators : DOMAIN eventRecordMap[k] = Events
    /\ \A k \in Coordinators, e \in Events : Counts(k, eventRecordMap[k][e])
    /\ \A k \in Coordinators : check[k].newSubTime \in Nat

(* So the plans and the moves are between known servers. *)
NamesKnown(k) ==
    /\ check[k].plans \in Seq(KnownPlans(k))
    /\ check[k].pc \in {"erase", "advance", "send", "own", "write"} =>
          move[k].src \in KnownTo(k) /\ move[k].dst \in KnownTo(k)
Named == \A k \in Coordinators : NamesKnown(k)

Foreseen == \A l \in lost : <<l[2], l[3]>> \in warned


(* A server that is no coordinator stays up; a warning stays. *)
Lasting ==
    /\ \A s \in listening : s \notin Coordinators => s \in listening'
    /\ warned \subseteq warned'

LEMMA StepsLast ==
    ASSUME [Next]_vars
    PROVE  Lasting
<1>1. CASE UNCHANGED vars
  BY <1>1 DEF vars, Lasting
<1>2. CASE Wait
  BY <1>2 DEF Wait, vars, Lasting
<1>3. ASSUME NEW s \in Servers, Listen(s) PROVE Lasting
  BY <1>3 DEF Listen, Lasting
<1>4. ASSUME NEW c \in NewClients, ClientSubscribe(c) PROVE Lasting
  BY <1>4 DEF ClientSubscribe, Lasting
<1>5. ASSUME NEW k \in Callers, HandlerStep(k) PROVE Lasting
  BY <1>5 DEF HandlerStep, SubCount, SubRecord, CallBroken, Lasting
<1>6. ASSUME NEW k \in Coordinators, CheckStep(k) PROVE Lasting
  <2>1. CASE MakePlan(k)
    BY <2>1 DEF MakePlan, Lasting
  <2>2. ASSUME NEW s \in Servers, UpdateCluster(k, s) PROVE Lasting
    BY <2>2 DEF UpdateCluster, Lasting
  <2>3. CASE Scan(k) \/ getFreeNodeList(k) \/ RemoveFiles(k) \/ RedistributeByPlan(k) \/ nodeAttach(k)
               \/ ReadOwn(k) \/ WriteOwn(k)
    BY <2>3 DEF Scan, getFreeNodeList, RemoveFiles, RedistributeByPlan, nodeAttach, ReadOwn, WriteOwn,
         Lasting
  <2> QED BY <1>6, <2>1, <2>2, <2>3 DEF CheckStep
<1>7. ASSUME NEW k \in Coordinators, MoveStep(k) PROVE Lasting
  BY <1>7 DEF MoveStep, EraseSub, Advance, UseDangling, SendSub, Moved, Lasting
<1> QED BY <1>1, <1>2, <1>3, <1>4, <1>5, <1>6, <1>7 DEF Next

LEMMA KnownGrows ==
    ASSUME Lasting
    PROVE  \A k : \A s \in KnownTo(k) : s \in KnownTo(k)'
BY DEF Lasting, KnownTo

-----------------------------------------------------------------------------
(* One check moves on, the coordinators that are up stay up. *)
LEMMA ListsStep ==
    ASSUME Lists, NEW k \in Coordinators, Others(k), listening' = listening, FreePool' \subseteq FreePool,
           check[k].pc # "crashed" \/ check'[k].pc = "crashed", check'[k].list \subseteq FreeServers
    PROVE  Lists'
BY DEF Lists, Others

LEMMA ListsKept ==
    ASSUME Shapes, Lists, [Next]_vars
    PROVE  Lists'
<1>1. CASE UNCHANGED vars
  BY <1>1 DEF vars, poolVars, Lists
<1>2. CASE Wait
  BY <1>2 DEF Wait, vars, poolVars, Lists
<1>3. ASSUME NEW s \in Servers, Listen(s) PROVE Lists'
  BY <1>3 DEF Listen, poolVars, Lists
<1>4. ASSUME NEW c \in NewClients, ClientSubscribe(c) PROVE Lists'
  BY <1>4 DEF ClientSubscribe, poolVars, Lists
<1>5. ASSUME NEW k \in Callers, HandlerStep(k) PROVE Lists'
  BY <1>5 DEF HandlerStep, SubCount, SubRecord, CallBroken, poolVars, Lists
<1>6. ASSUME NEW k \in Coordinators, CheckStep(k) PROVE Lists'
  <2>0. check[k].list \subseteq FreeServers
    BY DEF Lists
  <2>1. CASE Scan(k) \/ nodeAttach(k)
    <3>1. PICK T : check' = [check EXCEPT ![k] = NextEvent(k, T)]
      BY <2>1 DEF Scan, nodeAttach
    <3>2. NextEvent(k, T).list = {}
      BY DEF NextEvent, NoCheck
    <3>3. Others(k) /\ check'[k].list = {}
      BY <3>1, <3>2 DEF Others, Shapes
    <3>4. check[k].pc # "crashed" /\ listening' = listening /\ FreePool' = FreePool
      BY <2>1 DEF Scan, nodeAttach, At, poolVars
    <3> QED BY <3>3, <3>4, ListsStep
  <2>2. CASE getFreeNodeList(k)
    <3>1. PICK list, n :
            /\ list \subseteq FreePool
            /\ check' = [check EXCEPT ![k].pc = "remove", ![k].list = list, ![k].taken = list,
                                      ![k].serverNumber = n]
      BY <2>2 DEF getFreeNodeList, kSubset
    <3>2. Others(k) /\ check'[k].list = list
      BY <3>1 DEF Shapes, Others, CheckFields
    <3>3. /\ check[k].pc # "crashed" /\ listening' = listening /\ FreePool' = FreePool
          /\ list \subseteq FreeServers
      BY <2>2, <3>1 DEF getFreeNodeList, At, Lists
    <3> QED BY <3>2, <3>3, ListsStep
  <2>3. CASE RemoveFiles(k)
    <3>1. Others(k) /\ check'[k].list = check[k].list
      BY <2>3, SetPc DEF RemoveFiles
    <3> QED BY <2>0, <2>3, <3>1, ListsStep DEF RemoveFiles, At
  <2>4. ASSUME NEW s \in Servers, UpdateCluster(k, s) PROVE Lists'
    <3>1. Others(k) /\ check'[k].list = check[k].list \ {s}
      BY <2>4 DEF UpdateCluster, Shapes, Others, CheckFields
    <3> QED BY <2>0, <2>4, <3>1, ListsStep DEF UpdateCluster, At, poolVars
  <2>5. CASE MakePlan(k)
    <3>1. Others(k) /\ check'[k].list = check[k].list
      BY <2>5 DEF MakePlan, Shapes, Others, CheckFields
    <3>2. listening' = listening \/ (listening' = listening \ {k} /\ check'[k].pc = "crashed")
      BY <2>5 DEF MakePlan, Shapes, CheckFields
    <3>3. check[k].pc = "update" /\ FreePool' = FreePool
      BY <2>5 DEF MakePlan, At, poolVars
    <3> QED BY <2>0, <3>1, <3>2, <3>3 DEF Lists, Others
  <2>6. CASE RedistributeByPlan(k)
    <3>1. Others(k) /\ check'[k].list = check[k].list
      BY <2>6 DEF RedistributeByPlan, Shapes, Others, CheckFields
    <3> QED BY <2>0, <2>6, <3>1, ListsStep DEF RedistributeByPlan, At, poolVars
  <2>7. CASE ReadOwn(k)
    <3>1. Others(k) /\ check'[k].list = check[k].list
      BY <2>7 DEF ReadOwn, Shapes, Others, CheckFields
    <3> QED BY <2>0, <2>7, <3>1, ListsStep DEF ReadOwn, At, poolVars
  <2>8. CASE WriteOwn(k)
    <3>1. Others(k) /\ check'[k].list = check[k].list
      BY <2>8, SetPc DEF WriteOwn
    <3> QED BY <2>0, <2>8, <3>1, ListsStep DEF WriteOwn, At, poolVars
  <2> QED BY <1>6, <2>1, <2>2, <2>3, <2>4, <2>5, <2>6, <2>7, <2>8 DEF CheckStep
<1>7. ASSUME NEW k \in Coordinators, MoveStep(k) PROVE Lists'
  <2>0. check[k].list \subseteq FreeServers
    BY DEF Lists
  <2>1. Others(k) /\ check'[k].list = check[k].list
    <3>1. CASE EraseSub(k)
      BY <3>1, SetPc DEF EraseSub
    <3>2. CASE Advance(k)
      BY <3>2, SetPc DEF Advance
    <3>3. CASE UseDangling(k)
      BY <3>3, SetPc DEF UseDangling
    <3>4. CASE SendSub(k)
      BY <3>4 DEF SendSub, Others, Shapes
    <3>5. CASE Moved(k)
      BY <3>5, SetPc DEF Moved
    <3> QED BY <1>7, <3>1, <3>2, <3>3, <3>4, <3>5 DEF MoveStep
  <2>2. check[k].pc # "crashed" /\ listening' = listening /\ FreePool' = FreePool
    BY <1>7 DEF MoveStep, EraseSub, Advance, UseDangling, SendSub, Moved, At, poolVars
  <2> QED BY <2>0, <2>1, <2>2, ListsStep
<1> QED BY <1>1, <1>2, <1>3, <1>4, <1>5, <1>6, <1>7 DEF Next


-----------------------------------------------------------------------------
(* The entry of one server changes, not to nothing. *)
LEMMA DirectoriesStep ==
    ASSUME Directories, NEW s \in Servers, NEW q \in Seq(Coordinators), q # <<>>, NEW d \in Coordinators,
           s \in Coordinators => d = s /\ q = <<s>>,
           coordinatorClients' = [coordinatorClients EXCEPT ![s] = q],
           GM_CLUSTERDIR' = [GM_CLUSTERDIR EXCEPT ![s] = d]
    PROVE  /\ Directories'
           /\ \A t \in Servers : coordinatorClients[t] # <<>> => coordinatorClients'[t] # <<>>
           /\ coordinatorClients'[s] # <<>>
<1>0. Coordinators \subseteq Servers
  BY ServerAssumption
<1>1. /\ GM_CLUSTERDIR' \in [Servers -> Coordinators]
      /\ coordinatorClients' \in [Servers -> Seq(Coordinators)]
  BY DEF Directories
<1>2. \A t \in Servers : /\ coordinatorClients'[t] = IF t = s THEN q ELSE coordinatorClients[t]
                         /\ GM_CLUSTERDIR'[t] = IF t = s THEN d ELSE GM_CLUSTERDIR[t]
  BY DEF Directories
<1>3. ASSUME NEW c \in Coordinators
      PROVE  GM_CLUSTERDIR'[c] = c /\ (coordinatorClients'[c] = <<>> \/ coordinatorClients'[c] = <<c>>)
  <2>1. CASE c = s
    BY <1>2, <2>1
  <2>2. CASE c # s
    <3>1. c \in Servers /\ coordinatorClients'[c] = coordinatorClients[c] /\ GM_CLUSTERDIR'[c] = GM_CLUSTERDIR[c]
      BY <1>0, <1>2, <2>2
    <3> QED BY <3>1 DEF Directories
  <2> QED BY <2>1, <2>2
<1>4. Directories'
  BY <1>1, <1>3 DEF Directories
<1> QED BY <1>2, <1>4

(* Once a server knows a coordinator it always knows one. *)
KeepsKnowing == \A s \in Servers : coordinatorClients[s] # <<>> => coordinatorClients'[s] # <<>>

LEMMA DirectoriesSame ==
    ASSUME Directories, coordinatorClients' = coordinatorClients, GM_CLUSTERDIR' = GM_CLUSTERDIR
    PROVE  Directories' /\ KeepsKnowing
BY DEF Directories, KeepsKnowing

(* SubCount adds a coordinator when none is known. *)
LEMMA CountDirectories ==
    ASSUME Directories, NEW s \in Servers, GM_CLUSTERDIR' = GM_CLUSTERDIR,
           coordinatorClients' = [coordinatorClients EXCEPT ![s] =
                IF @ = <<>> THEN <<GM_CLUSTERDIR[s]>> ELSE @]
    PROVE  Directories' /\ KeepsKnowing /\ coordinatorClients'[s] # <<>>
<1> DEFINE d == GM_CLUSTERDIR[s]
           q == IF coordinatorClients[s] = <<>> THEN <<d>> ELSE coordinatorClients[s]
<1>1. d \in Coordinators /\ (s \in Coordinators => d = s)
  BY DEF Directories
<1>2. <<d>> \in Seq(Coordinators) /\ <<d>> # <<>>
  BY <1>1
<1>3. q \in Seq(Coordinators) /\ q # <<>>
  BY <1>2 DEF Directories
<1>4. s \in Coordinators => q = <<s>>
  BY <1>1 DEF Directories
<1>5. coordinatorClients' = [coordinatorClients EXCEPT ![s] = q]
  OBVIOUS
<1>6. GM_CLUSTERDIR' = [GM_CLUSTERDIR EXCEPT ![s] = d]
  BY DEF Directories
<1> HIDE DEF d, q
<1> QED BY <1>1, <1>3, <1>4, <1>5, <1>6, DirectoriesStep DEF KeepsKnowing

LEMMA DirectoriesKept ==
    ASSUME Shapes, Lists, Directories, Reporting, [Next]_vars
    PROVE  Directories' /\ KeepsKnowing
<1>1. CASE UNCHANGED vars
  BY <1>1, DirectoriesSame DEF vars, serverVars
<1>2. CASE Wait
  BY <1>2, DirectoriesSame DEF Wait, vars, serverVars
<1>3. ASSUME NEW s \in Servers, Listen(s) PROVE Directories' /\ KeepsKnowing
  BY <1>3, DirectoriesSame DEF Listen, serverVars
<1>4. ASSUME NEW c \in NewClients, ClientSubscribe(c) PROVE Directories' /\ KeepsKnowing
  BY <1>4, DirectoriesSame DEF ClientSubscribe
<1>5. ASSUME NEW k \in Callers, HandlerStep(k) PROVE Directories' /\ KeepsKnowing
  <2>1. CASE SubCount(k)
    <3>1. call[k].at \in Servers
      BY <2>1 DEF SubCount, Reporting, Reports
    <3> QED BY <2>1, <3>1, CountDirectories DEF SubCount
  <2>2. CASE SubRecord(k) \/ CallBroken(k)
    BY <2>2, DirectoriesSame DEF SubRecord, CallBroken, serverVars
  <2> QED BY <1>5, <2>1, <2>2 DEF HandlerStep
<1>6. ASSUME NEW k \in Coordinators, CheckStep(k) PROVE Directories' /\ KeepsKnowing
  <2>1. ASSUME NEW s \in Servers, UpdateCluster(k, s) PROVE Directories' /\ KeepsKnowing
    <3>1. s \notin Coordinators
      <4>1. s \in FreeServers
        BY <2>1 DEF UpdateCluster, Lists
      <4> QED BY <4>1, ServerAssumption
    <3>2. CASE s \in listening
      <4> DEFINE q == Append(coordinatorClients[s], k)
      <4>1. q \in Seq(Coordinators) /\ q # <<>>
        <5>1. coordinatorClients[s] \in Seq(Coordinators)
          BY DEF Directories
        <5> QED BY <5>1
      <4>2. /\ coordinatorClients' = [coordinatorClients EXCEPT ![s] = q]
            /\ GM_CLUSTERDIR' = [GM_CLUSTERDIR EXCEPT ![s] = k]
        BY <2>1, <3>2 DEF UpdateCluster
      <4> HIDE DEF q
      <4> QED BY <3>1, <4>1, <4>2, DirectoriesStep DEF KeepsKnowing
    <3>3. CASE s \notin listening
      BY <2>1, <3>3, DirectoriesSame DEF UpdateCluster
    <3> QED BY <3>2, <3>3
  <2>2. CASE Scan(k) \/ getFreeNodeList(k) \/ RemoveFiles(k) \/ MakePlan(k) \/ RedistributeByPlan(k)
               \/ nodeAttach(k) \/ ReadOwn(k) \/ WriteOwn(k)
    <3>1. coordinatorClients' = coordinatorClients /\ GM_CLUSTERDIR' = GM_CLUSTERDIR
      BY <2>2 DEF Scan, getFreeNodeList, RemoveFiles, MakePlan, RedistributeByPlan, nodeAttach, ReadOwn,
           WriteOwn, serverVars
    <3> QED BY <3>1, DirectoriesSame
  <2> QED BY <1>6, <2>1, <2>2 DEF CheckStep
<1>7. ASSUME NEW k \in Coordinators, MoveStep(k) PROVE Directories' /\ KeepsKnowing
  <2>1. coordinatorClients' = coordinatorClients /\ GM_CLUSTERDIR' = GM_CLUSTERDIR
    BY <1>7 DEF MoveStep, EraseSub, Advance, UseDangling, SendSub, Moved, serverVars
  <2> QED BY <2>1, DirectoriesSame
<1> QED BY <1>1, <1>2, <1>3, <1>4, <1>5, <1>6, <1>7 DEF Next

-----------------------------------------------------------------------------
(* A handler's report, and that of every other handler. *)
LEMMA ReportingSame ==
    ASSUME Reporting, KeepsKnowing, call' = call
    PROVE  Reporting'
BY DEF Reporting, Reports, KeepsKnowing

LEMMA ReportingStep ==
    ASSUME Reporting, KeepsKnowing, NEW k \in Callers,
           \A j \in Callers \ {k} : call'[j] = call[j], Reports(k)'
    PROVE  Reporting'
BY DEF Reporting, Reports, KeepsKnowing

LEMMA InsertReports ==
    ASSUME Shapes, Stores, Reporting, KeepsKnowing, NEW k \in Callers, NEW c \in Clients, NEW s \in listening,
           Insert(k, c, s)
    PROVE  Reporting'
<1>1. call' = [call EXCEPT ![k] = Call("count", c, s, 0)]
  BY DEF Insert
<1>2. /\ Call("count", c, s, 0).pc = "count" /\ Call("count", c, s, 0).at = s
      /\ Call("count", c, s, 0).client = c
  BY DEF Call
<1>3. call'[k] = Call("count", c, s, 0) /\ \A j \in Callers \ {k} : call'[j] = call[j]
  BY <1>1 DEF Shapes
<1>4. s \in Servers
  BY DEF Stores
<1>5. Reports(k)'
  BY <1>2, <1>3, <1>4 DEF Reports
<1> QED BY <1>3, <1>5, ReportingStep

(* Sets of clients are finite. *)
LEMMA ClientsCounted ==
    ASSUME NEW S \in SUBSET Clients
    PROVE  Cardinality(S) \in Nat
BY ClientAssumption, FS_Subset, FS_CardinalityType

LEMMA ReportingKept ==
    ASSUME Shapes, Stores, Carry, Directories, Reporting, KeepsKnowing, [Next]_vars
    PROVE  Reporting'
<1>1. CASE UNCHANGED vars
  BY <1>1, ReportingSame DEF vars
<1>2. CASE Wait
  BY <1>2, ReportingSame DEF Wait, vars
<1>3. ASSUME NEW s \in Servers, Listen(s) PROVE Reporting'
  BY <1>3, ReportingSame DEF Listen
<1>4. ASSUME NEW c \in NewClients, ClientSubscribe(c) PROVE Reporting'
  <2>1. ByClient(c) \in Callers /\ c \in Clients
    BY NewClientsAreClients DEF Callers
  <2> QED BY <1>4, <2>1, InsertReports DEF ClientSubscribe
<1>5. ASSUME NEW k \in Callers, HandlerStep(k) PROVE Reporting'
  <2>1. CASE SubCount(k)
    <3>1. PICK s \in Servers, c \in Clients : s = call[k].at /\ c = call[k].client
      BY <2>1 DEF SubCount, Reporting, Reports
    <3> DEFINE n == Cardinality(subtoClient[s][EventOf[c]])
    <3>2. n \in Nat
      <4>1. subtoClient[s][EventOf[c]] \in SUBSET Clients
        BY ClientAssumption DEF Stores
      <4> QED BY <4>1, ClientsCounted
    <3>3. coordinatorClients'[s] # <<>>
      <4>1. /\ coordinatorClients' = [coordinatorClients EXCEPT ![s] =
                  IF @ = <<>> THEN <<GM_CLUSTERDIR[s]>> ELSE @]
            /\ GM_CLUSTERDIR' = GM_CLUSTERDIR
        BY <2>1, <3>1 DEF SubCount
      <4> QED BY <4>1, CountDirectories
    <3>4. call' = [call EXCEPT ![k].pc = "record", ![k].num = n]
      BY <2>1, <3>1 DEF SubCount
    <3> HIDE DEF n
    <3>5. /\ call'[k].pc = "record" /\ call'[k].num = n /\ call'[k].at = s /\ call'[k].client = c
          /\ \A j \in Callers \ {k} : call'[j] = call[j]
      BY <3>1, <3>4 DEF Shapes, CallFields
    <3>6. Reports(k)'
      BY <3>2, <3>3, <3>5 DEF Reports
    <3> QED BY <3>5, <3>6, ReportingStep
  <2>2. CASE SubRecord(k) \/ CallBroken(k)
    <3>1. call' = [call EXCEPT ![k].pc = "done"]
      BY <2>2 DEF SubRecord, CallBroken
    <3>2. call'[k].pc = "done" /\ \A j \in Callers \ {k} : call'[j] = call[j]
      BY <3>1 DEF Shapes, CallFields
    <3>3. Reports(k)'
      BY <3>2 DEF Reports
    <3> QED BY <3>2, <3>3, ReportingStep
  <2> QED BY <1>5, <2>1, <2>2 DEF HandlerStep
<1>6. ASSUME NEW k \in Coordinators, CheckStep(k) PROVE Reporting'
  <2>1. call' = call
    BY <1>6 DEF CheckStep, Scan, getFreeNodeList, RemoveFiles, UpdateCluster, MakePlan,
         RedistributeByPlan, nodeAttach, ReadOwn, WriteOwn
  <2> QED BY <2>1, ReportingSame
<1>7. ASSUME NEW k \in Coordinators, MoveStep(k) PROVE Reporting'
  <2>1. CASE SendSub(k)
    <3>1. ByMove(k) \in Callers /\ Head(move[k].spsw) \in Clients
      <4>1. move[k].spsw \in Seq(Clients) /\ move[k].spsw # <<>>
        BY <2>1 DEF SendSub, Carry, Carries
      <4> QED BY <4>1 DEF Callers
    <3>2. CASE move[k].dst \in listening
      <4>1. Insert(ByMove(k), Head(move[k].spsw), move[k].dst)
        BY <2>1, <3>2 DEF SendSub
      <4> QED BY <3>1, <3>2, <4>1, InsertReports
    <3>3. CASE move[k].dst \notin listening
      BY <2>1, <3>3, ReportingSame DEF SendSub
    <3> QED BY <3>2, <3>3
  <2>2. CASE EraseSub(k) \/ Advance(k) \/ UseDangling(k) \/ Moved(k)
    <3>1. call' = call
      BY <2>2 DEF EraseSub, Advance, UseDangling, Moved
    <3> QED BY <3>1, ReportingSame
  <2> QED BY <1>7, <2>1, <2>2 DEF MoveStep
<1> QED BY <1>1, <1>2, <1>3, <1>4, <1>5, <1>6, <1>7 DEF Next


-----------------------------------------------------------------------------
(* A record of servers that are known after the step. *)
CountsThen(k, r) == IsFiniteSet(DOMAIN r) /\ DOMAIN r \subseteq KnownTo(k)' /\ r \in [DOMAIN r -> Nat]

LEMMA CountsGrow ==
    ASSUME Counted, Lasting, NEW k \in Coordinators, NEW e \in Events
    PROVE  CountsThen(k, eventRecordMap[k][e])
<1>1. Counts(k, eventRecordMap[k][e])
  BY DEF Counted
<1>2. \A s \in KnownTo(k) : s \in KnownTo(k)'
  BY KnownGrows
<1> QED BY <1>1, <1>2 DEF Counts, CountsThen

LEMMA CountedSame ==
    ASSUME Counted, Lasting, eventRecordMap' = eventRecordMap,
           \A k \in Coordinators : check'[k].newSubTime \in Nat
    PROVE  Counted'
<1>1. \A k \in Coordinators, e \in Events : CountsThen(k, eventRecordMap[k][e])
  BY CountsGrow
<1>2. \A k \in Coordinators, e \in Events : Counts(k, eventRecordMap[k][e])'
  BY <1>1 DEF Counts, CountsThen
<1> QED BY <1>2 DEF Counted

LEMMA CountedStep ==
    ASSUME Counted, Lasting, NEW k \in Coordinators, NEW e \in Events, NEW r, CountsThen(k, r),
           eventRecordMap' = [eventRecordMap EXCEPT ![k][e] = r],
           \A j \in Coordinators : check'[j].newSubTime \in Nat
    PROVE  Counted'
<1>1. \A j \in Coordinators, f \in Events : CountsThen(j, eventRecordMap[j][f])
  BY CountsGrow
<1>2. /\ DOMAIN eventRecordMap' = Coordinators
      /\ \A j \in Coordinators : DOMAIN eventRecordMap'[j] = Events
      /\ \A j \in Coordinators, f \in Events :
            (eventRecordMap'[j][f] = r /\ j = k) \/ eventRecordMap'[j][f] = eventRecordMap[j][f]
  BY DEF Counted
<1>3. \A j \in Coordinators, f \in Events : CountsThen(j, eventRecordMap'[j][f])
  BY <1>1, <1>2
<1>4. \A j \in Coordinators, f \in Events : Counts(j, eventRecordMap[j][f])'
  BY <1>3 DEF Counts, CountsThen
<1> QED BY <1>2, <1>4 DEF Counted

LEMMA MaxOfTwo ==
    ASSUME NEW a \in Nat, NEW b \in Nat
    PROVE  Max({a, b}) \in Nat
<1>1. \E x \in {a, b} : \A y \in {a, b} : x >= y
  OBVIOUS
<1>2. Max({a, b}) \in {a, b}
  BY ONLY <1>1, Zenon DEF Max
<1> QED BY <1>2

(* updateStatusMap adds a server or counts one up. *)
LEMMA StatusCounts ==
    ASSUME NEW k, NEW r, CountsThen(k, r), NEW s, s \in KnownTo(k)', NEW n \in Nat
    PROVE  CountsThen(k, updateStatusMap(r, s, n))
<1> DEFINE u == updateStatusMap(r, s, n)
<1>1. IsFiniteSet(DOMAIN r) /\ DOMAIN r \subseteq KnownTo(k)' /\ \A a \in DOMAIN r : r[a] \in Nat
  BY DEF CountsThen
<1>2. DOMAIN u = DOMAIN r \cup {s}
  BY DEF updateStatusMap
<1>3. IsFiniteSet(DOMAIN r \cup {s})
  BY <1>1, FS_AddElement
<1>4. ASSUME NEW a \in DOMAIN r \cup {s} PROVE u[a] \in Nat
  <2>1. CASE a # s
    <3>1. u[a] = r[a] /\ a \in DOMAIN r
      BY <2>1 DEF updateStatusMap
    <3> QED BY <1>1, <3>1
  <2>2. CASE a = s /\ s \in DOMAIN r
    <3>1. u[a] = Max({r[s], n})
      BY <2>2 DEF updateStatusMap
    <3>2. r[s] \in Nat
      BY <1>1, <2>2
    <3> QED BY <3>1, <3>2, MaxOfTwo
  <2>3. CASE a = s /\ s \notin DOMAIN r
    BY <2>3 DEF updateStatusMap
  <2> QED BY <2>1, <2>2, <2>3
<1>5. u = [a \in DOMAIN r \cup {s} |-> u[a]]
  BY DEF updateStatusMap
<1> HIDE DEF u
<1>6. CountsThen(k, u)
  BY <1>1, <1>2, <1>3, <1>4, <1>5 DEF CountsThen
<1> QED BY <1>6 DEF u

(* WriteOwn puts the source's number over. *)
LEMMA OwnCounts ==
    ASSUME NEW k, NEW r, CountsThen(k, r), NEW s, s \in KnownTo(k)', NEW n \in Nat
    PROVE  CountsThen(k, [a \in DOMAIN r \cup {s} |-> IF a = s THEN n ELSE r[a]])
<1>1. IsFiniteSet(DOMAIN r) /\ DOMAIN r \subseteq KnownTo(k)' /\ \A a \in DOMAIN r : r[a] \in Nat
  BY DEF CountsThen
<1>2. IsFiniteSet(DOMAIN r \cup {s})
  BY <1>1, FS_AddElement
<1> QED BY <1>1, <1>2 DEF CountsThen

LEMMA CountedKept ==
    ASSUME Shapes, Stores, Carry, Lists, Directories, Reporting, Counted, Named, Lasting, [Next]_vars
    PROVE  Counted'
<1>0. \A j \in Coordinators : check[j].newSubTime \in Nat
  BY DEF Counted
<1>1. CASE UNCHANGED vars
  BY <1>0, <1>1, CountedSame DEF vars
<1>2. CASE Wait
  BY <1>0, <1>2, CountedSame DEF Wait, vars
<1>3. ASSUME NEW s \in Servers, Listen(s) PROVE Counted'
  BY <1>0, <1>3, CountedSame DEF Listen
<1>4. ASSUME NEW c \in NewClients, ClientSubscribe(c) PROVE Counted'
  BY <1>0, <1>4, CountedSame DEF ClientSubscribe
<1>5. ASSUME NEW k \in Callers, HandlerStep(k) PROVE Counted'
  <2>1. CASE SubRecord(k)
    <3>1. PICK s \in Servers, c \in Clients, n \in Nat :
            s = call[k].at /\ c = call[k].client /\ n = call[k].num /\ coordinatorClients[s] # <<>>
      BY <2>1 DEF SubRecord, Reporting, Reports
    <3>2. PICK to \in Coordinators :
            to = coordinatorClients[s][1] /\ (s \in Coordinators => to = s)
      <4>1. coordinatorClients[s] \in Seq(Coordinators)
        BY DEF Directories
      <4>2. coordinatorClients[s][1] \in Coordinators
        BY <3>1, <4>1
      <4>3. s \in Coordinators => coordinatorClients[s] = <<s>>
        BY <3>1 DEF Directories
      <4>4. s \in Coordinators => coordinatorClients[s][1] = s
        BY <4>3
      <4> QED BY <4>2, <4>4
    <3>3. PICK e \in Events : e = EventOf[c]
      BY ClientAssumption
    <3>4. s \in listening /\ check' = check /\ listening' = listening
      BY <2>1, <3>1 DEF SubRecord
    <3>5. s \in KnownTo(to)'
      BY <3>2, <3>4 DEF KnownTo
    <3>6. CASE to \in listening
      <4>1. eventRecordMap' = [eventRecordMap EXCEPT ![to][e] = updateStatusMap(@, s, n)]
        BY <2>1, <3>1, <3>2, <3>3, <3>6 DEF SubRecord
      <4> DEFINE r == updateStatusMap(eventRecordMap[to][e], s, n)
      <4>2. CountsThen(to, r)
        <5>1. CountsThen(to, eventRecordMap[to][e])
          BY CountsGrow
        <5> QED BY <3>5, <5>1, StatusCounts
      <4>3. eventRecordMap' = [eventRecordMap EXCEPT ![to][e] = r]
        BY <4>1
      <4> HIDE DEF r
      <4> QED BY <1>0, <3>4, <4>2, <4>3, CountedStep
    <3>7. CASE to \notin listening
      <4>1. eventRecordMap' = eventRecordMap
        BY <2>1, <3>1, <3>2, <3>7 DEF SubRecord
      <4> QED BY <1>0, <3>4, <4>1, CountedSame
    <3> QED BY <3>6, <3>7
  <2>2. CASE SubCount(k) \/ CallBroken(k)
    BY <1>0, <2>2, CountedSame DEF SubCount, CallBroken
  <2> QED BY <1>5, <2>1, <2>2 DEF HandlerStep
<1>6. ASSUME NEW k \in Coordinators, CheckStep(k) PROVE Counted'
  <2>1. CASE Scan(k) \/ nodeAttach(k)
    <3>1. PICK T : check' = [check EXCEPT ![k] = NextEvent(k, T)]
      BY <2>1 DEF Scan, nodeAttach
    <3>2. NextEvent(k, T).newSubTime = 0
      BY DEF NextEvent, NoCheck
    <3>3. \A j \in Coordinators : check'[j].newSubTime \in Nat
      BY <1>0, <3>1, <3>2 DEF Shapes
    <3> QED BY <2>1, <3>3, CountedSame DEF Scan, nodeAttach
  <2>2. CASE getFreeNodeList(k) \/ RemoveFiles(k) \/ MakePlan(k) \/ RedistributeByPlan(k)
    <3>1. \A j \in Coordinators : check'[j].newSubTime = check[j].newSubTime
      <4>1. CASE getFreeNodeList(k)
        BY <4>1 DEF getFreeNodeList, Shapes, CheckFields
      <4>2. CASE RemoveFiles(k)
        BY <4>2 DEF RemoveFiles, Shapes, CheckFields
      <4>3. CASE MakePlan(k)
        BY <4>3 DEF MakePlan, Shapes, CheckFields
      <4>4. CASE RedistributeByPlan(k)
        BY <4>4 DEF RedistributeByPlan, Shapes, CheckFields
      <4> QED BY <2>2, <4>1, <4>2, <4>3, <4>4
    <3>2. eventRecordMap' = eventRecordMap
      BY <2>2 DEF getFreeNodeList, RemoveFiles, MakePlan, RedistributeByPlan
    <3> QED BY <1>0, <3>1, <3>2, CountedSame
  <2>3. ASSUME NEW s \in Servers, UpdateCluster(k, s) PROVE Counted'
    <3>1. PICK e \in Events : e = check[k].event
      BY <2>3 DEF UpdateCluster, At, Carry, Carries
    <3>2. s \in KnownTo(k)'
      <4>1. s \in FreeServers /\ s \notin Coordinators
        BY <2>3, ServerAssumption DEF UpdateCluster, Lists
      <4>2. s \in listening' \/ <<k, s>> \in warned'
        BY <2>3 DEF UpdateCluster
      <4> QED BY <4>1, <4>2 DEF KnownTo
    <3> DEFINE r == updateStatusMap(eventRecordMap[k][e], s, 0)
    <3>3. CountsThen(k, r)
      <4>1. CountsThen(k, eventRecordMap[k][e])
        BY CountsGrow
      <4> QED BY <3>2, <4>1, StatusCounts
    <3>4. eventRecordMap' = [eventRecordMap EXCEPT ![k][e] = r]
      BY <2>3, <3>1 DEF UpdateCluster
    <3>5. \A j \in Coordinators : check'[j].newSubTime = check[j].newSubTime
      BY <2>3 DEF UpdateCluster, Shapes, CheckFields
    <3> HIDE DEF r
    <3> QED BY <1>0, <3>3, <3>4, <3>5, CountedStep
  <2>4. CASE ReadOwn(k)
    <3> DEFINE n == Cardinality(subtoClient[k][check[k].event])
    <3>1. n \in Nat
      <4>1. check[k].event \in Events /\ k \in Servers
        BY <2>4, ServerAssumption DEF ReadOwn, At, Carry, Carries
      <4>2. subtoClient[k][check[k].event] \in SUBSET Clients
        BY <4>1 DEF Stores
      <4> QED BY <4>2, ClientsCounted
    <3>2. check' = [check EXCEPT ![k].pc = "write", ![k].newSubTime = n]
      BY <2>4 DEF ReadOwn
    <3> HIDE DEF n
    <3>3. \A j \in Coordinators : check'[j].newSubTime \in Nat
      BY <1>0, <3>1, <3>2 DEF Shapes, CheckFields
    <3> QED BY <2>4, <3>3, CountedSame DEF ReadOwn
  <2>5. CASE WriteOwn(k)
    <3>1. PICK e \in Events : e = check[k].event
      BY <2>5 DEF WriteOwn, At, Carry, Carries
    <3>2. PICK s \in KnownTo(k) : s = move[k].src
      BY <2>5 DEF WriteOwn, At, Named, NamesKnown
    <3>3. PICK n \in Nat : n = check[k].newSubTime
      BY <1>0
    <3> DEFINE q == eventRecordMap[k][e]
               r == [a \in DOMAIN q \cup {s} |-> IF a = s THEN n ELSE q[a]]
    <3>4. CountsThen(k, r)
      <4>1. CountsThen(k, q)
        BY CountsGrow
      <4>2. s \in KnownTo(k)'
        BY KnownGrows
      <4> HIDE DEF q
      <4> QED BY <4>1, <4>2, OwnCounts
    <3>5. eventRecordMap' = [eventRecordMap EXCEPT ![k][e] = r]
      BY <2>5, <3>1, <3>2, <3>3 DEF WriteOwn
    <3>6. \A j \in Coordinators : check'[j].newSubTime = check[j].newSubTime
      BY <2>5 DEF WriteOwn, Shapes, CheckFields
    <3> HIDE DEF r
    <3> QED BY <1>0, <3>4, <3>5, <3>6, CountedStep
  <2> QED BY <1>6, <2>1, <2>2, <2>3, <2>4, <2>5 DEF CheckStep
<1>7. ASSUME NEW k \in Coordinators, MoveStep(k) PROVE Counted'
  <2>1. \A j \in Coordinators : check'[j].newSubTime = check[j].newSubTime
    <3>1. CASE EraseSub(k)
      BY <3>1 DEF EraseSub, Shapes, CheckFields
    <3>2. CASE Advance(k)
      BY <3>2 DEF Advance, Shapes, CheckFields
    <3>3. CASE UseDangling(k)
      BY <3>3 DEF UseDangling, Shapes, CheckFields
    <3>4. CASE SendSub(k)
      BY <3>4 DEF SendSub
    <3>5. CASE Moved(k)
      BY <3>5 DEF Moved, Shapes, CheckFields
    <3> QED BY <1>7, <3>1, <3>2, <3>3, <3>4, <3>5 DEF MoveStep
  <2>2. eventRecordMap' = eventRecordMap
    BY <1>7 DEF MoveStep, EraseSub, Advance, UseDangling, SendSub, Moved
  <2> QED BY <1>0, <2>1, <2>2, CountedSame
<1> QED BY <1>1, <1>2, <1>3, <1>4, <1>5, <1>6, <1>7 DEF Next


-----------------------------------------------------------------------------
(* The plan of a check is the one whose servers MatchAndPlanProofs finds   *)
(* in the record.                                                          *)
LEMMA SamePlan == \A r : generatePlanForEvent(r) = Plans!generatePlanForEvent(r)
BY Zenon DEF generatePlanForEvent, Plans!generatePlanForEvent, Turn, Plans!Turn,
     SortByMeta, Plans!SortByMeta, Before, Plans!Before, CeilAverage, Plans!CeilAverage,
     Total, Plans!Total, Size, Plans!Size, Pointers, Plans!Pointers,
     NoPlans, Plans!NoPlans, AddPlan, Plans!AddPlan, Plan, Plans!Plan, Enough, Plans!Enough,
     MapThenSumSet, Plans!MapThenSumSet, MapThenFoldSet, Plans!MapThenFoldSet,
     Cardinality, Plans!Cardinality

LEMMA SeqGrows ==
    ASSUME NEW S, NEW T, S \subseteq T, NEW q \in Seq(S)
    PROVE  q \in Seq(T)
OBVIOUS

LEMMA PlansAreKnown ==
    ASSUME NEW k, NEW r, Counts(k, r)
    PROVE  generatePlanForEvent(r).plans \in Seq(KnownPlans(k))
<1>1. Plans!IsFiniteSet(DOMAIN r)
  <2>1. IsFiniteSet(DOMAIN r)
    BY DEF Counts
  <2>2. \A S : IsFiniteSet(S) = Plans!IsFiniteSet(S)
    BY Zenon DEF IsFiniteSet, Plans!IsFiniteSet
  <2> QED BY <2>1, <2>2
<1>2. DOMAIN r \subseteq Nat /\ r \in [DOMAIN r -> Nat]
  BY ServerAssumption DEF Counts, KnownTo
<1>3. Plans!IsRecord(r)
  BY <1>1, <1>2 DEF Plans!IsRecord
<1>4. Plans!IsResult(r, Plans!generatePlanForEvent(r))
  BY <1>3, Plans!PlansNameServers, ThresholdAssumption
<1>5. PICK q : q = Plans!generatePlanForEvent(r)
  OBVIOUS
<1>6. q.plans \in Seq([srcAddr : DOMAIN r, destAddr : DOMAIN r, moveNumber : Int])
  BY <1>4, <1>5 DEF Plans!IsResult, Plans!PlansOf
<1>7. [srcAddr : DOMAIN r, destAddr : DOMAIN r, moveNumber : Int] \subseteq KnownPlans(k)
  BY DEF Counts, KnownPlans
<1>8. q.plans \in Seq(KnownPlans(k))
  BY <1>6, <1>7, SeqGrows
<1>9. generatePlanForEvent(r) = q
  BY ONLY <1>5, SamePlan, Zenon
<1> QED BY ONLY <1>8, <1>9, Zenon

(* The plans and the move of a check, given that what is known grows. *)
LEMMA NamesGrow ==
    ASSUME Lasting, NEW k
    PROVE  /\ \A s \in KnownTo(k) : s \in KnownTo(k)'
           /\ \A q \in Seq(KnownPlans(k)) : q \in Seq(KnownPlans(k)')
<1>1. \A s \in KnownTo(k) : s \in KnownTo(k)'
  BY KnownGrows
<1>2. KnownPlans(k) \subseteq KnownPlans(k)'
  BY <1>1 DEF KnownPlans
<1> QED BY <1>1, <1>2, SeqGrows

LEMMA NamedStep ==
    ASSUME Named, Lasting, NEW k \in Coordinators, Others(k), OtherMoves(k), NamesKnown(k)'
    PROVE  Named'
<1>1. ASSUME NEW j \in Coordinators, j # k PROVE NamesKnown(j)'
  <2>1. check'[j] = check[j] /\ move'[j] = move[j]
    BY <1>1 DEF Others, OtherMoves
  <2>2. NamesKnown(j)
    BY DEF Named
  <2> QED BY <2>1, <2>2, NamesGrow DEF NamesKnown
<1> QED BY <1>1 DEF Named

(* The check keeps its plans and its move, and leaves the move's places or *)
(* goes from one to another.                                               *)
LEMMA NamedOn ==
    ASSUME Shapes, Named, Lasting, NEW k \in Coordinators, Others(k), OtherMoves(k),
           check'[k].plans = check[k].plans,
           check'[k].pc \in {"erase", "advance", "send", "own", "write"} =>
             /\ check[k].pc \in {"erase", "advance", "send", "own", "write"}
             /\ move'[k].src = move[k].src /\ move'[k].dst = move[k].dst
    PROVE  Named'
<1>1. NamesKnown(k)
  BY DEF Named
<1>2. NamesKnown(k)'
  BY <1>1, NamesGrow DEF NamesKnown
<1> QED BY <1>2, NamedStep

LEMMA NamedSame ==
    ASSUME Named, Lasting, check' = check, move' = move
    PROVE  Named'
<1>1. ASSUME NEW j \in Coordinators PROVE NamesKnown(j)'
  <2>1. NamesKnown(j)
    BY DEF Named
  <2> QED BY <2>1, NamesGrow DEF NamesKnown
<1> QED BY <1>1 DEF Named

LEMMA NamedKept ==
    ASSUME Shapes, Carry, Counted, Named, Lasting, [Next]_vars
    PROVE  Named'
<1>1. CASE UNCHANGED vars
  BY <1>1, NamedSame DEF vars
<1>2. CASE Wait
  BY <1>2, NamedSame DEF Wait, vars
<1>3. ASSUME NEW s \in Servers, Listen(s) PROVE Named'
  BY <1>3, NamedSame DEF Listen
<1>4. ASSUME NEW c \in NewClients, ClientSubscribe(c) PROVE Named'
  BY <1>4, NamedSame DEF ClientSubscribe
<1>5. ASSUME NEW k \in Callers, HandlerStep(k) PROVE Named'
  BY <1>5, NamedSame DEF HandlerStep, SubCount, SubRecord, CallBroken
<1>6. ASSUME NEW k \in Coordinators, CheckStep(k) PROVE Named'
  <2>1. CASE Scan(k) \/ nodeAttach(k)
    <3>1. PICK T : check' = [check EXCEPT ![k] = NextEvent(k, T)]
      BY <2>1 DEF Scan, nodeAttach
    <3>2. NextEvent(k, T).plans = <<>> /\ NextEvent(k, T).pc \in {"list", "done"}
      BY DEF NextEvent, NoCheck
    <3>3. Others(k) /\ check'[k].plans = <<>> /\ check'[k].pc \in {"list", "done"}
      BY <3>1, <3>2 DEF Others, Shapes
    <3>4. OtherMoves(k)
      BY <2>1 DEF Scan, nodeAttach, OtherMoves, Shapes
    <3>5. NamesKnown(k)'
      BY <3>3 DEF NamesKnown
    <3> QED BY <3>3, <3>4, <3>5, NamedStep
  <2>2. CASE getFreeNodeList(k)
    <3>1. Others(k) /\ check'[k].plans = check[k].plans /\ check'[k].pc = "remove"
      BY <2>2 DEF getFreeNodeList, Shapes, Others, CheckFields
    <3>2. OtherMoves(k)
      BY <2>2 DEF getFreeNodeList, OtherMoves, Shapes
    <3> QED BY <3>1, <3>2, NamedOn
  <2>3. CASE RemoveFiles(k)
    <3>1. Others(k) /\ check'[k].plans = check[k].plans /\ check'[k].pc = "update"
      BY <2>3 DEF RemoveFiles, Shapes, Others, CheckFields
    <3>2. OtherMoves(k)
      BY <2>3 DEF RemoveFiles, OtherMoves, Shapes
    <3> QED BY <3>1, <3>2, NamedOn
  <2>4. ASSUME NEW s \in Servers, UpdateCluster(k, s) PROVE Named'
    <3>1. Others(k) /\ check'[k].plans = check[k].plans /\ check'[k].pc = check[k].pc
      BY <2>4 DEF UpdateCluster, Shapes, Others, CheckFields
    <3>2. OtherMoves(k) /\ check[k].pc = "update"
      BY <2>4 DEF UpdateCluster, OtherMoves, Shapes, At
    <3> QED BY <3>1, <3>2, NamedOn
  <2>5. CASE MakePlan(k)
    <3> DEFINE q == generatePlanForEvent(Record(k)).plans
    <3>1. /\ Others(k) /\ check'[k].pc \in {"plan", "crashed"}
          /\ check'[k].plans = check[k].plans \/ check'[k].plans = q
      BY <2>5 DEF MakePlan, Shapes, Others, CheckFields
    <3>2. OtherMoves(k)
      BY <2>5 DEF MakePlan, OtherMoves, Shapes
    <3>3. q \in Seq(KnownPlans(k))
      <4>1. check[k].event \in Events
        BY <2>5 DEF MakePlan, At, Carry, Carries
      <4>2. Counts(k, Record(k))
        BY <4>1 DEF Counted, Record
      <4> QED BY <4>2, PlansAreKnown
    <3> HIDE DEF q
    <3>4. check'[k].plans \in Seq(KnownPlans(k))
      BY <3>1, <3>3 DEF Named, NamesKnown
    <3>5. NamesKnown(k)'
      BY <3>1, <3>4, NamesGrow DEF NamesKnown
    <3> QED BY <3>1, <3>2, <3>5, NamedStep
  <2>6. CASE RedistributeByPlan(k)
    <3> DEFINE q == check[k].plans
    <3>1. q \in Seq(KnownPlans(k)) /\ q # <<>>
      BY <2>6 DEF RedistributeByPlan, Named, NamesKnown
    <3>2. Head(q) \in KnownPlans(k) /\ Tail(q) \in Seq(KnownPlans(k))
      BY <3>1
    <3>3. Head(q).srcAddr \in KnownTo(k) /\ Head(q).destAddr \in KnownTo(k)
      BY <3>2 DEF KnownPlans
    <3>4. Others(k) /\ check'[k].plans = Tail(q)
      BY <2>6 DEF RedistributeByPlan, Shapes, Others, CheckFields
    <3>5. OtherMoves(k) /\ move'[k].src = Head(q).srcAddr /\ move'[k].dst = Head(q).destAddr
      BY <2>6 DEF RedistributeByPlan, Shapes, OtherMoves
    <3> HIDE DEF q
    <3>6. NamesKnown(k)'
      BY <3>2, <3>3, <3>4, <3>5, NamesGrow DEF NamesKnown
    <3> QED BY <3>4, <3>5, <3>6, NamedStep
  <2>7. CASE ReadOwn(k)
    <3>1. Others(k) /\ check'[k].plans = check[k].plans /\ check[k].pc = "own"
      BY <2>7 DEF ReadOwn, Shapes, Others, CheckFields, At
    <3>2. OtherMoves(k) /\ move' = move
      BY <2>7 DEF ReadOwn, OtherMoves, Shapes
    <3> QED BY <3>1, <3>2, NamedOn
  <2>8. CASE WriteOwn(k)
    <3>1. Others(k) /\ check'[k].plans = check[k].plans /\ check'[k].pc = "plan"
      BY <2>8 DEF WriteOwn, Shapes, Others, CheckFields
    <3>2. OtherMoves(k)
      BY <2>8 DEF WriteOwn, OtherMoves, Shapes
    <3> QED BY <3>1, <3>2, NamedOn
  <2> QED BY <1>6, <2>1, <2>2, <2>3, <2>4, <2>5, <2>6, <2>7, <2>8 DEF CheckStep
<1>7. ASSUME NEW k \in Coordinators, MoveStep(k) PROVE Named'
  <2>1. Others(k) /\ check'[k].plans = check[k].plans
    <3>1. CASE EraseSub(k)
      BY <3>1 DEF EraseSub, Shapes, CheckFields, Others
    <3>2. CASE Advance(k)
      BY <3>2 DEF Advance, Shapes, CheckFields, Others
    <3>3. CASE UseDangling(k)
      BY <3>3 DEF UseDangling, Shapes, CheckFields, Others
    <3>4. CASE SendSub(k)
      BY <3>4 DEF SendSub, Others, Shapes
    <3>5. CASE Moved(k)
      BY <3>5 DEF Moved, Shapes, CheckFields, Others
    <3> QED BY <1>7, <3>1, <3>2, <3>3, <3>4, <3>5 DEF MoveStep
  <2>2. OtherMoves(k) /\ move'[k].src = move[k].src /\ move'[k].dst = move[k].dst
    <3>1. CASE EraseSub(k)
      BY <3>1 DEF EraseSub, Shapes, MoveFields, OtherMoves
    <3>2. CASE Advance(k)
      BY <3>2 DEF Advance, Shapes, MoveFields, OtherMoves
    <3>3. CASE SendSub(k)
      BY <3>3 DEF SendSub, Shapes, MoveFields, OtherMoves
    <3>4. CASE UseDangling(k) \/ Moved(k)
      BY <3>4 DEF UseDangling, Moved, Shapes, OtherMoves
    <3> QED BY <1>7, <3>1, <3>2, <3>3, <3>4 DEF MoveStep
  <2>3. check[k].pc \in {"erase", "advance", "send"}
    BY <1>7 DEF MoveStep, EraseSub, Advance, UseDangling, SendSub, Moved, At
  <2> QED BY <2>1, <2>2, <2>3, NamedOn
<1> QED BY <1>1, <1>2, <1>3, <1>4, <1>5, <1>6, <1>7 DEF Next

-----------------------------------------------------------------------------
LEMMA ForeseenKept ==
    ASSUME Lists, Named, Foreseen, Lasting, [Next]_vars
    PROVE  Foreseen'
<1>0. lost' = lost => Foreseen'
  BY DEF Foreseen, Lasting
<1>1. CASE UNCHANGED vars
  BY <1>0, <1>1 DEF vars
<1>2. CASE Wait
  BY <1>0, <1>2 DEF Wait, vars
<1>3. ASSUME NEW s \in Servers, Listen(s) PROVE Foreseen'
  BY <1>0, <1>3 DEF Listen
<1>4. ASSUME NEW c \in NewClients, ClientSubscribe(c) PROVE Foreseen'
  BY <1>0, <1>4 DEF ClientSubscribe
<1>5. ASSUME NEW k \in Callers, HandlerStep(k) PROVE Foreseen'
  BY <1>0, <1>5 DEF HandlerStep, SubCount, SubRecord, CallBroken
<1>6. ASSUME NEW k \in Coordinators, CheckStep(k) PROVE Foreseen'
  BY <1>0, <1>6 DEF CheckStep, Scan, getFreeNodeList, RemoveFiles, UpdateCluster, MakePlan,
       RedistributeByPlan, nodeAttach, ReadOwn, WriteOwn
<1>7. ASSUME NEW k \in Coordinators, MoveStep(k) PROVE Foreseen'
  <2>1. CASE SendSub(k) /\ move[k].dst \notin listening
    <3>1. lost' = lost \cup {<<Head(move[k].spsw), k, move[k].dst>>} /\ warned' = warned
      BY <2>1 DEF SendSub
    <3>2. check[k].pc = "send" /\ k \in listening
      BY <2>1 DEF SendSub, At, Lists
    <3>3. move[k].dst \in KnownTo(k)
      BY <3>2 DEF Named, NamesKnown
    <3>4. <<k, move[k].dst>> \in warned
      BY <2>1, <3>2, <3>3 DEF KnownTo
    <3>5. ASSUME NEW l \in lost' PROVE <<l[2], l[3]>> \in warned'
      <4>1. CASE l \in lost
        BY <3>1, <4>1 DEF Foreseen
      <4>2. CASE l = <<Head(move[k].spsw), k, move[k].dst>>
        <5>1. l[2] = k /\ l[3] = move[k].dst
          BY <4>2
        <5> QED BY <3>1, <3>4, <5>1
      <4> QED BY <3>1, <4>1, <4>2
    <3> QED BY <3>5 DEF Foreseen
  <2>2. CASE SendSub(k) /\ move[k].dst \in listening
    BY <1>0, <2>2 DEF SendSub
  <2>3. CASE EraseSub(k) \/ Advance(k) \/ UseDangling(k) \/ Moved(k)
    BY <1>0, <2>3 DEF EraseSub, Advance, UseDangling, Moved
  <2> QED BY <1>7, <2>1, <2>2, <2>3 DEF MoveStep
<1> QED BY <1>1, <1>2, <1>3, <1>4, <1>5, <1>6, <1>7 DEF Next

LEMMA KnownInit == Init => Lists /\ Directories /\ Reporting /\ Counted /\ Named /\ Foreseen
<1> SUFFICES ASSUME Init
             PROVE  Lists /\ Directories /\ Reporting /\ Counted /\ Named /\ Foreseen
  OBVIOUS
<1>0. /\ Coordinators \subseteq Servers /\ Coordinators \cap FreeServers = {}
      /\ Home \in [Servers -> Coordinators] /\ \A c \in Coordinators : Home[c] = c
  BY ServerAssumption
<1>1. /\ NoCheck.list = {} /\ NoCheck.plans = <<>> /\ NoCheck.newSubTime = 0 /\ NoCheck.pc = "sleep"
      /\ NoCall.pc = "none"
  BY DEF NoCheck, NoCall, Call
<1>2. \A k \in Coordinators : check[k] = NoCheck
  BY DEF Init
<1>3. Lists
  BY <1>0, <1>1, <1>2 DEF Init, Lists
<1>4. Directories
  <2>1. ASSUME NEW s \in Servers
        PROVE  /\ coordinatorClients[s] = <<>> \/ coordinatorClients[s] = <<Home[s]>>
               /\ coordinatorClients[s] \in Seq(Coordinators)
    <3>1. Home[s] \in Coordinators
      BY <1>0
    <3> QED BY <3>1 DEF Init
  <2>2. coordinatorClients = [s \in Servers |-> coordinatorClients[s]]
    BY DEF Init
  <2>3. \A c \in Coordinators : coordinatorClients[c] = <<>> \/ coordinatorClients[c] = <<c>>
    BY <1>0, <2>1
  <2>4. coordinatorClients \in [Servers -> Seq(Coordinators)]
    BY <2>1, <2>2
  <2> QED BY <1>0, <2>3, <2>4 DEF Init, Directories
<1>5. Reporting
  BY <1>1 DEF Init, Reporting, Reports
<1>6. Counted
  <2>1. ASSUME NEW k \in Coordinators, NEW e \in Events PROVE Counts(k, SettledRecord(k, e))
    <3> DEFINE D == {t \in Servers : Home[t] = k /\ \E c \in Settled[t] : EventOf[c] = e}
    <3>1. IsFiniteSet(D)
      BY ServerAssumption, FS_Subset
    <3>2. ASSUME NEW s \in D PROVE s \in KnownTo(k)
      <4>1. s \in Coordinators => s = k
        BY <1>0
      <4>2. s \in listening
        BY ClientAssumption DEF Init
      <4> QED BY <4>1, <4>2 DEF KnownTo
    <3>3. ASSUME NEW s \in D PROVE Cardinality({c \in Settled[s] : EventOf[c] = e}) \in Nat
      <4>1. {c \in Settled[s] : EventOf[c] = e} \in SUBSET Clients
        BY ClientAssumption
      <4> QED BY <4>1, ClientsCounted
    <3>4. SettledRecord(k, e) = [s \in D |-> Cardinality({c \in Settled[s] : EventOf[c] = e})]
      BY DEF SettledRecord
    <3> HIDE DEF D
    <3>5. DOMAIN SettledRecord(k, e) = D /\ SettledRecord(k, e) \in [D -> Nat]
      BY <3>3, <3>4
    <3> QED BY <3>1, <3>2, <3>5 DEF Counts
  <2>2. \A k \in Coordinators, e \in Events : Counts(k, eventRecordMap[k][e])
    <3>1. \A k \in Coordinators, e \in Events : eventRecordMap[k][e] = SettledRecord(k, e)
      BY DEF Init
    <3> QED BY <2>1, <3>1
  <2> QED BY <1>1, <1>2, <2>2 DEF Init, Counted
<1>7. Named
  <2>1. \A k : <<>> \in Seq(KnownPlans(k))
    OBVIOUS
  <2>2. \A k \in Coordinators : check[k].plans = <<>> /\ check[k].pc = "sleep"
    BY <1>1, <1>2
  <2> QED BY <2>1, <2>2 DEF Named, NamesKnown
<1>8. Foreseen
  BY DEF Init, Foreseen
<1> QED BY <1>3, <1>4, <1>5, <1>6, <1>7, <1>8

(* RedistributeSub, with any number of servers, events and clients, and    *)
(* whatever plans are made of the records, also those made by a walk that  *)
(* ran past the end: a copy that is lost was on its way to a server of     *)
(* which a failed UpdateCluster had warned the same coordinator.           *)
THEOREM LossIsForeseen == Spec => []LossForeseen
<1> DEFINE KInv == /\ Shapes /\ Stores /\ Carry
                   /\ Lists /\ Directories /\ Reporting /\ Counted /\ Named /\ Foreseen
<1>1. Init => KInv
  BY ShapesInit, PlacedInit, KnownInit
<1>2. KInv /\ [Next]_vars => KInv'
  <2> SUFFICES ASSUME KInv, [Next]_vars
               PROVE  KInv'
    OBVIOUS
  <2>1. Shapes' /\ Stores' /\ Carry' /\ Lasting
    BY ShapesKept, FiledKept, StepsLast
  <2>2. Lists'
    BY ListsKept
  <2>3. Directories' /\ KeepsKnowing
    BY DirectoriesKept
  <2>4. Reporting'
    BY <2>3, ReportingKept
  <2>5. Counted'
    BY <2>1, CountedKept
  <2>6. Named'
    BY <2>1, NamedKept
  <2>7. Foreseen'
    BY <2>1, ForeseenKept
  <2> QED BY <2>1, <2>2, <2>3, <2>4, <2>5, <2>6, <2>7
<1>3. KInv => LossForeseen
  BY DEF Foreseen, LossForeseen
<1> QED BY <1>1, <1>2, <1>3, PTL DEF Spec


-----------------------------------------------------------------------------
(* Numbers.  A server that is not relieved only gains subscriptions, each  *)
(* of them inserted before its handler counts; so the handler that counts  *)
(* last reports the true number, and the record keeps the largest.         *)
Held(s, e) == Cardinality(subtoClient[s][e])

(* A handler for event e at server s. *)
Waits(k, l, s, e) == call[k].pc = l /\ call[k].at = s /\ EventOf[call[k].client] = e

WithinBounds(s, e) ==
    /\ \A k \in Callers : Waits(k, "record", s, e) => call[k].num <= Held(s, e)
    /\ \A k \in Coordinators :
          s \in DOMAIN eventRecordMap[k][e] => eventRecordMap[k][e][s] <= Held(s, e)

(* The number is still to be taken, ... *)
InHand(s, e) == \E k \in Callers : Waits(k, "count", s, e)

(* ... or is on its way to the coordinator, or has arrived. *)
OnItsWay(s, e) == \E k \in Callers : Waits(k, "record", s, e) /\ call[k].num = Held(s, e)
Arrived(s, e, to) == s \in DOMAIN eventRecordMap[to][e] /\ eventRecordMap[to][e][s] = Held(s, e)
Reported(s, e) ==
    /\ coordinatorClients[s] # <<>>
    /\ \/ coordinatorClients[s][1] \notin listening
       \/ OnItsWay(s, e)
       \/ Arrived(s, e, coordinatorClients[s][1])

UpToDate(s, e) == s \in listening => subtoClient[s][e] = {} \/ InHand(s, e) \/ Reported(s, e)

Numbered == \A s \in Servers \ sources, e \in Events : WithinBounds(s, e) /\ UpToDate(s, e)

(* A server of the pool has no subscriptions before it is up; who is being *)
(* relieved is among the sources.                                          *)
Asleep == \A s \in FreeServers \ listening, e \in Events : subtoClient[s][e] = {}
Sourced ==
    \A k \in Coordinators :
        check[k].pc \in {"erase", "advance", "send", "own", "write"} => move[k].src \in sources


(* The coordinator a server reports to stays, and one that went down does  *)
(* not come back.                                                          *)
FirstKept(s) ==
    coordinatorClients[s] # <<>> =>
        coordinatorClients'[s] # <<>> /\ coordinatorClients'[s][1] = coordinatorClients[s][1]
Descends ==
    /\ \A c \in Coordinators : c \in listening' => c \in listening
    /\ \A s \in Servers : FirstKept(s)

LEMMA FirstStays ==
    ASSUME coordinatorClients' = coordinatorClients, \A c \in Coordinators : c \in listening' => c \in listening
    PROVE  Descends
BY DEF Descends, FirstKept

LEMMA StepsDescend ==
    ASSUME Directories, Reporting, [Next]_vars
    PROVE  Descends
<1>1. CASE UNCHANGED vars
  BY <1>1, FirstStays DEF vars, serverVars
<1>2. CASE Wait
  BY <1>2, FirstStays DEF Wait, vars, serverVars
<1>3. ASSUME NEW s \in Servers, Listen(s) PROVE Descends
  <2>1. s \notin Coordinators
    BY <1>3, ServerAssumption DEF Listen
  <2> QED BY <1>3, <2>1, FirstStays DEF Listen, serverVars
<1>4. ASSUME NEW c \in NewClients, ClientSubscribe(c) PROVE Descends
  BY <1>4, FirstStays DEF ClientSubscribe
<1>5. ASSUME NEW k \in Callers, HandlerStep(k) PROVE Descends
  <2>1. CASE SubCount(k)
    <3>1. PICK s \in Servers : s = call[k].at
      BY <2>1 DEF SubCount, Reporting, Reports
    <3>2. /\ coordinatorClients' = [coordinatorClients EXCEPT ![s] =
                IF @ = <<>> THEN <<GM_CLUSTERDIR[s]>> ELSE @]
          /\ listening' = listening
      BY <2>1, <3>1 DEF SubCount
    <3>3. \A t \in Servers : coordinatorClients[t] # <<>> => coordinatorClients'[t] = coordinatorClients[t]
      BY <3>2 DEF Directories
    <3> QED BY <3>2, <3>3 DEF Descends, FirstKept
  <2>2. CASE SubRecord(k) \/ CallBroken(k)
    BY <2>2, FirstStays DEF SubRecord, CallBroken, serverVars
  <2> QED BY <1>5, <2>1, <2>2 DEF HandlerStep
<1>6. ASSUME NEW k \in Coordinators, CheckStep(k) PROVE Descends
  <2>1. ASSUME NEW s \in Servers, UpdateCluster(k, s), s \in listening PROVE Descends
    <3>1. /\ coordinatorClients' = [coordinatorClients EXCEPT ![s] = Append(@, k)]
          /\ listening' = listening
      BY <2>1 DEF UpdateCluster
    <3>2. ASSUME NEW t \in Servers PROVE FirstKept(t)
      <4>1. CASE t = s
        <5>1. coordinatorClients[s] \in Seq(Coordinators)
          BY DEF Directories
        <5>2. coordinatorClients'[s] = Append(coordinatorClients[s], k)
          BY <3>1 DEF Directories
        <5>3. PICK q \in Seq(Coordinators) : q = coordinatorClients[s]
          BY <5>1
        <5>4. q # <<>> => Append(q, k) # <<>> /\ Append(q, k)[1] = q[1]
          OBVIOUS
        <5> QED BY <4>1, <5>2, <5>3, <5>4 DEF FirstKept
      <4>2. CASE t # s
        BY <3>1, <4>2 DEF Directories, FirstKept
      <4> QED BY <4>1, <4>2
    <3> QED BY <3>1, <3>2 DEF Descends
  <2>2. ASSUME NEW s \in Servers, UpdateCluster(k, s), s \notin listening PROVE Descends
    BY <2>2, FirstStays DEF UpdateCluster
  <2>3. CASE MakePlan(k)
    <3>1. coordinatorClients' = coordinatorClients /\ listening' \subseteq listening
      BY <2>3 DEF MakePlan, serverVars
    <3> QED BY <3>1, FirstStays
  <2>4. CASE Scan(k) \/ getFreeNodeList(k) \/ RemoveFiles(k) \/ RedistributeByPlan(k)
               \/ nodeAttach(k) \/ ReadOwn(k) \/ WriteOwn(k)
    <3>1. coordinatorClients' = coordinatorClients /\ listening' = listening
      BY <2>4 DEF Scan, getFreeNodeList, RemoveFiles, RedistributeByPlan, nodeAttach, ReadOwn,
           WriteOwn, serverVars
    <3> QED BY <3>1, FirstStays
  <2> QED BY <1>6, <2>1, <2>2, <2>3, <2>4 DEF CheckStep
<1>7. ASSUME NEW k \in Coordinators, MoveStep(k) PROVE Descends
  <2>1. coordinatorClients' = coordinatorClients /\ listening' = listening
    BY <1>7 DEF MoveStep, EraseSub, Advance, UseDangling, SendSub, Moved, serverVars
  <2> QED BY <2>1, FirstStays
<1> QED BY <1>1, <1>2, <1>3, <1>4, <1>5, <1>6, <1>7 DEF Next

-----------------------------------------------------------------------------
(* A server of the pool has no subscriptions before it is up. *)
LEMMA AsleepKept ==
    ASSUME Shapes, Stores, Carry, Asleep, [Next]_vars
    PROVE  Asleep'
<1>0. ASSUME subtoClient' = subtoClient, \A s \in FreeServers : s \in listening => s \in listening'
      PROVE  Asleep'
  BY <1>0 DEF Asleep
<1>00. FreeServers \cap Coordinators = {} /\ FreeServers \subseteq Servers
  BY ServerAssumption
<1>10. ASSUME NEW k, NEW c \in Clients, NEW s \in listening, Insert(k, c, s), listening' = listening
       PROVE  Asleep'
  <2>1. s \in Servers /\ subtoClient' = [subtoClient EXCEPT ![s][EventOf[c]] = @ \cup {c}]
    BY <1>10 DEF Stores, Insert
  <2>2. \A t \in Servers, e \in Events : t # s => subtoClient'[t][e] = subtoClient[t][e]
    <3>1. InsertedAt(c, s)
      BY <2>1, Inserted
    <3> QED BY <3>1 DEF InsertedAt
  <2> QED BY <1>00, <1>10, <2>2 DEF Asleep
<1>1. CASE UNCHANGED vars
  BY <1>0, <1>1 DEF vars, serverVars
<1>2. CASE Wait
  BY <1>0, <1>2 DEF Wait, vars, serverVars
<1>3. ASSUME NEW s \in Servers, Listen(s) PROVE Asleep'
  BY <1>0, <1>3 DEF Listen, serverVars
<1>4. ASSUME NEW c \in NewClients, ClientSubscribe(c) PROVE Asleep'
  BY <1>4, <1>10, NewClientsAreClients DEF ClientSubscribe
<1>5. ASSUME NEW k \in Callers, HandlerStep(k) PROVE Asleep'
  BY <1>0, <1>5 DEF HandlerStep, SubCount, SubRecord, CallBroken, serverVars
<1>6. ASSUME NEW k \in Coordinators, CheckStep(k) PROVE Asleep'
  <2>1. subtoClient' = subtoClient
    BY <1>6 DEF CheckStep, Scan, getFreeNodeList, RemoveFiles, UpdateCluster, MakePlan,
         RedistributeByPlan, nodeAttach, ReadOwn, WriteOwn, serverVars
  <2>2. listening' = listening \/ listening' = listening \ {k}
    BY <1>6 DEF CheckStep, Scan, getFreeNodeList, RemoveFiles, UpdateCluster, MakePlan,
         RedistributeByPlan, nodeAttach, ReadOwn, WriteOwn
  <2> QED BY <1>0, <1>00, <2>1, <2>2
<1>7. ASSUME NEW k \in Coordinators, MoveStep(k) PROVE Asleep'
  <2>1. CASE EraseSub(k)
    <3>1. /\ subtoClient' = [subtoClient EXCEPT ![move[k].src][check[k].event] = @ \ {move[k].itera}]
          /\ listening' = listening
      BY <2>1 DEF EraseSub
    <3>2. move[k].src \in Servers /\ check[k].event \in Events
      BY <2>1 DEF EraseSub, At, Carry, Carries
    <3>3. \A t \in Servers, e \in Events : subtoClient'[t][e] \subseteq subtoClient[t][e]
      <4>1. ErasedAt(move[k].itera, move[k].src, check[k].event)
        BY <3>1, <3>2, Erased
      <4> QED BY <4>1 DEF ErasedAt
    <3> QED BY <1>00, <3>1, <3>3 DEF Asleep
  <2>2. CASE SendSub(k)
    <3>1. Head(move[k].spsw) \in Clients
      <4>1. move[k].spsw \in Seq(Clients) /\ move[k].spsw # <<>>
        BY <2>2 DEF SendSub, Carry, Carries
      <4> QED BY <4>1
    <3>2. CASE move[k].dst \in listening
      <4>1. Insert(ByMove(k), Head(move[k].spsw), move[k].dst) /\ listening' = listening
        BY <2>2, <3>2 DEF SendSub
      <4> QED BY <1>10, <3>1, <3>2, <4>1
    <3>3. CASE move[k].dst \notin listening
      BY <1>0, <2>2, <3>3 DEF SendSub
    <3> QED BY <3>2, <3>3
  <2>3. CASE Advance(k) \/ UseDangling(k) \/ Moved(k)
    BY <1>0, <2>3 DEF Advance, UseDangling, Moved, serverVars
  <2> QED BY <1>7, <2>1, <2>2, <2>3 DEF MoveStep
<1> QED BY <1>1, <1>2, <1>3, <1>4, <1>5, <1>6, <1>7 DEF Next

(* Who is being relieved is among the sources. *)
LEMMA SourcedOn ==
    ASSUME Sourced, sources \subseteq sources', NEW k \in Coordinators, Others(k), OtherMoves(k),
           check'[k].pc \in {"erase", "advance", "send", "own", "write"} => move'[k].src \in sources'
    PROVE  Sourced'
BY DEF Sourced, Others, OtherMoves

LEMMA SourcedKept ==
    ASSUME Shapes, Sourced, [Next]_vars
    PROVE  Sourced' /\ sources \subseteq sources'
<1>0. ASSUME check' = check, move' = move, sources' = sources
      PROVE  Sourced' /\ sources \subseteq sources'
  BY <1>0 DEF Sourced
<1>1. CASE UNCHANGED vars
  BY <1>0, <1>1 DEF vars
<1>2. CASE Wait
  BY <1>0, <1>2 DEF Wait, vars
<1>3. ASSUME NEW s \in Servers, Listen(s) PROVE Sourced' /\ sources \subseteq sources'
  BY <1>0, <1>3 DEF Listen
<1>4. ASSUME NEW c \in NewClients, ClientSubscribe(c) PROVE Sourced' /\ sources \subseteq sources'
  BY <1>0, <1>4 DEF ClientSubscribe
<1>5. ASSUME NEW k \in Callers, HandlerStep(k) PROVE Sourced' /\ sources \subseteq sources'
  BY <1>0, <1>5 DEF HandlerStep, SubCount, SubRecord, CallBroken
<1>6. ASSUME NEW k \in Coordinators, CheckStep(k) PROVE Sourced' /\ sources \subseteq sources'
  <2>0. sources \subseteq sources'
    BY <1>6 DEF CheckStep, Scan, getFreeNodeList, RemoveFiles, UpdateCluster, MakePlan,
         RedistributeByPlan, nodeAttach, ReadOwn, WriteOwn
  <2>1. CASE Scan(k) \/ nodeAttach(k)
    <3>1. PICK T : check' = [check EXCEPT ![k] = NextEvent(k, T)]
      BY <2>1 DEF Scan, nodeAttach
    <3>2. NextEvent(k, T).pc \in {"list", "done"}
      BY DEF NextEvent, NoCheck
    <3>3. Others(k) /\ check'[k].pc \in {"list", "done"}
      BY <3>1, <3>2 DEF Others, Shapes
    <3>4. OtherMoves(k)
      BY <2>1 DEF Scan, nodeAttach, OtherMoves, Shapes
    <3> QED BY <2>0, <3>3, <3>4, SourcedOn
  <2>2. CASE getFreeNodeList(k)
    <3>1. Others(k) /\ check'[k].pc = "remove"
      BY <2>2 DEF getFreeNodeList, Shapes, Others, CheckFields
    <3>2. OtherMoves(k)
      BY <2>2 DEF getFreeNodeList, OtherMoves, Shapes
    <3> QED BY <2>0, <3>1, <3>2, SourcedOn
  <2>3. CASE RemoveFiles(k)
    <3>1. Others(k) /\ check'[k].pc = "update"
      BY <2>3, SetPc DEF RemoveFiles
    <3>2. OtherMoves(k)
      BY <2>3 DEF RemoveFiles, OtherMoves, Shapes
    <3> QED BY <2>0, <3>1, <3>2, SourcedOn
  <2>4. ASSUME NEW s \in Servers, UpdateCluster(k, s) PROVE Sourced'
    <3>1. Others(k) /\ check'[k].pc = check[k].pc
      BY <2>4 DEF UpdateCluster, Shapes, Others, CheckFields
    <3>2. OtherMoves(k) /\ check[k].pc = "update"
      BY <2>4 DEF UpdateCluster, OtherMoves, Shapes, At
    <3> QED BY <2>0, <3>1, <3>2, SourcedOn
  <2>5. CASE MakePlan(k)
    <3>1. Others(k) /\ check'[k].pc \in {"plan", "crashed"}
      BY <2>5 DEF MakePlan, Shapes, Others, CheckFields
    <3>2. OtherMoves(k)
      BY <2>5 DEF MakePlan, OtherMoves, Shapes
    <3> QED BY <2>0, <3>1, <3>2, SourcedOn
  <2>6. CASE RedistributeByPlan(k)
    <3>1. Others(k)
      BY <2>6 DEF RedistributeByPlan, Shapes, Others, CheckFields
    <3>2. OtherMoves(k) /\ move'[k].src = Head(check[k].plans).srcAddr
      BY <2>6 DEF RedistributeByPlan, Shapes, OtherMoves
    <3>3. Head(check[k].plans).srcAddr \in sources'
      BY <2>6 DEF RedistributeByPlan
    <3> QED BY <2>0, <3>1, <3>2, <3>3, SourcedOn
  <2>7. CASE ReadOwn(k)
    <3>1. Others(k) /\ check[k].pc = "own"
      BY <2>7 DEF ReadOwn, Shapes, Others, CheckFields, At
    <3>2. OtherMoves(k) /\ move' = move /\ sources' = sources
      BY <2>7 DEF ReadOwn, OtherMoves, Shapes
    <3>3. move'[k].src \in sources'
      BY <3>1, <3>2 DEF Sourced
    <3> QED BY <2>0, <3>1, <3>2, <3>3, SourcedOn
  <2>8. CASE WriteOwn(k)
    <3>1. Others(k) /\ check'[k].pc = "plan"
      BY <2>8, SetPc DEF WriteOwn
    <3>2. OtherMoves(k)
      BY <2>8 DEF WriteOwn, OtherMoves, Shapes
    <3> QED BY <2>0, <3>1, <3>2, SourcedOn
  <2> QED BY <1>6, <2>0, <2>1, <2>2, <2>3, <2>4, <2>5, <2>6, <2>7, <2>8 DEF CheckStep
<1>7. ASSUME NEW k \in Coordinators, MoveStep(k) PROVE Sourced' /\ sources \subseteq sources'
  <2>1. Others(k)
    BY <1>7 DEF MoveStep, EraseSub, Advance, UseDangling, SendSub, Moved, Others, Shapes
  <2>2. OtherMoves(k) /\ move'[k].src = move[k].src
    <3>1. CASE EraseSub(k)
      BY <3>1 DEF EraseSub, Shapes, MoveFields, OtherMoves
    <3>2. CASE Advance(k)
      BY <3>2 DEF Advance, Shapes, MoveFields, OtherMoves
    <3>3. CASE SendSub(k)
      BY <3>3 DEF SendSub, Shapes, MoveFields, OtherMoves
    <3>4. CASE UseDangling(k) \/ Moved(k)
      BY <3>4 DEF UseDangling, Moved, Shapes, OtherMoves
    <3> QED BY <1>7, <3>1, <3>2, <3>3, <3>4 DEF MoveStep
  <2>3. check[k].pc \in {"erase", "advance", "send"} /\ sources' = sources
    BY <1>7 DEF MoveStep, EraseSub, Advance, UseDangling, SendSub, Moved, At
  <2>4. move'[k].src \in sources'
    BY <2>2, <2>3 DEF Sourced
  <2> QED BY <2>1, <2>2, <2>3, <2>4, SourcedOn
<1> QED BY <1>1, <1>2, <1>3, <1>4, <1>5, <1>6, <1>7 DEF Next


-----------------------------------------------------------------------------
(* A step that leaves the subscriptions of event e at server s, their      *)
(* handlers and the entries of s in the records alone; an entry that it    *)
(* makes has no subscriptions yet.                                         *)
EntryKept(k, s, e) ==
    LET r == eventRecordMap[k][e]
        q == eventRecordMap'[k][e]
    IN /\ s \in DOMAIN r => s \in DOMAIN q /\ q[s] = r[s]
       /\ s \in DOMAIN q => s \in DOMAIN r \/ q[s] = 0
CallsKept(s, e) ==
    \A k \in Callers, l \in {"count", "record"} :
        Waits(k, l, s, e) \/ Waits(k, l, s, e)' => call'[k] = call[k]
Steady(s, e) ==
    /\ s \in listening' => s \in listening
    /\ subtoClient'[s][e] = subtoClient[s][e]
    /\ CallsKept(s, e)
    /\ \A k \in Coordinators : EntryKept(k, s, e)

LEMMA HeldNat ==
    ASSUME Stores, NEW s \in Servers, NEW e \in Events
    PROVE  Held(s, e) \in Nat
<1>1. subtoClient[s][e] \in SUBSET Clients
  BY DEF Stores
<1> QED BY <1>1, ClientsCounted DEF Held

LEMMA SteadyKeeps ==
    ASSUME Stores, Directories, Descends, NEW s \in Servers, NEW e \in Events, Steady(s, e),
           WithinBounds(s, e), UpToDate(s, e)
    PROVE  WithinBounds(s, e)' /\ UpToDate(s, e)'
<1>1. Held(s, e)' = Held(s, e) /\ Held(s, e) \in Nat
  BY HeldNat DEF Held, Steady
<1>2. ASSUME NEW k \in Callers, Waits(k, "record", s, e)' PROVE call'[k].num <= Held(s, e)
  <2>1. call'[k] = call[k]
    BY <1>2 DEF Steady, CallsKept
  <2>2. Waits(k, "record", s, e)
    BY <1>2, <2>1 DEF Waits
  <2> QED BY <2>1, <2>2 DEF WithinBounds
<1>3. ASSUME NEW k \in Coordinators, s \in DOMAIN eventRecordMap'[k][e]
      PROVE  eventRecordMap'[k][e][s] <= Held(s, e)
  <2>1. EntryKept(k, s, e)
    BY DEF Steady
  <2> QED BY <1>1, <1>3, <2>1 DEF EntryKept, WithinBounds
<1>4. WithinBounds(s, e)'
  BY <1>1, <1>2, <1>3 DEF WithinBounds
<1>5. ASSUME s \in listening'
      PROVE  subtoClient'[s][e] = {} \/ InHand(s, e)' \/ Reported(s, e)'
  <2>1. subtoClient[s][e] = {} \/ InHand(s, e) \/ Reported(s, e)
    BY <1>5 DEF UpToDate, Steady
  <2>2. CASE subtoClient[s][e] = {}
    BY <2>2 DEF Steady
  <2>3. CASE InHand(s, e)
    <3>1. PICK k \in Callers : Waits(k, "count", s, e)
      BY <2>3 DEF InHand
    <3>2. call'[k] = call[k]
      BY <3>1 DEF Steady, CallsKept
    <3>3. Waits(k, "count", s, e)'
      BY <3>1, <3>2 DEF Waits
    <3> QED BY <3>3 DEF InHand
  <2>4. CASE Reported(s, e)
    <3>1. PICK to : to = coordinatorClients[s][1]
      OBVIOUS
    <3>2. coordinatorClients[s] # <<>> /\ coordinatorClients'[s] # <<>> /\ coordinatorClients'[s][1] = to
      BY <2>4, <3>1 DEF Reported, Descends, FirstKept
    <3>3. to \in Coordinators
      <4>1. coordinatorClients[s] \in Seq(Coordinators)
        BY DEF Directories
      <4> QED BY <3>1, <3>2, <4>1
    <3>4. CASE to \notin listening
      BY <3>2, <3>3, <3>4 DEF Reported, Descends
    <3>5. CASE OnItsWay(s, e)
      <4>1. PICK k \in Callers : Waits(k, "record", s, e) /\ call[k].num = Held(s, e)
        BY <3>5 DEF OnItsWay
      <4>2. call'[k] = call[k]
        BY <4>1 DEF Steady, CallsKept
      <4>3. Waits(k, "record", s, e)' /\ call'[k].num = Held(s, e)'
        BY <1>1, <4>1, <4>2 DEF Waits
      <4>4. OnItsWay(s, e)'
        BY <4>3 DEF OnItsWay
      <4> QED BY <3>2, <4>4 DEF Reported
    <3>6. CASE Arrived(s, e, to)
      <4>1. EntryKept(to, s, e)
        BY <3>3 DEF Steady
      <4>2. s \in DOMAIN eventRecordMap'[to][e] /\ eventRecordMap'[to][e][s] = Held(s, e)'
        BY <1>1, <3>6, <4>1 DEF Arrived, EntryKept
      <4> QED BY <3>2, <4>2 DEF Reported, Arrived
    <3> QED BY <2>4, <3>1, <3>4, <3>5, <3>6 DEF Reported
  <2> QED BY <2>1, <2>2, <2>3, <2>4
<1>6. UpToDate(s, e)'
  BY <1>5 DEF UpToDate
<1> QED BY <1>4, <1>6

(* Steps that touch none of it are steady. *)
LEMMA SteadySame ==
    ASSUME subtoClient' = subtoClient, call' = call, eventRecordMap' = eventRecordMap,
           listening' \subseteq listening, NEW s, NEW e
    PROVE  Steady(s, e)
BY DEF Steady, CallsKept, EntryKept, Waits

(* The insertion of a client at s. *)
LEMMA InsertNumbers ==
    ASSUME Shapes, Stores, Directories, Reporting, Counted, Descends, Numbered, NEW k \in Callers,
           call[k].pc \in {"none", "done"}, NEW c \in Clients, NEW t \in listening, Insert(k, c, t),
           listening' = listening, eventRecordMap' = eventRecordMap, sources' = sources
    PROVE  Numbered'
<1>1. /\ t \in Servers /\ subtoClient' = [subtoClient EXCEPT ![t][EventOf[c]] = @ \cup {c}]
      /\ call' = [call EXCEPT ![k] = Call("count", c, t, 0)]
  BY DEF Stores, Insert
<1>2. /\ subtoClient' \in [Servers -> [Events -> SUBSET Clients]]
      /\ \A s \in Servers, e \in Events : subtoClient'[s][e] =
           IF s = t /\ e = EventOf[c] THEN subtoClient[s][e] \cup {c} ELSE subtoClient[s][e]
  <2>1. InsertedAt(c, t)
    BY <1>1, Inserted
  <2> QED BY <2>1 DEF InsertedAt
<1>3. /\ call'[k].pc = "count" /\ call'[k].at = t /\ call'[k].client = c
      /\ \A j \in Callers \ {k} : call'[j] = call[j]
  <2>1. /\ Call("count", c, t, 0).pc = "count" /\ Call("count", c, t, 0).at = t
        /\ Call("count", c, t, 0).client = c
    BY DEF Call
  <2>2. call'[k] = Call("count", c, t, 0) /\ \A j \in Callers \ {k} : call'[j] = call[j]
    BY <1>1 DEF Shapes
  <2> QED BY <2>1, <2>2
<1> SUFFICES ASSUME NEW s \in Servers \ sources, NEW e \in Events
             PROVE  WithinBounds(s, e)' /\ UpToDate(s, e)'
  BY DEF Numbered
<1>4. WithinBounds(s, e) /\ UpToDate(s, e)
  BY DEF Numbered
<1>5. CASE ~ (s = t /\ e = EventOf[c])
  <2>1. CallsKept(s, e)
    <3>1. ASSUME NEW l \in {"count", "record"} PROVE ~ Waits(k, l, s, e) /\ ~ Waits(k, l, s, e)'
      BY <1>3, <1>5 DEF Waits
    <3> QED BY <1>3, <3>1 DEF CallsKept
  <2>2. Steady(s, e)
    BY <1>2, <1>5, <2>1 DEF Steady, EntryKept
  <2> QED BY <1>4, <2>2, SteadyKeeps
<1>6. CASE s = t /\ e = EventOf[c]
  <2>1. Held(s, e) \in Nat /\ Held(s, e)' \in Nat /\ Held(s, e) <= Held(s, e)'
    <3>1. subtoClient[s][e] \in SUBSET Clients /\ subtoClient'[s][e] = subtoClient[s][e] \cup {c}
      <4>1. subtoClient[s][e] \in SUBSET Clients
        BY DEF Stores
      <4>2. subtoClient'[s][e] = subtoClient[s][e] \cup {c}
        BY ONLY <1>2, <1>6, s \in Servers \ sources, e \in Events
      <4> QED BY <4>1, <4>2
    <3>2. IsFiniteSet(subtoClient'[s][e]) /\ subtoClient'[s][e] \in SUBSET Clients
      BY <3>1, ClientAssumption, FS_Subset
    <3>3. Cardinality(subtoClient[s][e]) <= Cardinality(subtoClient'[s][e])
      BY <3>1, <3>2, FS_Subset
    <3> QED BY <3>1, <3>2, <3>3, ClientsCounted DEF Held
  <2>2. ASSUME NEW j \in Callers, Waits(j, "record", s, e)' PROVE call'[j].num <= Held(s, e)'
    <3>1. j # k /\ call'[j] = call[j]
      BY <1>3, <2>2 DEF Waits
    <3>2. Waits(j, "record", s, e)
      BY <2>2, <3>1 DEF Waits
    <3>3. PICK h \in Nat, g \in Nat : h = Held(s, e) /\ g = Held(s, e)' /\ h <= g
      BY <2>1
    <3>4. call[j].num <= h
      BY <1>4, <3>2, <3>3 DEF WithinBounds
    <3>5. call[j].num \in Nat
      BY <3>2 DEF Waits, Reporting, Reports
    <3> QED BY <3>1, <3>3, <3>4, <3>5
  <2>3. ASSUME NEW j \in Coordinators, s \in DOMAIN eventRecordMap'[j][e]
        PROVE  eventRecordMap'[j][e][s] <= Held(s, e)'
    <3>1. eventRecordMap[j][e][s] \in Nat
      BY <2>3 DEF Counted, Counts
    <3>2. eventRecordMap[j][e][s] <= Held(s, e)
      BY <1>4, <2>3 DEF WithinBounds
    <3>3. PICK h \in Nat, g \in Nat : h = Held(s, e) /\ g = Held(s, e)' /\ h <= g
      BY <2>1
    <3> QED BY <3>1, <3>2, <3>3
  <2>4. WithinBounds(s, e)'
    BY <2>2, <2>3 DEF WithinBounds
  <2>5. Waits(k, "count", s, e)'
    BY <1>3, <1>6 DEF Waits
  <2>6. UpToDate(s, e)'
    BY <2>5 DEF UpToDate, InHand
  <2> QED BY <2>4, <2>6
<1> QED BY <1>5, <1>6


(* The handler takes the number. *)
LEMMA CountNumbers ==
    ASSUME Shapes, Stores, Directories, Reporting, Descends, Numbered, NEW k \in Callers, SubCount(k)
    PROVE  Numbered'
<1>1. PICK t \in Servers, c \in Clients : t = call[k].at /\ c = call[k].client
  BY DEF SubCount, Reporting, Reports
<1>2. PICK f \in Events : f = EventOf[c]
  BY ClientAssumption
<1>3. /\ call' = [call EXCEPT ![k].pc = "record", ![k].num = Held(t, f)]
      /\ subtoClient' = subtoClient /\ eventRecordMap' = eventRecordMap /\ listening' = listening
      /\ sources' = sources /\ call[k].pc = "count"
  BY <1>1, <1>2 DEF SubCount, Held
<1>4. /\ call'[k].pc = "record" /\ call'[k].at = t /\ call'[k].client = c /\ call'[k].num = Held(t, f)
      /\ \A j \in Callers \ {k} : call'[j] = call[j]
  BY <1>1, <1>3 DEF Shapes, CallFields
<1>5. coordinatorClients'[t] # <<>>
  <2>1. /\ coordinatorClients' = [coordinatorClients EXCEPT ![t] =
              IF @ = <<>> THEN <<GM_CLUSTERDIR[t]>> ELSE @]
        /\ GM_CLUSTERDIR' = GM_CLUSTERDIR
    BY <1>1 DEF SubCount
  <2> QED BY <2>1, CountDirectories
<1> SUFFICES ASSUME NEW s \in Servers \ sources, NEW e \in Events
             PROVE  WithinBounds(s, e)' /\ UpToDate(s, e)'
  BY <1>3 DEF Numbered
<1>6. WithinBounds(s, e) /\ UpToDate(s, e)
  BY DEF Numbered
<1>7. CASE ~ (s = t /\ e = f)
  <2>1. CallsKept(s, e)
    <3>1. ASSUME NEW l \in {"count", "record"} PROVE ~ Waits(k, l, s, e) /\ ~ Waits(k, l, s, e)'
      BY <1>1, <1>2, <1>4, <1>7 DEF Waits
    <3> QED BY <1>4, <3>1 DEF CallsKept
  <2>2. Steady(s, e)
    BY <1>3, <2>1 DEF Steady, EntryKept
  <2> QED BY <1>6, <2>2, SteadyKeeps
<1>8. CASE s = t /\ e = f
  <2>1. Held(s, e)' = Held(s, e) /\ Held(s, e) \in Nat
    BY <1>3, HeldNat DEF Held
  <2>2. ASSUME NEW j \in Callers, Waits(j, "record", s, e)' PROVE call'[j].num <= Held(s, e)'
    <3>1. CASE j = k
      BY <1>4, <1>8, <2>1, <3>1
    <3>2. CASE j # k
      <4>1. call'[j] = call[j]
        BY <1>4, <3>2
      <4>2. Waits(j, "record", s, e)
        BY <2>2, <4>1 DEF Waits
      <4> QED BY <1>6, <2>1, <4>1, <4>2 DEF WithinBounds
    <3> QED BY <3>1, <3>2
  <2>3. WithinBounds(s, e)'
    BY <1>3, <1>6, <2>1, <2>2 DEF WithinBounds
  <2>4. Waits(k, "record", s, e)' /\ call'[k].num = Held(s, e)'
    BY <1>2, <1>4, <1>8, <2>1 DEF Waits
  <2>5. OnItsWay(s, e)'
    BY <2>4 DEF OnItsWay
  <2>6. UpToDate(s, e)'
    BY <1>5, <1>8, <2>5 DEF UpToDate, Reported
  <2> QED BY <2>3, <2>6
<1> QED BY <1>7, <1>8

(* What updateStatusMap does to a record of numbers. *)
LEMMA StatusEntries ==
    ASSUME NEW r, r \in [DOMAIN r -> Nat], NEW t, NEW n \in Nat
    PROVE  LET q == updateStatusMap(r, t, n)
           IN /\ \A s : s # t => /\ s \in DOMAIN q <=> s \in DOMAIN r
                                 /\ s \in DOMAIN r => q[s] = r[s]
              /\ t \in DOMAIN q
              /\ t \notin DOMAIN r => q[t] = n
              /\ t \in DOMAIN r => q[t] \in {r[t], n} /\ q[t] >= r[t] /\ q[t] >= n
<1> DEFINE q == updateStatusMap(r, t, n)
<1>1. /\ \A s : s # t => /\ s \in DOMAIN q <=> s \in DOMAIN r
                         /\ s \in DOMAIN r => q[s] = r[s]
      /\ t \in DOMAIN q /\ (t \notin DOMAIN r => q[t] = n)
      /\ t \in DOMAIN r => q[t] = Max({r[t], n})
  BY DEF updateStatusMap
<1>2. ASSUME t \in DOMAIN r PROVE Max({r[t], n}) \in {r[t], n} /\ Max({r[t], n}) >= r[t] /\ Max({r[t], n}) >= n
  <2>1. PICK a \in Nat : a = r[t]
    BY <1>2
  <2>2. \E x \in {a, n} : \A y \in {a, n} : x >= y
    OBVIOUS
  <2>3. Max({a, n}) \in {a, n} /\ \A y \in {a, n} : Max({a, n}) >= y
    BY ONLY <2>2, Zenon DEF Max
  <2> QED BY <2>1, <2>3
<1> HIDE DEF q
<1>3. t \in DOMAIN r => q[t] \in {r[t], n} /\ q[t] >= r[t] /\ q[t] >= n
  BY ONLY <1>1, <1>2, Zenon
<1> QED BY <1>1, <1>3 DEF q

(* The number arrives, if the coordinator is up. *)
LEMMA RecordNumbers ==
    ASSUME Shapes, Stores, Directories, Reporting, Counted, Descends, Numbered,
           NEW k \in Callers, SubRecord(k)
    PROVE  Numbered'
<1>1. PICK t \in Servers, c \in Clients, n \in Nat :
        t = call[k].at /\ c = call[k].client /\ n = call[k].num /\ coordinatorClients[t] # <<>>
  BY DEF SubRecord, Reporting, Reports
<1>2. PICK f \in Events : f = EventOf[c]
  BY ClientAssumption
<1>3. PICK to \in Coordinators : to = coordinatorClients[t][1]
  <2>1. coordinatorClients[t] \in Seq(Coordinators)
    BY DEF Directories
  <2> QED BY <1>1, <2>1
<1>4. /\ call' = [call EXCEPT ![k].pc = "done"] /\ call[k].pc = "record"
      /\ subtoClient' = subtoClient /\ listening' = listening /\ sources' = sources
      /\ coordinatorClients' = coordinatorClients
  BY DEF SubRecord, serverVars
<1>5. call'[k].pc = "done" /\ \A j \in Callers \ {k} : call'[j] = call[j]
  BY <1>4 DEF Shapes, CallFields
<1> DEFINE q == updateStatusMap(eventRecordMap[to][f], t, n)
<1>6. IF to \in listening THEN eventRecordMap' = [eventRecordMap EXCEPT ![to][f] = q]
                          ELSE eventRecordMap' = eventRecordMap
  BY <1>1, <1>2, <1>3 DEF SubRecord
<1>7. eventRecordMap[to][f] \in [DOMAIN eventRecordMap[to][f] -> Nat]
  BY DEF Counted, Counts
<1>8. /\ \A s : s # t => /\ s \in DOMAIN q <=> s \in DOMAIN eventRecordMap[to][f]
                         /\ s \in DOMAIN eventRecordMap[to][f] => q[s] = eventRecordMap[to][f][s]
      /\ t \in DOMAIN q
      /\ t \notin DOMAIN eventRecordMap[to][f] => q[t] = n
      /\ t \in DOMAIN eventRecordMap[to][f] =>
           /\ q[t] \in {eventRecordMap[to][f][t], n}
           /\ q[t] >= eventRecordMap[to][f][t] /\ q[t] >= n
  BY <1>7, StatusEntries
<1> HIDE DEF q
<1>9. \A j \in Coordinators, e \in Events :
        eventRecordMap'[j][e] = IF to \in listening /\ j = to /\ e = f THEN q ELSE eventRecordMap[j][e]
  BY <1>6 DEF Counted
<1> SUFFICES ASSUME NEW s \in Servers \ sources, NEW e \in Events
             PROVE  WithinBounds(s, e)' /\ UpToDate(s, e)'
  BY <1>4 DEF Numbered
<1>10. WithinBounds(s, e) /\ UpToDate(s, e)
  BY DEF Numbered
<1>11. CASE ~ (s = t /\ e = f)
  <2>1. CallsKept(s, e)
    <3>1. ASSUME NEW l \in {"count", "record"} PROVE ~ Waits(k, l, s, e) /\ ~ Waits(k, l, s, e)'
      BY <1>1, <1>2, <1>5, <1>11 DEF Waits
    <3> QED BY <1>5, <3>1 DEF CallsKept
  <2>2. ASSUME NEW j \in Coordinators PROVE EntryKept(j, s, e)
    BY <1>8, <1>9, <1>11 DEF EntryKept
  <2>3. Steady(s, e)
    BY <1>4, <2>1, <2>2 DEF Steady
  <2> QED BY <1>10, <2>3, SteadyKeeps
<1>12. CASE s = t /\ e = f
  <2>1. PICK h \in Nat : h = Held(s, e) /\ h = Held(s, e)'
    BY <1>4, HeldNat DEF Held
  <2>2. n <= h
    <3>1. Waits(k, "record", s, e)
      BY <1>1, <1>2, <1>4, <1>12 DEF Waits
    <3> QED BY <1>1, <1>10, <2>1, <3>1 DEF WithinBounds
  <2>3. q[s] \in Nat /\ q[s] <= h /\ q[s] >= n
    <3>1. CASE t \in DOMAIN eventRecordMap[to][f]
      <4>1. PICK a \in Nat : a = eventRecordMap[to][f][t]
        BY <1>7, <3>1
      <4>2. a <= h
        BY <1>10, <1>12, <2>1, <3>1, <4>1 DEF WithinBounds
      <4>3. q[t] \in {a, n} /\ q[t] >= n
        BY <1>8, <3>1, <4>1
      <4> QED BY <1>12, <2>2, <4>2, <4>3
    <3>2. CASE t \notin DOMAIN eventRecordMap[to][f]
      BY <1>8, <1>12, <2>2, <3>2
    <3> QED BY <3>1, <3>2
  <2>4. ASSUME NEW j \in Callers, Waits(j, "record", s, e)' PROVE call'[j].num <= Held(s, e)'
    <3>1. j # k /\ call'[j] = call[j]
      BY <1>5, <2>4 DEF Waits
    <3>2. Waits(j, "record", s, e)
      BY <2>4, <3>1 DEF Waits
    <3> QED BY <1>10, <2>1, <3>1, <3>2 DEF WithinBounds
  <2>5. ASSUME NEW j \in Coordinators, s \in DOMAIN eventRecordMap'[j][e]
        PROVE  eventRecordMap'[j][e][s] <= Held(s, e)'
    <3>1. CASE to \in listening /\ j = to
      <4>1. eventRecordMap'[j][e] = q
        BY <1>9, <1>12, <3>1
      <4> QED BY <2>1, <2>3, <4>1
    <3>2. CASE ~ (to \in listening /\ j = to)
      <4>1. eventRecordMap'[j][e] = eventRecordMap[j][e]
        BY <1>9, <3>2
      <4> QED BY <1>10, <2>1, <2>5, <4>1 DEF WithinBounds
    <3> QED BY <3>1, <3>2
  <2>6. WithinBounds(s, e)'
    BY <2>4, <2>5 DEF WithinBounds
  <2>7. ASSUME s \in listening'
        PROVE  subtoClient'[s][e] = {} \/ InHand(s, e)' \/ Reported(s, e)'
    <3>1. subtoClient[s][e] = {} \/ InHand(s, e) \/ Reported(s, e)
      BY <1>4, <1>10, <2>7 DEF UpToDate
    <3>2. CASE InHand(s, e)
      <4>1. PICK j \in Callers : Waits(j, "count", s, e)
        BY <3>2 DEF InHand
      <4>2. j # k /\ call'[j] = call[j]
        BY <1>4, <1>5, <4>1 DEF Waits
      <4>3. Waits(j, "count", s, e)'
        BY <4>1, <4>2 DEF Waits
      <4> QED BY <4>3 DEF InHand
    <3>3. CASE Reported(s, e) /\ to \notin listening
      BY <1>1, <1>3, <1>4, <1>12, <3>3 DEF Reported
    <3>4. CASE Reported(s, e) /\ to \in listening
      <4>1. eventRecordMap'[to][e] = q
        BY <1>9, <1>12, <3>4
      <4>2. OnItsWay(s, e) \/ Arrived(s, e, to)
        BY <1>3, <1>12, <3>4 DEF Reported
      <4>3. CASE Arrived(s, e, to)
        <5>1. t \in DOMAIN eventRecordMap[to][f] /\ eventRecordMap[to][f][t] = h
          BY <1>12, <2>1, <4>3 DEF Arrived
        <5>2. q[s] >= h
          BY <1>8, <1>12, <5>1
        <5>3. q[s] = h
          BY <2>3, <5>2
        <5>4. Arrived(s, e, to)'
          BY <1>8, <1>12, <2>1, <4>1, <5>3 DEF Arrived
        <5> QED BY <1>1, <1>3, <1>4, <1>12, <5>4 DEF Reported, Arrived
      <4>4. ASSUME NEW j \in Callers, Waits(j, "record", s, e), call[j].num = Held(s, e)
            PROVE  Reported(s, e)'
        <5>1. CASE j = k
          <6>1. q[s] = h
            BY <1>1, <2>1, <2>3, <4>4, <5>1
          <6>2. Arrived(s, e, to)'
            BY <1>8, <1>12, <2>1, <4>1, <6>1 DEF Arrived
          <6> QED BY <1>1, <1>3, <1>4, <1>12, <6>2 DEF Reported, Arrived
        <5>2. CASE j # k
          <6>1. call'[j] = call[j]
            BY <1>5, <5>2
          <6>2. Waits(j, "record", s, e)' /\ call'[j].num = Held(s, e)'
            BY <2>1, <4>4, <6>1 DEF Waits
          <6>3. OnItsWay(s, e)'
            BY <6>2 DEF OnItsWay
          <6> QED BY <1>1, <1>4, <1>12, <6>3 DEF Reported
        <5> QED BY <5>1, <5>2
      <4> QED BY <4>2, <4>3, <4>4 DEF OnItsWay
    <3> QED BY <1>4, <3>1, <3>2, <3>3, <3>4
  <2>8. UpToDate(s, e)'
    BY <2>7 DEF UpToDate
  <2> QED BY <2>6, <2>8
<1> QED BY <1>11, <1>12


(* Steps that are steady for every server that is no source after them. *)
LEMMA SteadyNumbers ==
    ASSUME Stores, Directories, Descends, Numbered, sources \subseteq sources',
           \A s \in Servers \ sources', e \in Events : Steady(s, e)
    PROVE  Numbered'
<1> SUFFICES ASSUME NEW s \in Servers \ sources', NEW e \in Events
             PROVE  WithinBounds(s, e)' /\ UpToDate(s, e)'
  BY DEF Numbered
<1>1. s \in Servers \ sources /\ Steady(s, e)
  OBVIOUS
<1>2. WithinBounds(s, e) /\ UpToDate(s, e)
  BY <1>1 DEF Numbered
<1> QED BY <1>1, <1>2, SteadyKeeps

(* The server of a call that is broken off is down. *)
LEMMA BrokenNumbers ==
    ASSUME Shapes, Stores, Directories, Descends, Numbered, NEW k \in Callers, CallBroken(k)
    PROVE  Numbered'
<1>1. /\ call' = [call EXCEPT ![k].pc = "done"] /\ call[k].at \notin listening
      /\ subtoClient' = subtoClient /\ listening' = listening /\ sources' = sources
      /\ eventRecordMap' = eventRecordMap
  BY DEF CallBroken, serverVars
<1>2. call'[k].pc = "done" /\ \A j \in Callers \ {k} : call'[j] = call[j]
  BY <1>1 DEF Shapes, CallFields
<1> SUFFICES ASSUME NEW s \in Servers \ sources, NEW e \in Events
             PROVE  WithinBounds(s, e)' /\ UpToDate(s, e)'
  BY <1>1 DEF Numbered
<1>3. WithinBounds(s, e) /\ UpToDate(s, e)
  BY DEF Numbered
<1>4. CASE s \in listening
  <2>1. CallsKept(s, e)
    <3>1. ASSUME NEW l \in {"count", "record"} PROVE ~ Waits(k, l, s, e) /\ ~ Waits(k, l, s, e)'
      BY <1>1, <1>2, <1>4 DEF Waits
    <3> QED BY <1>2, <3>1 DEF CallsKept
  <2>2. Steady(s, e)
    BY <1>1, <2>1 DEF Steady, EntryKept
  <2> QED BY <1>3, <2>2, SteadyKeeps
<1>5. CASE s \notin listening
  <2>1. UpToDate(s, e)'
    BY <1>1, <1>5 DEF UpToDate
  <2>2. Held(s, e)' = Held(s, e)
    BY <1>1 DEF Held
  <2>3. ASSUME NEW j \in Callers, Waits(j, "record", s, e)' PROVE call'[j].num <= Held(s, e)'
    <3>1. call'[j] = call[j]
      BY <1>2, <2>3 DEF Waits
    <3>2. Waits(j, "record", s, e)
      BY <2>3, <3>1 DEF Waits
    <3> QED BY <1>3, <2>2, <3>1, <3>2 DEF WithinBounds
  <2>4. WithinBounds(s, e)'
    BY <1>1, <1>3, <2>2, <2>3 DEF WithinBounds
  <2> QED BY <2>1, <2>4
<1> QED BY <1>4, <1>5

(* A server of the pool comes up. *)
LEMMA ListenNumbers ==
    ASSUME Stores, Directories, Descends, Asleep, Numbered, NEW t \in Servers, Listen(t)
    PROVE  Numbered'
<1>1. /\ subtoClient' = subtoClient /\ call' = call /\ eventRecordMap' = eventRecordMap
      /\ listening' = listening \cup {t} /\ sources' = sources /\ t \in FreeServers \ listening
  BY DEF Listen, serverVars
<1> SUFFICES ASSUME NEW s \in Servers \ sources, NEW e \in Events
             PROVE  WithinBounds(s, e)' /\ UpToDate(s, e)'
  BY <1>1 DEF Numbered
<1>2. WithinBounds(s, e) /\ UpToDate(s, e)
  BY DEF Numbered
<1>3. CASE s # t
  <2>1. Steady(s, e)
    BY <1>1, <1>3 DEF Steady, CallsKept, EntryKept, Waits
  <2> QED BY <1>2, <2>1, SteadyKeeps
<1>4. CASE s = t
  <2>1. subtoClient'[s][e] = {}
    BY <1>1, <1>4 DEF Asleep
  <2>2. WithinBounds(s, e)'
    <3>1. Held(s, e)' = Held(s, e)
      BY <1>1 DEF Held
    <3> QED BY <1>1, <1>2, <3>1 DEF WithinBounds, Waits
  <2> QED BY <2>1, <2>2 DEF UpToDate
<1> QED BY <1>3, <1>4

(* A new server gets into a record with no subscriptions. *)
LEMMA UpdateNumbers ==
    ASSUME Stores, Carry, Directories, Counted, Descends, Numbered,
           NEW k \in Coordinators, NEW t \in Servers, UpdateCluster(k, t)
    PROVE  Numbered'
<1>1. PICK f \in Events : f = check[k].event
  BY DEF UpdateCluster, At, Carry, Carries
<1> DEFINE r == eventRecordMap[k][f]
           q == updateStatusMap(r, t, 0)
<1>2. /\ subtoClient' = subtoClient /\ call' = call /\ listening' = listening /\ sources' = sources
      /\ eventRecordMap' = [eventRecordMap EXCEPT ![k][f] = q]
  BY <1>1 DEF UpdateCluster
<1>3. r \in [DOMAIN r -> Nat]
  BY DEF Counted, Counts
<1> HIDE DEF r
<1>4. \A s : /\ s \in DOMAIN r => s \in DOMAIN q /\ q[s] = r[s]
             /\ s \in DOMAIN q => s \in DOMAIN r \/ q[s] = 0
  <2>1. /\ \A s : s # t => /\ s \in DOMAIN q <=> s \in DOMAIN r
                           /\ s \in DOMAIN r => q[s] = r[s]
        /\ t \in DOMAIN q
        /\ t \notin DOMAIN r => q[t] = 0
        /\ t \in DOMAIN r => q[t] \in {r[t], 0} /\ q[t] >= r[t] /\ q[t] >= 0
    BY <1>3, StatusEntries
  <2>2. t \in DOMAIN r => q[t] = r[t]
    BY <1>3, <2>1
  <2> HIDE DEF q
  <2> QED BY <2>1, <2>2
<1> HIDE DEF q
<1>5. \A j \in Coordinators, e \in Events :
        eventRecordMap'[j][e] = IF j = k /\ e = f THEN q ELSE eventRecordMap[j][e]
  BY <1>2 DEF Counted
<1>6. ASSUME NEW s \in Servers \ sources', NEW e \in Events PROVE Steady(s, e)
  <2>1. ASSUME NEW j \in Coordinators PROVE EntryKept(j, s, e)
    <3>1. CASE j = k /\ e = f
      <4>1. eventRecordMap'[j][e] = q /\ eventRecordMap[j][e] = r
        BY <1>5, <3>1 DEF r
      <4> QED BY <1>4, <4>1 DEF EntryKept
    <3>2. CASE ~ (j = k /\ e = f)
      BY <1>5, <3>2 DEF EntryKept
    <3> QED BY <3>1, <3>2
  <2> QED BY <1>2, <2>1 DEF Steady, CallsKept, Waits
<1> QED BY <1>2, <1>6, SteadyNumbers

(* Only the entry of the source is written over. *)
LEMMA WriteNumbers ==
    ASSUME Stores, Carry, Directories, Counted, Descends, Sourced, Numbered,
           NEW k \in Coordinators, WriteOwn(k)
    PROVE  Numbered'
<1>1. PICK f \in Events : f = check[k].event
  BY DEF WriteOwn, At, Carry, Carries
<1>2. PICK t \in sources : t = move[k].src
  BY DEF WriteOwn, At, Sourced
<1> DEFINE r == eventRecordMap[k][f]
           q == [s \in DOMAIN r \cup {t} |-> IF s = t THEN check[k].newSubTime ELSE r[s]]
<1>3. /\ subtoClient' = subtoClient /\ call' = call /\ listening' = listening /\ sources' = sources
      /\ eventRecordMap' = [eventRecordMap EXCEPT ![k][f] = q]
  BY <1>1, <1>2 DEF WriteOwn, serverVars
<1>4. \A s : s # t => /\ s \in DOMAIN r <=> s \in DOMAIN q
                      /\ s \in DOMAIN r => q[s] = r[s]
  OBVIOUS
<1> HIDE DEF q
<1>5. \A j \in Coordinators, e \in Events :
        eventRecordMap'[j][e] = IF j = k /\ e = f THEN q ELSE eventRecordMap[j][e]
  BY <1>3 DEF Counted
<1>6. ASSUME NEW s \in Servers \ sources', NEW e \in Events PROVE Steady(s, e)
  <2>1. ASSUME NEW j \in Coordinators PROVE EntryKept(j, s, e)
    <3>1. CASE j = k /\ e = f
      <4>1. eventRecordMap'[j][e] = q /\ eventRecordMap[j][e] = r /\ s # t
        BY <1>2, <1>3, <1>5, <3>1
      <4> HIDE DEF r
      <4> QED BY <1>4, <4>1 DEF EntryKept
    <3>2. CASE ~ (j = k /\ e = f)
      BY <1>5, <3>2 DEF EntryKept
    <3> QED BY <3>1, <3>2
  <2> QED BY <1>3, <2>1 DEF Steady, CallsKept, Waits
<1> QED BY <1>3, <1>6, SteadyNumbers

(* Only the source loses a subscription. *)
LEMMA EraseNumbers ==
    ASSUME Stores, Carry, Directories, Descends, Sourced, Numbered,
           NEW k \in Coordinators, EraseSub(k)
    PROVE  Numbered'
<1>1. PICK f \in Events, t \in Servers : f = check[k].event /\ t = move[k].src /\ t \in sources
  BY DEF EraseSub, At, Carry, Carries, Sourced
<1>2. /\ subtoClient' = [subtoClient EXCEPT ![t][f] = @ \ {move[k].itera}]
      /\ call' = call /\ listening' = listening /\ sources' = sources /\ eventRecordMap' = eventRecordMap
  BY <1>1 DEF EraseSub
<1>3. \A s \in Servers, e \in Events : s # t => subtoClient'[s][e] = subtoClient[s][e]
  <2>1. ErasedAt(move[k].itera, t, f)
    BY <1>2, Erased
  <2> QED BY <2>1 DEF ErasedAt
<1>4. ASSUME NEW s \in Servers \ sources', NEW e \in Events PROVE Steady(s, e)
  BY <1>1, <1>2, <1>3 DEF Steady, CallsKept, EntryKept, Waits
<1> QED BY <1>2, <1>4, SteadyNumbers

LEMMA NumberedKept ==
    ASSUME Shapes, Stores, Carry, Directories, Reporting, Counted, Asleep, Sourced, Numbered,
           Descends, sources \subseteq sources', [Next]_vars
    PROVE  Numbered'
<1>0. ASSUME subtoClient' = subtoClient, call' = call, eventRecordMap' = eventRecordMap,
             listening' \subseteq listening
      PROVE  Numbered'
  <2>1. \A s, e : Steady(s, e)
    BY <1>0, SteadySame
  <2> QED BY <2>1, SteadyNumbers
<1>1. CASE UNCHANGED vars
  BY <1>0, <1>1 DEF vars, serverVars
<1>2. CASE Wait
  BY <1>0, <1>2 DEF Wait, vars, serverVars
<1>3. ASSUME NEW s \in Servers, Listen(s) PROVE Numbered'
  BY <1>3, ListenNumbers
<1>4. ASSUME NEW c \in NewClients, ClientSubscribe(c) PROVE Numbered'
  <2>1. ByClient(c) \in Callers /\ c \in Clients
    BY NewClientsAreClients DEF Callers
  <2>2. PICK s \in listening : Insert(ByClient(c), c, s)
    BY <1>4 DEF ClientSubscribe
  <2>3. /\ call[ByClient(c)].pc \in {"none", "done"} /\ listening' = listening
        /\ eventRecordMap' = eventRecordMap /\ sources' = sources
    BY <1>4 DEF ClientSubscribe
  <2> QED BY <2>1, <2>2, <2>3, InsertNumbers
<1>5. ASSUME NEW k \in Callers, HandlerStep(k) PROVE Numbered'
  BY <1>5, CountNumbers, RecordNumbers, BrokenNumbers DEF HandlerStep
<1>6. ASSUME NEW k \in Coordinators, CheckStep(k) PROVE Numbered'
  <2>1. CASE Scan(k) \/ getFreeNodeList(k) \/ RemoveFiles(k) \/ RedistributeByPlan(k) \/ nodeAttach(k)
               \/ ReadOwn(k)
    <3>1. subtoClient' = subtoClient /\ call' = call /\ eventRecordMap' = eventRecordMap
          /\ listening' = listening
      BY <2>1 DEF Scan, getFreeNodeList, RemoveFiles, RedistributeByPlan, nodeAttach, ReadOwn, serverVars
    <3> QED BY <1>0, <3>1
  <2>2. CASE MakePlan(k)
    <3>1. subtoClient' = subtoClient /\ call' = call /\ eventRecordMap' = eventRecordMap
          /\ listening' \subseteq listening
      BY <2>2 DEF MakePlan, serverVars
    <3> QED BY <1>0, <3>1
  <2>3. ASSUME NEW s \in Servers, UpdateCluster(k, s) PROVE Numbered'
    BY <2>3, UpdateNumbers
  <2>4. CASE WriteOwn(k)
    BY <2>4, WriteNumbers
  <2> QED BY <1>6, <2>1, <2>2, <2>3, <2>4 DEF CheckStep
<1>7. ASSUME NEW k \in Coordinators, MoveStep(k) PROVE Numbered'
  <2>1. CASE EraseSub(k)
    BY <2>1, EraseNumbers
  <2>2. CASE SendSub(k)
    <3>1. ByMove(k) \in Callers /\ Head(move[k].spsw) \in Clients
      <4>1. move[k].spsw \in Seq(Clients) /\ move[k].spsw # <<>>
        BY <2>2 DEF SendSub, Carry, Carries
      <4> QED BY <4>1 DEF Callers
    <3>2. /\ call[ByMove(k)].pc \in {"none", "done"} /\ listening' = listening
          /\ eventRecordMap' = eventRecordMap /\ sources' = sources
      BY <2>2 DEF SendSub
    <3>3. CASE move[k].dst \in listening
      <4>1. Insert(ByMove(k), Head(move[k].spsw), move[k].dst)
        BY <2>2, <3>3 DEF SendSub
      <4> QED BY <3>1, <3>2, <3>3, <4>1, InsertNumbers
    <3>4. CASE move[k].dst \notin listening
      BY <1>0, <2>2, <3>2, <3>4 DEF SendSub
    <3> QED BY <3>3, <3>4
  <2>3. CASE Advance(k) \/ UseDangling(k) \/ Moved(k)
    BY <1>0, <2>3 DEF Advance, UseDangling, Moved, serverVars
  <2> QED BY <1>7, <2>1, <2>2, <2>3 DEF MoveStep
<1> QED BY <1>1, <1>2, <1>3, <1>4, <1>5, <1>6, <1>7 DEF Next

LEMMA NumberedInit == Init => Asleep /\ Sourced /\ Numbered
<1> SUFFICES ASSUME Init
             PROVE  Asleep /\ Sourced /\ Numbered
  OBVIOUS
<1>1. \A s \in Servers, e \in Events : subtoClient[s][e] = {c \in Settled[s] : EventOf[c] = e}
  BY DEF Init
<1>2. Asleep
  <2> SUFFICES ASSUME NEW s \in FreeServers, NEW e \in Events
               PROVE  subtoClient[s][e] = {}
    BY DEF Asleep
  <2>1. s \in Servers /\ Settled[s] = {}
    BY ClientAssumption, ServerAssumption
  <2>2. subtoClient[s][e] = {c \in Settled[s] : EventOf[c] = e}
    BY <1>1, <2>1
  <2> QED BY <2>1, <2>2
<1>3. Sourced
  BY NewRecords DEF Init, Sourced
<1>4. ASSUME NEW s \in Servers, NEW e \in Events PROVE WithinBounds(s, e) /\ UpToDate(s, e)
  <2>1. \A k \in Callers, l \in {"count", "record"} : ~ Waits(k, l, s, e)
    BY NewRecords DEF Init, Waits
  <2>2. \A k \in Coordinators :
          /\ DOMAIN eventRecordMap[k][e] =
               {t \in Servers : Home[t] = k /\ \E c \in Settled[t] : EventOf[c] = e}
          /\ s \in DOMAIN eventRecordMap[k][e] =>
               eventRecordMap[k][e][s] = Cardinality({c \in Settled[s] : EventOf[c] = e})
    BY DEF Init, SettledRecord
  <2>3. Held(s, e) = Cardinality({c \in Settled[s] : EventOf[c] = e}) /\ Held(s, e) \in Nat
    BY <1>1, PlacedInit, HeldNat DEF Held
  <2>4. \A k \in Coordinators : s \in DOMAIN eventRecordMap[k][e] => eventRecordMap[k][e][s] = Held(s, e)
    BY <2>2, <2>3
  <2>5. WithinBounds(s, e)
    BY <2>1, <2>3, <2>4 DEF WithinBounds
  <2>6. ASSUME subtoClient[s][e] # {} PROVE Reported(s, e)
    <3>1. PICK c \in Settled[s] : EventOf[c] = e
      BY <1>1, <2>6
    <3>2. coordinatorClients[s] = <<Home[s]>>
      BY <3>1 DEF Init
    <3>3. coordinatorClients[s] # <<>> /\ coordinatorClients[s][1] = Home[s]
      BY <3>2
    <3>4. Home[s] \in Coordinators
      BY ServerAssumption
    <3>5. s \in DOMAIN eventRecordMap[Home[s]][e]
      BY <2>2, <3>1, <3>4
    <3>6. Arrived(s, e, Home[s])
      BY <2>4, <3>4, <3>5 DEF Arrived
    <3> QED BY <3>3, <3>6 DEF Reported
  <2> QED BY <2>5, <2>6 DEF UpToDate
<1>5. Numbered
  BY <1>4 DEF Numbered
<1> QED BY <1>2, <1>3, <1>5

LEMMA NumberedIsCurrent == Stores /\ Directories /\ Numbered => RecordCurrent
<1> SUFFICES ASSUME Stores, Directories, Numbered, Quiet,
                    NEW s \in listening \ sources, NEW e \in Events,
                    coordinatorClients[s] # <<>>, subtoClient[s][e] # {},
                    coordinatorClients[s][1] \in listening
             PROVE  LET rec == eventRecordMap[coordinatorClients[s][1]][e]
                    IN s \in DOMAIN rec /\ rec[s] = Cardinality(subtoClient[s][e])
  BY DEF RecordCurrent
<1>0. s \in Servers
  BY DEF Stores
<1>1. \A k \in Callers, l \in {"count", "record"} : ~ Waits(k, l, s, e)
  BY DEF Quiet, Waits
<1>2. UpToDate(s, e)
  BY <1>0 DEF Numbered
<1>3. Arrived(s, e, coordinatorClients[s][1])
  BY <1>1, <1>2 DEF UpToDate, InHand, Reported, OnItsWay
<1> QED BY <1>3 DEF Arrived, Held

(* RecordSub, for any number of servers, events, clients and checks: when  *)
(* every call has ended, the coordinator holds the true number of every    *)
(* server that reports to it and was not relieved itself, although the     *)
(* reports of concurrent subscriptions arrive in any order.                *)
THEOREM RecordsAreCurrent == Spec => []RecordCurrent
<1> DEFINE NInv == /\ Shapes /\ Stores /\ Carry
                   /\ Lists /\ Directories /\ Reporting /\ Counted /\ Named
                   /\ Asleep /\ Sourced /\ Numbered
<1>1. Init => NInv
  BY ShapesInit, PlacedInit, KnownInit, NumberedInit
<1>2. NInv /\ [Next]_vars => NInv'
  <2> SUFFICES ASSUME NInv, [Next]_vars
               PROVE  NInv'
    OBVIOUS
  <2>1. Shapes' /\ Stores' /\ Carry' /\ Lasting /\ Descends
    BY ShapesKept, FiledKept, StepsLast, StepsDescend
  <2>2. Lists'
    BY ListsKept
  <2>3. Directories' /\ KeepsKnowing
    BY DirectoriesKept
  <2>4. Reporting'
    BY <2>3, ReportingKept
  <2>5. Counted'
    BY <2>1, CountedKept
  <2>6. Named'
    BY <2>1, NamedKept
  <2>7. Asleep'
    BY AsleepKept
  <2>8. Sourced' /\ sources \subseteq sources'
    BY SourcedKept
  <2>9. Numbered'
    BY <2>1, <2>8, NumberedKept
  <2> QED BY <2>1, <2>2, <2>3, <2>4, <2>5, <2>6, <2>7, <2>8, <2>9
<1>3. NInv => RecordCurrent
  BY NumberedIsCurrent
<1> QED BY <1>1, <1>2, <1>3, PTL DEF Spec



-----------------------------------------------------------------------------
(* Moves.  The walk of RedistributeSub passes over two clients with each   *)
(* round, one that it takes and one that it skips, so what is still ahead  *)
(* of it is known from the round it is in.  New clients only add to that;  *)
(* another walk over the same clients could take from it.                  *)
Walking(k) == check[k].pc \in {"erase", "advance"}
Source(k) == subtoClient[move[k].src][check[k].event]
Reachable(k) == move[k].diff >= 1 /\ 2 * move[k].diff <= move[k].size + 1
Unshared ==
    \A j, k \in Coordinators :
        (j # k /\ Walking(j) /\ Walking(k) /\ Reachable(k)) =>
            move[j].src # move[k].src \/ check[j].event # check[k].event

From(S, c) == {d \in S : d >= c}
Enroute(k, spare) ==
    /\ move[k].itera \in Source(k) /\ move[k].count < move[k].diff
    /\ Cardinality(From(Source(k), move[k].itera)) + 2 * move[k].count >= move[k].size + spare
Numbers(k) == move[k].diff \in Int /\ move[k].count \in Nat /\ move[k].size \in Nat
Walk(k) ==
    /\ Numbers(k)
    /\ Reachable(k) =>
          /\ check[k].pc = "erase" => Enroute(k, 0)
          /\ check[k].pc = "advance" => Enroute(k, 1)
          /\ check[k].pc = "send" /\ move[k].count > 0 => move[k].count = move[k].diff
          /\ check[k].pc # "hung"
Walks == \A k \in Coordinators : Walk(k)


LEMMA FromNat ==
    ASSUME NEW S \in SUBSET Clients, NEW c
    PROVE  IsFiniteSet(From(S, c)) /\ Cardinality(From(S, c)) \in Nat
<1>1. From(S, c) \subseteq Clients
  BY DEF From
<1> QED BY <1>1, FS_Subset, FS_CardinalityType, ClientAssumption

(* The increment of the iterator passes over one client. *)
LEMMA OneFurther ==
    ASSUME NEW S \in SUBSET Clients, NEW c \in S
    PROVE  /\ Successor(S, c) = End => Cardinality(From(S, c)) = 1
           /\ Successor(S, c) # End =>
                /\ Successor(S, c) \in S /\ Successor(S, c) # c
                /\ Cardinality(From(S, Successor(S, c))) = Cardinality(From(S, c)) - 1
                /\ Cardinality(From(S \ {c}, Successor(S, c))) = Cardinality(From(S, c)) - 1
<1> DEFINE n == Successor(S, c)
           T == {d \in S : d > c}
<1>1. S \subseteq Nat /\ T \in SUBSET Clients /\ n = First(T)
  BY ClientAssumption DEF Successor
<1>2. /\ IsFiniteSet(From(S, c)) /\ Cardinality(From(S, c)) \in Nat
  BY FromNat
<1>3. c \in From(S, c) /\ From(S, c) \ {c} = T
  <2>1. c \in Nat /\ \A d \in S : d \in Nat
    BY <1>1
  <2>2. \A d \in S : d > c <=> d >= c /\ d # c
    BY <2>1
  <2>3. c \in From(S, c)
    BY <2>1 DEF From
  <2>4. \A d : d \in From(S, c) \ {c} <=> d \in T
    BY <2>2 DEF From
  <2> QED BY <2>3, <2>4
<1>4. Cardinality(T) = Cardinality(From(S, c)) - 1
  <2>1. Cardinality(From(S, c) \ {c}) = Cardinality(From(S, c)) - 1
    BY <1>2, <1>3, FS_RemoveElement
  <2> QED BY <1>3, <2>1
<1> HIDE DEF n
<1>5. ASSUME n = End PROVE Cardinality(From(S, c)) = 1
  <2>1. T = {}
    <3>1. T # {} => n \in T
      BY <1>1, FirstIn
    <3>2. End \notin T
      BY <1>1, ClientAssumption
    <3> QED BY <1>5, <3>1, <3>2
  <2> QED BY <1>2, <1>4, <2>1, FS_EmptySet
<1>6. ASSUME n # End
      PROVE  /\ n \in S /\ n # c
             /\ Cardinality(From(S, n)) = Cardinality(From(S, c)) - 1
             /\ Cardinality(From(S \ {c}, n)) = Cardinality(From(S, c)) - 1
  <2>1. n \in T /\ \A d \in T : n =< d
    <3>1. T # {}
      BY <1>1, <1>6 DEF First
    <3>2. First(T) \in T /\ \A d \in T : First(T) =< d
      BY <1>1, <3>1, FirstIn
    <3> QED BY <1>1, <3>2, Zenon
  <2>2. n \in Nat /\ c \in Nat /\ n > c
    BY <1>1, <2>1
  <2>3. From(S, n) = T /\ From(S \ {c}, n) = T
    <3>1. \A d \in S : d \in Nat
      BY <1>1
    <3>2. \A d \in S : d >= n => d > c /\ d # c
      BY <2>2, <3>1
    <3>3. \A d \in S : d > c => d >= n /\ d # c
      BY <2>1, <2>2, <3>1
    <3>4. \A d : (d \in From(S, n) <=> d \in T) /\ (d \in From(S \ {c}, n) <=> d \in T)
      BY <3>2, <3>3 DEF From
    <3> QED BY <3>4
  <2>4. n \in S
    BY <2>1
  <2> QED BY <1>4, <2>2, <2>3, <2>4
<1> QED BY <1>5, <1>6 DEF n

(* A walk with more clients ahead of it. *)
LEMMA WalkOn ==
    ASSUME Stores', NEW k \in Coordinators, Walk(k), move'[k] = move[k],
           check'[k].pc = check[k].pc, check'[k].event = check[k].event,
           Walking(k) /\ Reachable(k) => Source(k) \subseteq Source(k)',
           Walking(k) => move[k].src \in Servers /\ check[k].event \in Events
    PROVE  Walk(k)'
<1>1. ASSUME NEW spare, Walking(k), Reachable(k), Enroute(k, spare), spare \in Nat
      PROVE  Enroute(k, spare)'
  <2>1. Source(k) \subseteq Source(k)'
    BY <1>1
  <2>2. Source(k)' \in SUBSET Clients
    BY <1>1 DEF Stores, Source
  <2>3. From(Source(k), move[k].itera) \subseteq From(Source(k)', move[k].itera)
    BY <2>1 DEF From
  <2>4. /\ IsFiniteSet(From(Source(k)', move[k].itera))
        /\ Cardinality(From(Source(k)', move[k].itera)) \in Nat
    BY <2>2, FromNat
  <2>5. Source(k) \in SUBSET Clients
    BY <2>1, <2>2
  <2>6. Cardinality(From(Source(k), move[k].itera)) \in Nat
    BY <2>5, FromNat
  <2>7. Cardinality(From(Source(k), move[k].itera)) =< Cardinality(From(Source(k)', move[k].itera))
    BY <2>3, <2>4, FS_Subset
  <2> HIDE DEF From
  <2>8. /\ Cardinality(From(Source(k), move[k].itera)) + 2 * move[k].count >= move[k].size + spare
        /\ move[k].count \in Nat /\ move[k].size \in Nat
    BY <1>1 DEF Enroute, Walk, Numbers
  <2>9. Cardinality(From(Source(k)', move[k].itera)) + 2 * move[k].count >= move[k].size + spare
    BY <1>1, <2>4, <2>6, <2>7, <2>8
  <2>10. (From(Source(k), move[k].itera))' = From(Source(k)', move[k].itera)
    BY DEF From
  <2> QED BY <1>1, <2>1, <2>9, <2>10 DEF Enroute
<1>2. Numbers(k)' /\ (Reachable(k)' <=> Reachable(k))
  BY DEF Walk, Numbers, Reachable
<1>3. ASSUME Reachable(k), check[k].pc = "erase" PROVE Enroute(k, 0)'
  BY <1>1, <1>3 DEF Walk, Walking
<1>4. ASSUME Reachable(k), check[k].pc = "advance" PROVE Enroute(k, 1)'
  BY <1>1, <1>4 DEF Walk, Walking
<1> QED BY <1>2, <1>3, <1>4 DEF Walk

(* A step that takes no client from a source and leaves the walks alone. *)
LEMMA WalksSame ==
    ASSUME Stores', Carry, Walks, NEW K \in SUBSET Coordinators,
           \A k \in K : move'[k] = move[k] /\ check'[k].pc = check[k].pc /\ check'[k].event = check[k].event,
           \A k \in K : Walking(k) /\ Reachable(k) => Source(k) \subseteq Source(k)'
    PROVE  \A k \in K : Walk(k)'
<1> SUFFICES ASSUME NEW k \in K
             PROVE  Walk(k)'
  OBVIOUS
<1>1. Walking(k) => move[k].src \in Servers /\ check[k].event \in Events
  BY DEF Carry, Carries, Walking
<1>2. Walk(k)
  BY DEF Walks
<1>3. move'[k] = move[k] /\ check'[k].pc = check[k].pc /\ check'[k].event = check[k].event
  OBVIOUS
<1>4. Walking(k) /\ Reachable(k) => Source(k) \subseteq Source(k)'
  OBVIOUS
<1> QED BY <1>1, <1>2, <1>3, <1>4, WalkOn


(* One round of the walk: a client is taken ... *)
LEMMA EraseWalks ==
    ASSUME Shapes, Stores, Carry, NEW k \in Coordinators, Walk(k), EraseSub(k)
    PROVE  Walk(k)'
<1> DEFINE S == Source(k)
           c == move[k].itera
           n == Successor(S, c)
<1>1. move[k].src \in Servers /\ check[k].event \in Events /\ check[k].pc = "erase"
  BY DEF EraseSub, At, Carry, Carries
<1>2. S \in SUBSET Clients
  BY <1>1 DEF Stores, Source
<1>3. /\ move'[k].src = move[k].src /\ move'[k].itera = n /\ move'[k].count = move[k].count + 1
      /\ move'[k].diff = move[k].diff /\ move'[k].size = move[k].size
  BY DEF EraseSub, Shapes, MoveFields, Source
<1>4. /\ check'[k].pc = IF move[k].count + 1 = move[k].diff THEN "send" ELSE "advance"
      /\ check'[k].event = check[k].event
  BY DEF EraseSub, Shapes, CheckFields
<1>5. Source(k)' = S \ {c}
  <2>1. subtoClient' = [subtoClient EXCEPT ![move[k].src][check[k].event] = @ \ {c}]
    BY DEF EraseSub
  <2>2. subtoClient'[move[k].src][check[k].event] = subtoClient[move[k].src][check[k].event] \ {c}
    <3>1. ErasedAt(c, move[k].src, check[k].event)
      BY <1>1, <2>1, Erased
    <3> QED BY <1>1, <3>1 DEF ErasedAt
  <2> QED BY <1>3, <1>4, <2>2 DEF Source
<1>6. Numbers(k)' /\ (Reachable(k)' <=> Reachable(k)) /\ Numbers(k)
  BY <1>3 DEF Walk, Numbers, Reachable
<1>7. ASSUME Reachable(k), move[k].count + 1 # move[k].diff
      PROVE  Enroute(k, 1)'
  <2>1. Enroute(k, 0)
    BY <1>1, <1>7 DEF Walk
  <2>2. c \in S /\ move[k].count < move[k].diff
    BY <2>1 DEF Enroute
  <2>3. /\ Cardinality(From(S, c)) + 2 * move[k].count >= move[k].size
        /\ 2 * move[k].diff <= move[k].size + 1
    BY <1>6, <1>7, <2>1, <1>2, FromNat DEF Enroute, Reachable, Numbers
  <2>4. Cardinality(From(S, c)) \in Nat
    BY <1>2, FromNat
  <2>5. /\ n = End => Cardinality(From(S, c)) = 1
        /\ n # End =>
             /\ n \in S /\ n # c
             /\ Cardinality(From(S \ {c}, n)) = Cardinality(From(S, c)) - 1
    BY <1>2, <2>2, OneFurther
  <2> HIDE DEF n, S, c
  <2>6. move[k].count + 1 < move[k].diff /\ Cardinality(From(S, c)) > 1
    BY <1>6, <1>7, <2>2, <2>3, <2>4 DEF Numbers
  <2>7. /\ n \in S \ {c}
        /\ Cardinality(From(S \ {c}, n)) + 2 * (move[k].count + 1) >= move[k].size + 1
    BY <1>6, <2>3, <2>4, <2>5, <2>6 DEF Numbers
  <2>8. From(Source(k), move[k].itera)' = From(S \ {c}, n)
    BY <1>3, <1>5 DEF From
  <2> QED BY <1>3, <1>5, <2>6, <2>7, <2>8 DEF Enroute
<1> QED BY <1>3, <1>4, <1>6, <1>7 DEF Walk

(* ... and one is passed over. *)
LEMMA AdvanceWalks ==
    ASSUME Shapes, Stores, Carry, NEW k \in Coordinators, Walk(k), Advance(k)
    PROVE  Walk(k)'
<1> DEFINE S == Source(k)
           c == move[k].itera
           n == Successor(S, c)
<1>1. /\ check[k].pc = "advance" /\ move[k].src \in Servers /\ check[k].event \in Events
      /\ subtoClient' = subtoClient
  BY DEF Advance, At, Carry, Carries, serverVars
<1>2. S \in SUBSET Clients /\ End \notin S
  <2>1. S \in SUBSET Clients
    BY <1>1 DEF Stores, Source
  <2> QED BY <2>1, ClientAssumption
<1>3. /\ move'[k].src = move[k].src /\ move'[k].count = move[k].count
      /\ move'[k].diff = move[k].diff /\ move'[k].size = move[k].size
      /\ check'[k].event = check[k].event
  BY DEF Advance, Shapes, MoveFields, CheckFields
<1>4. Source(k)' = S
  BY <1>1, <1>3 DEF Source
<1>5. Numbers(k)' /\ (Reachable(k)' <=> Reachable(k)) /\ Numbers(k)
  BY <1>3 DEF Walk, Numbers, Reachable
<1>6. ASSUME Reachable(k)
      PROVE  check'[k].pc = "erase" /\ Enroute(k, 0)'
  <2>1. Enroute(k, 1)
    BY <1>1, <1>6 DEF Walk
  <2>2. c \in S /\ move[k].count < move[k].diff
    BY <2>1 DEF Enroute
  <2>3. /\ Cardinality(From(S, c)) + 2 * move[k].count >= move[k].size + 1
        /\ 2 * move[k].diff <= move[k].size + 1
    BY <1>6, <2>1 DEF Enroute, Reachable
  <2>4. Cardinality(From(S, c)) \in Nat
    BY <1>2, FromNat
  <2>5. /\ n = End => Cardinality(From(S, c)) = 1
        /\ n # End => n \in S /\ Cardinality(From(S, n)) = Cardinality(From(S, c)) - 1
    BY <1>2, <2>2, OneFurther
  <2>6. /\ move'[k].itera = n
        /\ check'[k].pc = IF n = End THEN "send" ELSE "erase"
    BY <1>2, <2>2 DEF Advance, Shapes, MoveFields, CheckFields, Source
  <2> HIDE DEF n, S, c
  <2>7. Cardinality(From(S, c)) > 1
    BY <1>5, <2>2, <2>3, <2>4 DEF Numbers
  <2>8. n # End /\ n \in S /\ Cardinality(From(S, n)) + 2 * move[k].count >= move[k].size + 0
    BY <1>5, <2>3, <2>4, <2>5, <2>7 DEF Numbers
  <2>9. From(Source(k), move[k].itera)' = From(S, n)
    BY <1>4, <2>6 DEF From
  <2>10. Enroute(k, 0)'
    BY <1>3, <1>4, <2>2, <2>6, <2>8, <2>9 DEF Enroute
  <2> QED BY <2>6, <2>8, <2>10
<1> QED BY <1>5, <1>6 DEF Walk

(* The walk begins at the first of the clients. *)
LEMMA WalkBegins ==
    ASSUME Shapes, Stores, Carry, Named, NEW k \in Coordinators, RedistributeByPlan(k)
    PROVE  Walk(k)'
<1> DEFINE plan == Head(check[k].plans)
           S == subtoClient[plan.srcAddr][check[k].event]
<1>1. plan.srcAddr \in Servers /\ plan.moveNumber \in Int
  <2>1. check[k].plans \in Seq(KnownPlans(k)) /\ check[k].plans # <<>>
    BY DEF RedistributeByPlan, Named, NamesKnown
  <2>2. plan \in KnownPlans(k)
    BY <2>1
  <2> QED BY <2>2 DEF KnownPlans, KnownTo
<1>2. check[k].event \in Events
  BY DEF RedistributeByPlan, At, Carry, Carries
<1>3. S \in SUBSET Clients /\ IsFiniteSet(S) /\ Cardinality(S) \in Nat
  <2>1. S \in SUBSET Clients
    BY <1>1, <1>2 DEF Stores
  <2> QED BY <2>1, ClientAssumption, FS_Subset, FS_CardinalityType
<1>4. /\ move'[k].src = plan.srcAddr /\ move'[k].diff = plan.moveNumber /\ move'[k].count = 0
      /\ move'[k].itera = First(S) /\ move'[k].size = Cardinality(S)
  BY DEF RedistributeByPlan, Shapes
<1>5. /\ check'[k].event = check[k].event /\ subtoClient' = subtoClient
      /\ check'[k].pc \in {"erase", "own"}
      /\ check'[k].pc = "erase" => S # {}
  BY DEF RedistributeByPlan, Shapes, CheckFields, serverVars
<1>6. Source(k)' = S
  BY <1>4, <1>5 DEF Source
<1> HIDE DEF S, plan
<1>7. Numbers(k)'
  BY <1>1, <1>3, <1>4 DEF Numbers
<1>8. ASSUME Reachable(k)', S # {} PROVE Enroute(k, 0)'
  <2>1. First(S) \in S /\ \A d \in S : First(S) =< d
    BY <1>3, <1>8, FirstIn
  <2>2. From(S, First(S)) = S
    <3>1. S \subseteq Nat
      BY <1>3, ClientAssumption
    <3>2. First(S) \in Nat /\ \A d \in S : d \in Nat
      BY <2>1, <3>1
    <3>3. \A d \in S : d >= First(S)
      BY <2>1, <3>2
    <3> QED BY <3>3 DEF From
  <2>3. From(Source(k), move[k].itera)' = S
    BY <1>4, <1>6, <2>2 DEF From
  <2>4. move'[k].count < move'[k].diff
    BY <1>1, <1>4, <1>8 DEF Reachable
  <2>5. Cardinality(S) + 2 * move'[k].count >= move'[k].size + 0
    BY <1>3, <1>4
  <2> QED BY <1>4, <1>6, <2>1, <2>3, <2>4, <2>5 DEF Enroute
<1> QED BY <1>5, <1>7, <1>8 DEF Walk


(* A step that is no walk of k. *)
LEMMA WalkIdle ==
    ASSUME NEW k \in Coordinators, Walk(k), move'[k] = move[k],
           check'[k].pc \notin {"erase", "advance", "hung", "send"}
    PROVE  Walk(k)'
BY DEF Walk, Numbers, Reachable

(* No step takes a client from the walk of another check. *)
LEMMA OtherWalks ==
    ASSUME Stores, Stores', Carry, Walks, NEW k \in Coordinators, Others(k), OtherMoves(k),
           \A j \in Coordinators \ {k} : Walking(j) /\ Reachable(j) => Source(j) \subseteq Source(j)',
           Walk(k)'
    PROVE  Walks'
<1>1. \A j \in Coordinators \ {k} : Walk(j)'
  <2> DEFINE K == Coordinators \ {k}
  <2>1. K \in SUBSET Coordinators
    OBVIOUS
  <2>2. \A j \in K : move'[j] = move[j] /\ check'[j].pc = check[j].pc /\ check'[j].event = check[j].event
    BY DEF Others, OtherMoves
  <2>3. \A j \in K : Walking(j) /\ Reachable(j) => Source(j) \subseteq Source(j)'
    OBVIOUS
  <2> HIDE DEF K
  <2>4. \A j \in K : Walk(j)'
    BY <2>1, <2>2, <2>3, WalksSame
  <2> QED BY <2>4 DEF K
<1> QED BY <1>1 DEF Walks

LEMMA OthersKeepSource ==
    ASSUME NEW k \in Coordinators, Others(k), OtherMoves(k), subtoClient' = subtoClient
    PROVE  \A j \in Coordinators \ {k} : Source(j) \subseteq Source(j)'
BY DEF Source, Others, OtherMoves

LEMMA InsertWalks ==
    ASSUME Stores, Stores', Carry, Walks, NEW c \in Clients, NEW s \in Servers,
           subtoClient' = [subtoClient EXCEPT ![s][EventOf[c]] = @ \cup {c}],
           NEW K \in SUBSET Coordinators,
           \A k \in K : move'[k] = move[k] /\ check'[k].pc = check[k].pc /\ check'[k].event = check[k].event
    PROVE  \A k \in K : Walk(k)'
<1>1. \A t \in Servers, e \in Events : subtoClient[t][e] \subseteq subtoClient'[t][e]
  <2>1. \A t \in Servers, e \in Events : subtoClient'[t][e] =
          IF t = s /\ e = EventOf[c] THEN subtoClient[t][e] \cup {c} ELSE subtoClient[t][e]
    <3>1. InsertedAt(c, s)
      BY Inserted
    <3> QED BY <3>1 DEF InsertedAt
  <2> QED BY <2>1
<1>2. \A k \in K : Walking(k) /\ Reachable(k) => Source(k) \subseteq Source(k)'
  <2> SUFFICES ASSUME NEW k \in K, Walking(k)
               PROVE  Source(k) \subseteq Source(k)'
    OBVIOUS
  <2>1. move[k].src \in Servers /\ check[k].event \in Events
    BY DEF Carry, Carries, Walking
  <2> QED BY <1>1, <2>1 DEF Source
<1> QED BY <1>2, WalksSame


LEMMA WalksKept ==
    ASSUME Shapes, Stores, Stores', Carry, Named, Walks, Unshared, [Next]_vars
    PROVE  Walks'
<1>0. ASSUME check' = check, move' = move, subtoClient' = subtoClient
      PROVE  Walks'
  BY <1>0 DEF Walks, Walk, Numbers, Reachable, Enroute, Source, From
<1>1. CASE UNCHANGED vars
  BY <1>0, <1>1 DEF vars, serverVars
<1>2. CASE Wait
  BY <1>0, <1>2 DEF Wait, vars, serverVars
<1>3. ASSUME NEW s \in Servers, Listen(s) PROVE Walks'
  BY <1>0, <1>3 DEF Listen, serverVars
<1>4. ASSUME NEW c \in NewClients, ClientSubscribe(c) PROVE Walks'
  <2>1. PICK s \in listening : Insert(ByClient(c), c, s)
    BY <1>4 DEF ClientSubscribe
  <2>2. s \in Servers /\ c \in Clients
    BY NewClientsAreClients DEF Stores
  <2>3. check' = check /\ move' = move
    BY <1>4 DEF ClientSubscribe
  <2>4. subtoClient' = [subtoClient EXCEPT ![s][EventOf[c]] = @ \cup {c}]
    BY <2>1 DEF Insert
  <2>5. \A k \in Coordinators : Walk(k)'
    BY <2>2, <2>3, <2>4, InsertWalks
  <2> QED BY <2>5 DEF Walks
<1>5. ASSUME NEW k \in Callers, HandlerStep(k) PROVE Walks'
  BY <1>0, <1>5 DEF HandlerStep, SubCount, SubRecord, CallBroken, serverVars
<1>6. ASSUME NEW k \in Coordinators, CheckStep(k) PROVE Walks'
  <2>0. subtoClient' = subtoClient
    BY <1>6 DEF CheckStep, Scan, getFreeNodeList, RemoveFiles, UpdateCluster, MakePlan,
         RedistributeByPlan, nodeAttach, ReadOwn, WriteOwn, serverVars
  <2>1. Others(k)
    BY <1>6 DEF CheckStep, Scan, getFreeNodeList, RemoveFiles, UpdateCluster, MakePlan,
         RedistributeByPlan, nodeAttach, ReadOwn, WriteOwn, Others, Shapes
  <2>2. Walk(k)
    BY DEF Walks
  <2>3. OtherMoves(k) /\ Walk(k)'
    <3>1. CASE RedistributeByPlan(k)
      BY <3>1, WalkBegins DEF RedistributeByPlan, OtherMoves, Shapes
    <3>2. CASE ~ RedistributeByPlan(k)
      <4>1. move' = move
        BY <1>6, <3>2 DEF CheckStep, Scan, getFreeNodeList, RemoveFiles, UpdateCluster, MakePlan,
             nodeAttach, ReadOwn, WriteOwn
      <4>2. OtherMoves(k) /\ move'[k] = move[k]
        BY <4>1 DEF OtherMoves, Shapes
      <4>3. check'[k].pc \notin {"erase", "advance", "hung", "send"}
        <5>1. CASE Scan(k) \/ nodeAttach(k)
          <6>1. PICK T : check' = [check EXCEPT ![k] = NextEvent(k, T)]
            BY <5>1 DEF Scan, nodeAttach
          <6>2. NextEvent(k, T).pc \in {"list", "done"}
            BY DEF NextEvent, NoCheck
          <6> QED BY <6>1, <6>2 DEF Shapes
        <5>2. CASE getFreeNodeList(k)
          <6>1. check'[k].pc = "remove"
            BY <5>2 DEF getFreeNodeList, Shapes, CheckFields
          <6> QED BY <6>1
        <5>3. CASE RemoveFiles(k)
          <6>1. check' = [check EXCEPT ![k].pc = "update"]
            BY <5>3 DEF RemoveFiles
          <6>2. check'[k].pc = "update"
            BY <6>1, SetPc
          <6> QED BY <6>2
        <5>4. ASSUME NEW s \in Servers, UpdateCluster(k, s)
              PROVE  check'[k].pc \notin {"erase", "advance", "hung", "send"}
          <6>1. check'[k].pc = check[k].pc /\ check[k].pc = "update"
            BY <5>4 DEF UpdateCluster, At, Shapes, CheckFields
          <6> QED BY <6>1
        <5>5. CASE MakePlan(k)
          <6>1. check'[k].pc \in {"plan", "crashed"}
            BY <5>5 DEF MakePlan, Shapes, CheckFields
          <6> QED BY <6>1
        <5>6. CASE ReadOwn(k)
          BY <5>6 DEF ReadOwn, Shapes, CheckFields
        <5>7. CASE WriteOwn(k)
          <6>1. check' = [check EXCEPT ![k].pc = "plan"]
            BY <5>7 DEF WriteOwn
          <6>2. check'[k].pc = "plan"
            BY <6>1, SetPc
          <6> QED BY <6>2
        <5> QED BY <1>6, <3>2, <5>1, <5>2, <5>3, <5>4, <5>5, <5>6, <5>7 DEF CheckStep
      <4> QED BY <2>2, <4>2, <4>3, WalkIdle
    <3> QED BY <3>1, <3>2
  <2> QED BY <2>0, <2>1, <2>3, OthersKeepSource, OtherWalks
<1>7. ASSUME NEW k \in Coordinators, MoveStep(k) PROVE Walks'
  <2>1. Others(k)
    BY <1>7 DEF MoveStep, EraseSub, Advance, UseDangling, SendSub, Moved, Others, Shapes
  <2>2. OtherMoves(k) /\ Walk(k)
    <3>1. CASE EraseSub(k)
      BY <3>1 DEF EraseSub, Shapes, OtherMoves, Walks
    <3>2. CASE Advance(k)
      BY <3>2 DEF Advance, Shapes, OtherMoves, Walks
    <3>3. CASE SendSub(k)
      BY <3>3 DEF SendSub, Shapes, OtherMoves, Walks
    <3>4. CASE UseDangling(k) \/ Moved(k)
      BY <3>4 DEF UseDangling, Moved, Shapes, OtherMoves, Walks
    <3> QED BY <1>7, <3>1, <3>2, <3>3, <3>4 DEF MoveStep
  <2>3. CASE EraseSub(k)
    <3>1. /\ check[k].pc = "erase" /\ check[k].event \in Events /\ move[k].src \in Servers
      BY <2>3 DEF EraseSub, At, Carry, Carries
    <3>2. subtoClient' = [subtoClient EXCEPT ![move[k].src][check[k].event] = @ \ {move[k].itera}]
      BY <2>3 DEF EraseSub
    <3>3. \A t \in Servers, e \in Events : t # move[k].src \/ e # check[k].event =>
            subtoClient'[t][e] = subtoClient[t][e]
      <4>1. \A t \in Servers, e \in Events : subtoClient'[t][e] =
              IF t = move[k].src /\ e = check[k].event THEN subtoClient[t][e] \ {move[k].itera}
              ELSE subtoClient[t][e]
        <5>1. ErasedAt(move[k].itera, move[k].src, check[k].event)
          BY <3>1, <3>2, Erased
        <5> QED BY <5>1 DEF ErasedAt
      <4> QED BY <4>1
    <3>4. ASSUME NEW j \in Coordinators \ {k}, Walking(j), Reachable(j)
          PROVE  Source(j) \subseteq Source(j)'
      <4>1. move[j].src \in Servers /\ check[j].event \in Events
        BY <3>4 DEF Carry, Carries, Walking
      <4>2. move[k].src # move[j].src \/ check[k].event # check[j].event
        <5>1. Walking(k)
          BY <3>1 DEF Walking
        <5> QED BY <3>4, <5>1 DEF Unshared
      <4>3. move'[j] = move[j] /\ check'[j] = check[j]
        BY <2>1, <2>2 DEF Others, OtherMoves
      <4>4. subtoClient'[move[j].src][check[j].event] = subtoClient[move[j].src][check[j].event]
        BY <3>3, <4>1, <4>2
      <4> QED BY <4>3, <4>4 DEF Source
    <3>5. Walk(k)'
      BY <2>2, <2>3, EraseWalks
    <3> QED BY <2>1, <2>2, <3>4, <3>5, OtherWalks
  <2>4. CASE Advance(k)
    <3>1. subtoClient' = subtoClient
      BY <2>4 DEF Advance, serverVars
    <3>2. Walk(k)'
      BY <2>2, <2>4, AdvanceWalks
    <3> QED BY <2>1, <2>2, <3>1, <3>2, OthersKeepSource, OtherWalks
  <2>5. CASE SendSub(k)
    <3>1. check' = check /\ check[k].pc = "send"
      BY <2>5 DEF SendSub, At
    <3>2. /\ move'[k].count = move[k].count /\ move'[k].diff = move[k].diff
          /\ move'[k].size = move[k].size
      BY <2>5 DEF SendSub, Shapes, MoveFields
    <3>3. Walk(k)'
      BY <2>2, <3>1, <3>2 DEF Walk, Numbers, Reachable
    <3>4. CASE move[k].dst \in listening
      <4>1. move[k].spsw \in Seq(Clients) /\ move[k].spsw # <<>>
        BY <2>5 DEF SendSub, Carry, Carries
      <4>2. Head(move[k].spsw) \in Clients /\ move[k].dst \in Servers
        BY <3>4, <4>1 DEF Stores
      <4>3. subtoClient' = [subtoClient EXCEPT ![move[k].dst][EventOf[Head(move[k].spsw)]] =
                                 @ \cup {Head(move[k].spsw)}]
        BY <2>5, <3>4 DEF SendSub, Insert
      <4>4. \A j \in Coordinators \ {k} : /\ move'[j] = move[j] /\ check'[j].pc = check[j].pc
                                         /\ check'[j].event = check[j].event
        BY <2>1, <2>2 DEF Others, OtherMoves
      <4>5. \A j \in Coordinators \ {k} : Walk(j)'
        BY <4>2, <4>3, <4>4, InsertWalks
      <4> QED BY <3>3, <4>5 DEF Walks
    <3>5. CASE move[k].dst \notin listening
      <4>1. subtoClient' = subtoClient
        BY <2>5, <3>5 DEF SendSub
      <4> QED BY <2>1, <2>2, <3>3, <4>1, OthersKeepSource, OtherWalks
    <3> QED BY <3>4, <3>5
  <2>6. CASE UseDangling(k) \/ Moved(k)
    <3>1. subtoClient' = subtoClient /\ move' = move
      BY <2>6 DEF UseDangling, Moved, serverVars
    <3>2. check'[k].pc \in {"undefined", "own"}
      BY <2>6, SetPc DEF UseDangling, Moved
    <3>3. Walk(k)'
      BY <2>2, <3>1, <3>2, WalkIdle
    <3> QED BY <2>1, <2>2, <3>1, <3>3, OthersKeepSource, OtherWalks
  <2> QED BY <1>7, <2>3, <2>4, <2>5, <2>6 DEF MoveStep
<1> QED BY <1>1, <1>2, <1>3, <1>4, <1>5, <1>6, <1>7 DEF Next

LEMMA WalksInit == Init => Walks
<1> SUFFICES ASSUME Init, NEW k \in Coordinators
             PROVE  Walk(k)
  BY DEF Walks
<1>1. check[k].pc = "sleep" /\ move[k].diff = 0 /\ move[k].count = 0 /\ move[k].size = 0
  BY NewRecords DEF Init, NoMove
<1> QED BY <1>1 DEF Walk, Numbers

(* RedistributeSub, for any plans, clients and servers: a plan that asks   *)
(* for at most every other client of the source (rounded up) gets exactly  *)
(* what it asks, however many clients subscribe meanwhile, as long as no   *)
(* second RedistributeSub walks over the clients of that event at the same *)
(* source at the time.                                                     *)
THEOREM PlannedNumberMoves == Spec /\ []Unshared => []MovesDiff
<1> DEFINE WInv == /\ Shapes /\ Stores /\ Carry
                   /\ Lists /\ Directories /\ Reporting /\ Counted /\ Named
                   /\ Walks
<1>1. Init => WInv
  BY ShapesInit, PlacedInit, KnownInit, WalksInit
<1>2. WInv /\ Unshared /\ [Next]_vars => WInv'
  <2> SUFFICES ASSUME WInv, Unshared, [Next]_vars
               PROVE  WInv'
    OBVIOUS
  <2>1. Shapes' /\ Stores' /\ Carry' /\ Lasting
    BY ShapesKept, FiledKept, StepsLast
  <2>2. Lists'
    BY ListsKept
  <2>3. Directories' /\ KeepsKnowing
    BY DirectoriesKept
  <2>4. Reporting'
    BY <2>3, ReportingKept
  <2>5. Counted'
    BY <2>1, CountedKept
  <2>6. Named'
    BY <2>1, NamedKept
  <2>7. Walks'
    BY <2>1, WalksKept
  <2> QED BY <2>1, <2>2, <2>3, <2>4, <2>5, <2>6, <2>7
<1>3. WInv => MovesDiff
  <2> SUFFICES ASSUME WInv, NEW k \in Coordinators, Reachable(k)
               PROVE  /\ check[k].pc # "hung"
                      /\ (check[k].pc = "send" /\ move[k].count > 0) => move[k].count = move[k].diff
    BY DEF MovesDiff, Reachable
  <2> QED BY DEF Walks, Walk
<1> QED BY <1>1, <1>2, <1>3, PTL DEF Spec
=============================================================================
