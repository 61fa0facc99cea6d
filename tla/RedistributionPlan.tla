------------------------- MODULE RedistributionPlan -------------------------
(***************************************************************************)
(* How a coordinator decides who gives subscriptions to whom               *)
(* (coordinator.cpp).  A record maps the servers the coordinator knows of  *)
(* for one event to their numbers of subscriptions; servers are numbers,   *)
(* in the order of their addresses.                                        *)
(***************************************************************************)
EXTENDS Integers, Sequences, FiniteSets, FiniteSetsExt, SequencesExt

CONSTANT overLoadThreshold   \* subscriptions per server that are too many

ASSUME ThresholdAssumption == overLoadThreshold \in Nat \ {0}

Total(rec) == MapThenSumSet(LAMBDA s : rec[s], DOMAIN rec)
Size(rec) == Cardinality(DOMAIN rec)

(* getAverage(event) > overLoadThreshold, without the division. *)
Overloaded(rec) == Total(rec) > overLoadThreshold * Size(rec)

(* ceil(getAverage(event)) *)
CeilAverage(rec) == (Total(rec) + Size(rec) - 1) \div Size(rec)

(* floor(avg * size / threshold - size) *)
calculateNewServerNum(rec) == Total(rec) \div overLoadThreshold - Size(rec)

(* Which of two servers comes first in the list: the more loaded one;      *)
(* equal ones stay in the order of the map.                                *)
Before(rec, a, b) == rec[a] > rec[b] \/ (rec[a] = rec[b] /\ a < b)

SortByMeta(rec) ==
    CHOOSE list \in [1 .. Size(rec) -> DOMAIN rec] :
        \A i, j \in 1 .. Size(rec) : i < j => Before(rec, list[i], list[j])

MutSwapped(src, dst, num) == [srcAddr |-> dst, destAddr |-> src, moveNumber |-> num]

Plan(src, dst, num) == [srcAddr |-> src, destAddr |-> dst, moveNumber |-> num]

MutEnough(supply, needNum) == supply > needNum

(* The source alone can bring the destination up to the average. *)
Enough(supply, needNum) == supply >= needNum

NoPlans(overrun) == [plans |-> <<>>, overrun |-> overrun]
AddPlan(plan, rest) == [plans |-> <<plan>> \o rest.plans, overrun |-> rest.overrun]

(* A turn of the two-pointer walk, with the pointers at p; From is what    *)
(* the turns that follow give.  Neither what a source has given nor what a *)
(* destination has got is taken into account, so when the source cannot    *)
(* serve the destination alone p1 runs on, over the destination itself and *)
(* past the end of the list: overrun.                                      *)
Turn(rec, subMetaList, newAvg, From, p) ==
    LET p1 == p[1]
        p2 == p[2]
        src == subMetaList[p1]
        dst == subMetaList[p2]
        supply == rec[src] - newAvg
        needNum == newAvg - rec[dst]
    IN IF p2 > Size(rec) THEN NoPlans(FALSE)
       ELSE IF rec[dst] >= newAvg THEN From[<<p1, p2 + 1>>]
       ELSE IF p1 > Size(rec) THEN NoPlans(TRUE)
       ELSE IF Enough(supply, needNum) THEN AddPlan(Plan(src, dst, needNum), From[<<p1, p2 + 1>>])
       ELSE AddPlan(Plan(src, dst, supply), From[<<p1 + 1, p2>>])

Pointers(rec) == (1 .. Size(rec) + 1) \X (1 .. Size(rec) + 1)

generatePlanForEvent(rec) ==
    LET subMetaList == SortByMeta(rec)
        newAvg == CeilAverage(rec)
        From[p \in Pointers(rec)] == Turn(rec, subMetaList, newAvg, From, p)
    IN IF Size(rec) <= 1 THEN NoPlans(FALSE) ELSE From[<<1, 2>>]
=============================================================================
