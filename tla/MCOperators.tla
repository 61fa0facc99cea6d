---------------------------- MODULE MCOperators ----------------------------
(* The pure functions of the servers on every small input: the states of a *)
(* system that picks a pair of boxes to compare, or the numbers of         *)
(* subscriptions of some servers to make a plan for.                       *)
EXTENDS GridMatch, RedistributionPlan

CONSTANTS
    MaxCoord,    \* coordinates are 0 .. MaxCoord
    MaxServers,  \* servers with subscriptions of an event
    MaxNumber    \* subscriptions of one of them

ASSUME BoundAssumption == MaxCoord \in Nat /\ MaxServers \in Nat /\ MaxNumber \in Nat

VARIABLES sub, pub, rec

SmallBox == [lbx : 0 .. MaxCoord, lby : 0 .. MaxCoord, ubx : 0 .. MaxCoord, uby : 0 .. MaxCoord]
Records == UNION {[1 .. n -> 0 .. MaxNumber] : n \in 1 .. MaxServers}

Init == sub \in SmallBox \cup {NoGrid} /\ pub = NoGrid /\ rec = <<>>

(* A publication with a box arrives and is compared. *)
Compare == rec = <<>> /\ pub' \in SmallBox /\ UNCHANGED <<sub, rec>>

(* A plan is made. *)
MakePlan == sub = NoGrid /\ pub = NoGrid /\ rec' \in Records /\ UNCHANGED <<sub, pub>>

Next == Compare \/ MakePlan

Spec == Init /\ [][Next]_<<sub, pub, rec>>

Compared == pub # NoGrid
Cell == (0 .. MaxCoord) \X (0 .. MaxCoord)

(* checkIfTriggureMetaGrid: on boxes whose corners are in order the four   *)
(* comparisons decide exactly whether the boxes have a grid point in       *)
(* common, touching edges and corners included.                            *)
MatchIsOverlap ==
    (Compared /\ sub # NoGrid /\ WellFormed(sub) /\ WellFormed(pub)) =>
        (checkIfTriggureMetaGrid(sub, pub) <=>
            \E c \in Cell : InBox(sub, c[1], c[2]) /\ InBox(pub, c[1], c[2]))

Planned == rec # <<>>
Numbers == {rec[s] : s \in DOMAIN rec}
Needy == {s \in DOMAIN rec : rec[s] < CeilAverage(rec)}

(* What a server holds once the plan is carried out. *)
Got(plans, s) == [i \in DOMAIN plans |-> IF plans[i].destAddr = s THEN plans[i].moveNumber ELSE 0]
Gave(plans, s) == [i \in DOMAIN plans |-> IF plans[i].srcAddr = s THEN plans[i].moveNumber ELSE 0]
After(plans, s) == rec[s] + Total(Got(plans, s)) - Total(Gave(plans, s))

(* generatePlanForEvent: the walk reads past the end of the list exactly   *)
(* when the most loaded server cannot bring the least loaded one up to the *)
(* average; if it can, every server below the average gets what it lacks,  *)
(* all of it from that one server.                                         *)
PlanIsOneSource ==
    (Planned /\ Needy # {}) =>
        LET result == generatePlanForEvent(rec)
            src == SortByMeta(rec)[1]
        IN /\ result.overrun <=> Max(Numbers) + Min(Numbers) < 2 * CeilAverage(rec)
           /\ ~ result.overrun =>
                /\ Len(result.plans) = Cardinality(Needy)
                /\ Range(result.plans) =
                     {Plan(src, d, CeilAverage(rec) - rec[d]) : d \in Needy}

(* The redistribution's purpose: when one server alone is above the        *)
(* average and the average is a whole number, the plan leaves every server *)
(* with exactly the average.                                               *)
PlanEvens ==
    (/\ Planned
     /\ Total(rec) = Size(rec) * CeilAverage(rec)
     /\ Cardinality({s \in DOMAIN rec : rec[s] > CeilAverage(rec)}) = 1) =>
        LET result == generatePlanForEvent(rec)
        IN ~ result.overrun /\ \A s \in DOMAIN rec : After(result.plans, s) = CeilAverage(rec)
=============================================================================
