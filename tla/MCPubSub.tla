------------------------------ MODULE MCPubSub ------------------------------
(* Small instances of PubSub for TLC: the calls the clients make. *)
EXTENDS PubSub, TLC

Box1 == [lbx |-> 0, lby |-> 0, ubx |-> 1, uby |-> 1]
Box2 == [lbx |-> 1, lby |-> 1, ubx |-> 2, uby |-> 2]

Name(c, evs) == [client |-> c, events |-> evs, matchType |-> "NAME", grid |-> NoGrid]
Grid(c, evs, g) == [client |-> c, events |-> evs, matchType |-> "META_GRID", grid |-> g]
PubName(evs) == [events |-> evs, matchType |-> "NAME", grid |-> Box1]
PubGrid(evs, g) == [events |-> evs, matchType |-> "META_GRID", grid |-> g]
Req(e, n) == [event |-> e, num |-> n]

(* Two publications race on the one wrapper both match; nobody asks for "b". *)
RaceSubs == "s1" :> Name("c1", <<Req("a", 1)>>)
RacePubs == "p1" :> PubName(<<"a">>) @@ "p2" :> [PubName(<<"b", "a">>) EXCEPT !.matchType = ""]

(* c2 and a caller without an id subscribe while a publication of two      *)
(* events is matched; c2 asks for "a" under the index event "b", and one   *)
(* publication names no event.                                             *)
WindowSubs == "s1" :> Name("c1", <<Req("a", 1)>>)
              @@ "s2" :> Name("c2", <<Req("b", 1), Req("a", 1)>>)
              @@ "s3" :> Name("", <<Req("a", 1)>>)
WindowPubs == "p1" :> PubName(<<"b", "a">>) @@ "p2" :> PubName(<<>>)

(* c1 subscribes again, with a box, while its first subscription is        *)
(* matched by name; a published box matches the new subscription only.     *)
AgainSubs == "s1" :> Name("c1", <<Req("a", 2)>>) @@ "s2" :> Grid("c1", <<Req("a", 1)>>, Box2)
AgainPubs == "p1" :> PubName(<<"a", "a">>) @@ "p2" :> PubGrid(<<"a">>, Box1)

Symmetry == Permutations(Workers)
=============================================================================
