-------------------------- MODULE MCRedistribution --------------------------
(* Two groups, each with an overloaded coordinator, and one server in the  *)
(* pool; one more client subscribes while the checks run.                  *)
EXTENDS Redistribution, TLC

HomeOf == 1 :> 1 @@ 2 :> 2 @@ 3 :> 1
OneEvent == [c \in Clients |-> "a"]
SettledAt == 1 :> {1, 2, 3, 4} @@ 2 :> {5, 6} @@ 3 :> {}
=============================================================================
