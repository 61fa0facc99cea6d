---------------------------- MODULE MCOperator -----------------------------
EXTENDS Operator, TLC

(* An analysis is registered and may be notified while main starts the     *)
(* simulation and registers the next task.                                 *)
ThreeTasks ==
    << [task |-> "ANA", pre |-> "ANASTART", post |-> "ANAEND"],
       [task |-> "SIM", pre |-> "INIT", post |-> "NONE"],
       [task |-> "CHECKING", pre |-> "INIT", post |-> "CHECKEND"] >>

Symmetry == Permutations(Handlers)
=============================================================================
