----------------------------- MODULE MCCluster -----------------------------
(* Small clusters for TLC: two groups of two, with and without a server in *)
(* the free pool, and the calls of the clients.                            *)
EXTENDS Cluster, TLC

OneSub == "s1" :> [event |-> "a", counted |-> FALSE]
NoMsg == <<>>
OnePub == "p1" :> "a"
=============================================================================
