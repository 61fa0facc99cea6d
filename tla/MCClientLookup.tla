-------------------------- MODULE MCClientLookup ---------------------------
EXTENDS ClientLookup

(* Group 0 has a worker and a coordinator, group 1 a coordinator only. *)
GroupOf == [s \in Servers |-> IF s = "s3" THEN 1 ELSE 0]

Lookups == [p \in Procs |-> IF p \in MayStop THEN 1 ELSE 2]
=============================================================================
