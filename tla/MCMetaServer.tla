---------------------------- MODULE MCMetaServer ----------------------------
(* Five clients that share a key of the queues, of the stored values or of *)
(* the timers.                                                             *)
EXTENDS MetaServer, TLC

Names == <<"c1", "c2", "c3", "c4", "c5">>
CallNames == {Names[i] : i \in DOMAIN Names}

Load(ops) == [c \in CallNames |-> [op |-> ops[CHOOSE i \in DOMAIN Names : Names[i] = c], key |-> "k"]]

Loads ==
    {Load(<<"Putmeta", "Putmeta", "Putmeta", "Getmeta", "Getmeta">>),
     Load(<<"Putmetaspace", "Putmetaspace", "Putmetaspace", "Getmetaspace", "Getmetaspace">>),
     Load(<<"Recordtimestart", "Recordtime", "Recordtime", "Recordtimetick", "Recordtime">>)}
=============================================================================
