------------------------------ MODULE Operator ------------------------------
(***************************************************************************)
(* The operator process (operator.cc, notifyserver.cc).  Its main thread   *)
(* registers task bundles: it binds a fresh client id to each trigger of a *)
(* bundle, subscribes the triggers at a server, and starts the tasks whose *)
(* pre trigger is INIT.  The threads of its notification service run the   *)
(* template of a task when its pre trigger is notified.                    *)
(*                                                                         *)
(* A task is started by the shell: sbatch writes the number of the job to  *)
(* one file, syscommand.txt, which is read back.  All threads share it.    *)
(***************************************************************************)
EXTENDS Naturals, Sequences

CONSTANTS
    Bundles,        \* the bundles main registers: [task, pre, post]
    Handlers,       \* threads of the notification service
    Main,           \* the main thread
    FirstJob,       \* number of the first job slurm starts
    MaxNotify,      \* notifications that arrive
    None

ASSUME OperatorAssumption ==
    /\ Len(Bundles) \in Nat \ {0} /\ DOMAIN Bundles = 1 .. Len(Bundles)
    /\ \A i \in DOMAIN Bundles : DOMAIN Bundles[i] = {"task", "pre", "post"}
    /\ \A i, j \in DOMAIN Bundles : Bundles[i].task = Bundles[j].task => i = j
    /\ Main \notin Handlers /\ None \notin Nat
    /\ FirstJob \in Nat \ {0} /\ MaxNotify \in Nat

VARIABLES
    pc,             \* thread: control
    next,           \* main: the bundle it registers
    id, template,   \* handler: the client id notified, the template it got
    bmap,           \* tasks registered
    taskRunningID,  \* task -> the id kept in bmap, or None
    submap,         \* client ids bound to a trigger
    subscribed,     \* ids a server has accepted
    file,           \* content of syscommand.txt: None, Empty or a job number
    nextJob,        \* the number of slurm's next job
    arrived,        \* notifications that arrived
    NotifiedNum,    \* notifications that were handled
    \* history
    jobsOf,         \* task -> jobs started for it
    failed,         \* threads whose last submission failed
    mixed           \* tasks a run of which met another run

mapVars == <<bmap, taskRunningID, submap, subscribed>>
slurmVars == <<file, nextJob, jobsOf, failed, mixed>>
handlerVars == <<id, template, arrived, NotifiedNum>>
vars == <<pc, next, mapVars, slurmVars, handlerVars>>

Empty == 0
Threads == Handlers \cup {Main}
Tasks == {Bundles[i].task : i \in DOMAIN Bundles}
Bundle == Bundles[next]

(* The client id bound to a trigger of a task: a uuid in the code. *)
Pre(t) == <<t, "pre">>
Post(t) == <<t, "post">>

Alive == pc[Main] \notin {"exit", "crashed"}
Running(r) == pc[r] \in {"truncate", "submit", "read"}

(* The task a thread runs. *)
TaskOf(r) == IF r = Main THEN Bundle.task ELSE id[r][1]

Goto(r, l) == pc' = [pc EXCEPT ![r] = l]

Init ==
    /\ pc = [r \in Threads |-> IF r = Main THEN "start" ELSE "idle"]
    /\ next = 1
    /\ id = [h \in Handlers |-> None]
    /\ template = [h \in Handlers |-> None]
    /\ bmap = {} /\ submap = {} /\ subscribed = {}
    /\ taskRunningID = [t \in Tasks |-> None]
    /\ file = None /\ nextJob = FirstJob
    /\ arrived = 0 /\ NotifiedNum = 0
    /\ jobsOf = [t \in Tasks |-> {}]
    /\ failed = {} /\ mixed = {}

-----------------------------------------------------------------------------
(* main: the address of a worker of group 0 is taken from its directory,   *)
(* and without one the process ends.                                       *)
Connect ==
    /\ pc[Main] = "start"
    /\ Goto(Main, "exit") \/ Goto(Main, "insert")
    /\ UNCHANGED <<next, mapVars, slurmVars, handlerVars>>

(* testBundleRegister: the bundle goes into bmap without bmapMutex.  The   *)
(* insertion has a beginning and an end.                                   *)
InsertBegin ==
    /\ pc[Main] = "insert"
    /\ Goto(Main, "inserting")
    /\ UNCHANGED <<next, mapVars, slurmVars, handlerVars>>

InsertEnd ==
    /\ pc[Main] = "inserting"
    /\ bmap' = bmap \cup {Bundle.task}
    /\ Goto(Main, "bind")
    /\ UNCHANGED <<next, taskRunningID, submap, subscribed, slurmVars, handlerVars>>

MutBindPre ==
    /\ pc[Main] = "bind"
    /\ submap' = submap \cup {Pre(Bundle.task)}
    /\ Goto(Main, "post")
    /\ UNCHANGED <<next, bmap, taskRunningID, subscribed, slurmVars, handlerVars>>

(* Both ids are bound before the first is known to a server. *)
Bind ==
    /\ pc[Main] = "bind"
    /\ submap' = submap \cup {Pre(Bundle.task), Post(Bundle.task)}
    /\ Goto(Main, "post")
    /\ UNCHANGED <<next, bmap, taskRunningID, subscribed, slurmVars, handlerVars>>

(* The subscription succeeds, or its failure is only printed. *)
Subscribe(i) == subscribed' = subscribed \cup {i} \/ UNCHANGED subscribed

SubscribePost ==
    /\ pc[Main] = "post"
    /\ IF Bundle.post = "NONE" THEN UNCHANGED subscribed ELSE Subscribe(Post(Bundle.task))
    /\ Goto(Main, "pre")
    /\ UNCHANGED <<next, bmap, taskRunningID, submap, slurmVars, handlerVars>>

(* main registers the next bundle, or sleeps for ever. *)
Registered(from) ==
    /\ pc[Main] = from
    /\ Goto(Main, IF next < Len(Bundles) THEN "insert" ELSE "loop")
    /\ next' = IF next < Len(Bundles) THEN next + 1 ELSE next

SubscribePre ==
    /\ Bundle.pre # "INIT"
    /\ Subscribe(Pre(Bundle.task))
    /\ Registered("pre")
    /\ UNCHANGED <<bmap, taskRunningID, submap, slurmVars, handlerVars>>

-----------------------------------------------------------------------------
(* runTaskByTemplateSlurm *)

(* A run begins: history of the runs that meet it. *)
Begin(r) ==
    LET others == {q \in Threads \ {r} : Running(q)} IN
    /\ Goto(r, "truncate")
    /\ mixed' = IF others = {} THEN mixed
                ELSE mixed \cup {TaskOf(q) : q \in others \cup {r}}
    /\ failed' = failed \ {r}
    /\ UNCHANGED <<file, nextJob, jobsOf>>

StartInit ==
    /\ pc[Main] = "pre" /\ Bundle.pre = "INIT"
    /\ Begin(Main)
    /\ UNCHANGED <<next, mapVars, handlerVars>>

MutAppend(r) ==
    /\ Alive /\ pc[r] = "truncate"
    /\ file' = IF file = None THEN Empty ELSE file
    /\ Goto(r, "submit")
    /\ UNCHANGED <<next, mapVars, nextJob, jobsOf, failed, mixed, handlerVars>>

(* The shell opens the file of the redirection. *)
Truncate(r) ==
    /\ Alive /\ pc[r] = "truncate"
    /\ file' = Empty
    /\ Goto(r, "submit")
    /\ UNCHANGED <<next, mapVars, nextJob, jobsOf, failed, mixed, handlerVars>>

(* sbatch prints the job's number, or fails and prints nothing; without    *)
(* the name of a template it fails.                                        *)
Submit(r) ==
    /\ Alive /\ pc[r] = "submit"
    /\ \/ /\ r \in Handlers => template[r] # None
          /\ file' = nextJob
          /\ nextJob' = nextJob + 1
          /\ jobsOf' = [jobsOf EXCEPT ![TaskOf(r)] = @ \cup {nextJob}]
          /\ UNCHANGED failed
       \/ failed' = failed \cup {r} /\ UNCHANGED <<file, nextJob, jobsOf>>
    /\ Goto(r, "read")
    /\ UNCHANGED <<next, mapVars, mixed, handlerVars>>

(* The last five characters of the output: four digits and the newline. *)
Digits(n) == n % 10000

(* substr on an empty text throws.  Nobody catches it in main; around a    *)
(* handler the RPC library may.                                            *)
Throw(r) ==
    IF r = Main THEN Goto(Main, "crashed")
    ELSE Goto(Main, "crashed") \/ Goto(r, "idle")

MutBackground(r) ==
    /\ Alive /\ pc[r] \in {"submit", "read"}
    /\ IF file = Empty
       THEN Throw(r) /\ UNCHANGED <<next, taskRunningID>>
       ELSE IF r = Main
       THEN /\ taskRunningID' = [taskRunningID EXCEPT ![Bundle.task] = Digits(file)]
            /\ Registered(pc[r])
       ELSE Goto(r, "done") /\ UNCHANGED <<next, taskRunningID>>
    /\ UNCHANGED <<bmap, submap, subscribed, slurmVars, handlerVars>>

(* The file is read back.  main keeps the id in bmap, a handler drops it. *)
Read(r) ==
    /\ Alive /\ pc[r] = "read"
    /\ IF file = Empty
       THEN Throw(r) /\ UNCHANGED <<next, taskRunningID>>
       ELSE IF r = Main
       THEN /\ taskRunningID' = [taskRunningID EXCEPT ![Bundle.task] = Digits(file)]
            /\ Registered(pc[r])
       ELSE Goto(r, "done") /\ UNCHANGED <<next, taskRunningID>>
    /\ UNCHANGED <<bmap, submap, subscribed, slurmVars, handlerVars>>

-----------------------------------------------------------------------------
(* Notify, called by a server for a subscription it has triggered. *)
Notify(h) ==
    /\ Alive /\ pc[h] = "idle" /\ arrived < MaxNotify
    /\ \E i \in subscribed : id' = [id EXCEPT ![h] = i]
    /\ arrived' = arrived + 1
    /\ Goto(h, "trigger")
    /\ UNCHANGED <<next, mapVars, slurmVars, template, NotifiedNum>>

(* ActionByOperator: submap[clientID] makes an entry without type when the *)
(* id is unknown, and nothing is done for it or for a post trigger.        *)
FindTrigger(h) ==
    /\ Alive /\ pc[h] = "trigger"
    /\ submap' = submap \cup {id[h]}
    /\ Goto(h, "template")
    /\ UNCHANGED <<next, bmap, taskRunningID, subscribed, slurmVars, handlerVars>>

(* bmap[taskName], under a mutex the insertion of main does not take: then *)
(* the search may miss the task or run into a broken tree.                 *)
FindTemplate(h) ==
    /\ Alive /\ pc[h] = "template"
    /\ \/ /\ template' = [template EXCEPT ![h] = IF id[h][1] \in bmap THEN id[h][1] ELSE None]
          /\ IF id[h] = Pre(id[h][1]) THEN Begin(h) ELSE Goto(h, "done") /\ UNCHANGED slurmVars
       \/ /\ pc[Main] = "inserting"
          /\ template' = [template EXCEPT ![h] = None]
          /\ IF id[h] = Pre(id[h][1]) THEN Begin(h) ELSE Goto(h, "done") /\ UNCHANGED slurmVars
       \/ /\ pc[Main] = "inserting"
          /\ Goto(Main, "crashed")
          /\ UNCHANGED <<template, slurmVars>>
    /\ UNCHANGED <<next, mapVars, id, arrived, NotifiedNum>>

Count(h) ==
    /\ Alive /\ pc[h] = "done"
    /\ NotifiedNum' = NotifiedNum + 1
    /\ id' = [id EXCEPT ![h] = None]
    /\ template' = [template EXCEPT ![h] = None]
    /\ Goto(h, "idle")
    /\ UNCHANGED <<next, mapVars, slurmVars, arrived>>

(* main sleeps between looks at nothing; after a crash nothing is left. *)
Sleep ==
    /\ pc[Main] \in {"loop", "exit", "crashed"}
    /\ UNCHANGED vars

Next ==
    \/ Connect \/ InsertBegin \/ InsertEnd \/ Bind \/ SubscribePost \/ SubscribePre
    \/ StartInit \/ Sleep
    \/ \E r \in Threads : Truncate(r) \/ Submit(r) \/ Read(r)
    \/ \E h \in Handlers : Notify(h) \/ FindTrigger(h) \/ FindTemplate(h) \/ Count(h)

Spec == Init /\ [][Next]_vars

-----------------------------------------------------------------------------
(* operator.cc:212, "sub post tg firstly then sub pre tg": whatever        *)
(* notification comes in, however early, its id is bound and its task is   *)
(* registered, and no task is started by a notification while its own post *)
(* trigger still is to be subscribed.                                      *)
TriggersReady ==
    \A h \in Handlers :
        /\ pc[h] = "trigger" => id[h] \in submap /\ id[h][1] \in bmap
        /\ Running(h) => ~ (pc[Main] \in {"bind", "post"} /\ Bundle.task = id[h][1])

(* The id kept for a task started by main, which stopTaskBySlurm would     *)
(* cancel, ends like the number of a job of this very task: unless runs    *)
(* met in the one file, a failing sbatch never leaves an older id to read. *)
JobIdOwn ==
    \A t \in Tasks :
        \/ taskRunningID[t] \in {None} \cup {Digits(n) : n \in jobsOf[t]}
        \/ t \in mixed

(* One task at a time is safe: the process dies only by a submission that  *)
(* failed, by runs that met in the one file, or by a notification during   *)
(* the unprotected insertion into bmap.                                    *)
NoCrashAlone ==
    pc[Main] = "crashed" =>
        \/ \E h \in Handlers : pc[h] = "template"
        \/ \E r \in Threads :
             /\ pc[r] \in {"read", "crashed"}
             /\ r \in failed \/ TaskOf(r) \in mixed
=============================================================================
