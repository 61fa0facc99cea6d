--------------------------- MODULE OperatorProofs ---------------------------
(***************************************************************************)
(* Proofs about Operator: for every list of bundles and any number of      *)
(* notification threads, a notification finds its trigger bound and its    *)
(* task registered, and runs that meet no other run keep the number of     *)
(* their own job and do not end the process.                               *)
(***************************************************************************)
EXTENDS Operator, TLAPS

Labels == {"start", "exit", "insert", "inserting", "bind", "post", "pre", "truncate", "submit",
           "read", "loop", "crashed", "idle", "trigger", "template", "done"}

Ids == {Pre(t) : t \in Tasks} \cup {Post(t) : t \in Tasks}

(* The handler of a notification that is not over. *)
Handling(h) == pc[h] \in {"trigger", "template", "truncate", "submit", "read", "done"}

Types ==
    /\ pc \in [Threads -> Labels]
    /\ next \in DOMAIN Bundles
    /\ DOMAIN id = Handlers
    /\ DOMAIN taskRunningID = Tasks
    /\ nextJob \in Nat \ {0}
    /\ jobsOf \in [Tasks -> SUBSET (Nat \ {0})]

(* main registers a task, binds its ids and only then makes them known to  *)
(* a server, the pre trigger last.                                         *)
Registration ==
    /\ bmap \subseteq Tasks
    /\ subscribed \subseteq submap /\ submap \subseteq Ids
    /\ \A i \in submap : i[1] \in bmap
    /\ pc[Main] \in {"bind", "post", "pre"} => Bundle.task \in bmap
    /\ pc[Main] \in {"post", "pre"} => {Pre(Bundle.task), Post(Bundle.task)} \subseteq submap
    /\ \A i \in DOMAIN Bundles :
          Pre(Bundles[i].task) \in subscribed => i < next \/ pc[Main] \in {"loop", "crashed"}

(* A handler works for an id a server knows, and runs a task for a pre     *)
(* trigger only.                                                           *)
Notified ==
    \A h \in Handlers :
        /\ Handling(h) => id[h] \in subscribed
        /\ Running(h) => id[h] = Pre(id[h][1])

(* Runs that meet are marked; what a run that met no other one finds in    *)
(* the file is its own.                                                    *)
RunsApart ==
    /\ \A q, r \in Threads : q # r /\ Running(q) /\ Running(r) => TaskOf(r) \in mixed
    /\ \A r \in Threads : Running(r) /\ TaskOf(r) \notin mixed =>
          /\ pc[r] = "submit" => file = Empty
          /\ pc[r] = "read" => file \in {Empty} \cup jobsOf[TaskOf(r)]
          /\ pc[r] = "read" /\ r \notin failed => file # Empty


Inv == Types /\ Registration /\ Notified /\ RunsApart

-----------------------------------------------------------------------------
(* A thread moves on and no other one does. *)
LEMMA Moved ==
    ASSUME Types, NEW r \in Threads, NEW l \in Labels, Goto(r, l)
    PROVE  pc' \in [Threads -> Labels] /\ pc'[r] = l /\ \A q \in Threads \ {r} : pc'[q] = pc[q]
BY DEF Types, Goto

(* The threads, and the bundle main registers. *)
LEMMA ThreadFacts ==
    ASSUME Types
    PROVE  /\ Main \in Threads /\ \A h \in Handlers : h \in Threads /\ h # Main
           /\ \A r \in Threads : r # Main => r \in Handlers
           /\ Bundle.task \in Tasks /\ \A i \in DOMAIN Bundles : Bundles[i].task \in Tasks
           /\ Pre(Bundle.task) \in Ids /\ Post(Bundle.task) \in Ids
           /\ \A t \in Tasks : Pre(t)[1] = t /\ Post(t)[1] = t
BY OperatorAssumption DEF Types, Threads, Bundle, Tasks, Ids, Pre, Post

(* An id of a pre trigger tells the task. *)
LEMMA PreId == \A s, t : (Pre(s) = Pre(t) => s = t) /\ Pre(s) # Post(t)
<1> SUFFICES ASSUME NEW s, NEW t PROVE (Pre(s) = Pre(t) => s = t) /\ Pre(s) # Post(t)
  OBVIOUS
<1>1. Pre(s)[1] = s /\ Pre(t)[1] = t /\ Pre(s)[2] = "pre" /\ Post(t)[2] = "post"
  BY DEF Pre, Post
<1> QED BY <1>1

(* The steps that end a registration. *)
LEMMA RegisteredEffect ==
    ASSUME Types, NEW l, Registered(l)
    PROVE  /\ pc[Main] = l /\ pc' \in [Threads -> Labels] /\ next' \in DOMAIN Bundles
           /\ \/ pc'[Main] = "insert" /\ next' = next + 1
              \/ pc'[Main] = "loop" /\ next' = next
           /\ \A q \in Threads \ {Main} : pc'[q] = pc[q]
<1>1. next \in 1 .. Len(Bundles) /\ Len(Bundles) \in Nat /\ DOMAIN Bundles = 1 .. Len(Bundles)
  BY OperatorAssumption DEF Types
<1>2. Main \in Threads
  BY ThreadFacts
<1>3. CASE next < Len(Bundles)
  BY <1>1, <1>2, <1>3, Moved DEF Registered, Labels
<1>4. CASE ~ (next < Len(Bundles))
  BY <1>1, <1>2, <1>4, Moved DEF Registered, Labels
<1> QED BY <1>3, <1>4

(* A handler that runs or reads works for an id. *)
LEMMA HandlerTask ==
    ASSUME Inv, NEW h \in Handlers, Handling(h)
    PROVE  id[h] \in Ids /\ id[h][1] \in Tasks /\ id[h] \in subscribed
<1>1. id[h] \in subscribed /\ id[h] \in Ids
  BY DEF Inv, Notified, Registration
<1>2. \A i \in Ids : i[1] \in Tasks
  BY DEF Ids, Pre, Post
<1> QED BY <1>1, <1>2

-----------------------------------------------------------------------------
(* What the steps of a run do to the control of the threads. *)
LEMMA ThrowEffect ==
    ASSUME Types, NEW r \in Threads, Throw(r)
    PROVE  /\ pc' \in [Threads -> Labels]
           /\ pc'[Main] \in {pc[Main], "crashed"}
           /\ \A q \in Threads \ {Main} : pc'[q] = pc[q] \/ (q = r /\ pc'[q] = "idle" /\ pc'[Main] = pc[Main])
           /\ r = Main => pc'[Main] = "crashed"
<1>1. Main \in Threads /\ "crashed" \in Labels /\ "idle" \in Labels
  BY ThreadFacts DEF Labels
<1>2. CASE Goto(Main, "crashed")
  BY <1>1, <1>2, Moved
<1>3. CASE r # Main /\ Goto(r, "idle")
  BY <1>1, <1>3, Moved
<1> QED BY <1>2, <1>3 DEF Throw

LEMMA BeginEffect ==
    ASSUME Types, NEW r \in Threads, Begin(r)
    PROVE  /\ pc' \in [Threads -> Labels] /\ pc'[r] = "truncate"
           /\ \A q \in Threads \ {r} : pc'[q] = pc[q]
           /\ UNCHANGED <<file, nextJob, jobsOf>> /\ failed' \subseteq failed
           /\ \A q \in Threads \ {r} : q \in failed => q \in failed'
           /\ mixed \subseteq mixed'
           /\ \A q \in Threads \ {r} : Running(q) => TaskOf(q) \in mixed' /\ TaskOf(r) \in mixed'
<1>1. "truncate" \in Labels /\ Goto(r, "truncate")
  BY DEF Labels, Begin
<1>2. UNCHANGED <<file, nextJob, jobsOf>> /\ failed' = failed \ {r}
  BY DEF Begin
<1>3. mixed \subseteq mixed'
      /\ \A q \in Threads \ {r} : Running(q) => TaskOf(q) \in mixed' /\ TaskOf(r) \in mixed'
  BY DEF Begin
<1> QED BY <1>1, <1>2, <1>3, Moved

(* What the second half of a notification does: nothing, a run begins, or  *)
(* the process dies in the map main is inserting into.                     *)
LEMMA TemplateEffect ==
    ASSUME Types, NEW h \in Handlers, FindTemplate(h)
    PROVE  /\ pc[h] = "template" /\ Alive
           /\ UNCHANGED <<next, bmap, taskRunningID, submap, subscribed, id>>
           /\ \/ pc'[h] = "done" /\ UNCHANGED <<file, nextJob, jobsOf, failed, mixed>>
                 /\ pc' \in [Threads -> Labels] /\ \A q \in Threads \ {h} : pc'[q] = pc[q]
              \/ id[h] = Pre(id[h][1]) /\ Begin(h)
              \/ pc' \in [Threads -> Labels] /\ pc'[Main] = "crashed"
                 /\ UNCHANGED <<file, nextJob, jobsOf, failed, mixed>>
                 /\ \A q \in Threads \ {Main} : pc'[q] = pc[q]
<1>1. h \in Threads /\ Main \in Threads /\ "done" \in Labels /\ "crashed" \in Labels
  BY ThreadFacts DEF Labels
<1>2. pc[h] = "template" /\ Alive /\ UNCHANGED <<next, bmap, taskRunningID, submap, subscribed, id>>
  BY DEF FindTemplate, mapVars
<1>3. \/ id[h] = Pre(id[h][1]) /\ Begin(h)
      \/ Goto(h, "done") /\ UNCHANGED slurmVars
      \/ Goto(Main, "crashed") /\ UNCHANGED slurmVars
  BY DEF FindTemplate
<1>4. CASE Goto(h, "done") /\ UNCHANGED slurmVars
  BY <1>1, <1>2, <1>4, Moved DEF slurmVars
<1>5. CASE Goto(Main, "crashed") /\ UNCHANGED slurmVars
  BY <1>1, <1>2, <1>5, Moved DEF slurmVars
<1> QED BY <1>2, <1>3, <1>4, <1>5

(* The result of a run is read: main keeps it, or the thread throws. *)
LEMMA ReadEffect ==
    ASSUME Types, NEW r \in Threads, Read(r)
    PROVE  /\ pc[r] = "read" /\ Alive
           /\ UNCHANGED <<bmap, submap, subscribed, slurmVars, handlerVars>>
           /\ \/ file = Empty /\ Throw(r) /\ UNCHANGED <<next, taskRunningID>>
              \/ /\ file # Empty /\ r = Main /\ Registered("read")
                 /\ taskRunningID' = [taskRunningID EXCEPT ![Bundle.task] = Digits(file)]
              \/ /\ file # Empty /\ r # Main /\ UNCHANGED <<next, taskRunningID>>
                 /\ pc' \in [Threads -> Labels] /\ pc'[r] = "done"
                 /\ \A q \in Threads \ {r} : pc'[q] = pc[q]
<1>1. /\ pc[r] = "read" /\ Alive
      /\ UNCHANGED <<bmap, submap, subscribed, slurmVars, handlerVars>>
  BY DEF Read
<1>2. "done" \in Labels
  BY DEF Labels
<1>3. CASE file = Empty
  BY <1>1, <1>3 DEF Read
<1>4. CASE file # Empty /\ r = Main
  BY <1>1, <1>4 DEF Read
<1>5. CASE file # Empty /\ r # Main
  <2>1. Goto(r, "done") /\ UNCHANGED <<next, taskRunningID>>
    BY <1>5 DEF Read
  <2> QED BY <1>1, <1>2, <1>5, <2>1, Moved
<1> QED BY <1>3, <1>4, <1>5


-----------------------------------------------------------------------------
(* The other steps of main: where they lead and what they leave alone. *)
LEMMA MainEffect ==
    ASSUME Types, Connect \/ InsertBegin \/ InsertEnd \/ Bind \/ SubscribePost
    PROVE  /\ pc' \in [Threads -> Labels] /\ \A q \in Threads \ {Main} : pc'[q] = pc[q]
           /\ UNCHANGED <<next, taskRunningID, slurmVars, handlerVars>>
           /\ subscribed \subseteq subscribed'
           /\ pc[Main] \in {"start", "insert", "inserting", "bind", "post"}
           /\ pc'[Main] \in {"exit", "insert", "inserting", "bind", "post", "pre"}
<1>1. Main \in Threads /\ {"exit", "insert", "inserting", "bind", "post", "pre"} \subseteq Labels
  BY ThreadFacts DEF Labels
<1>2. PICK l \in {"exit", "insert", "inserting", "bind", "post", "pre"} : Goto(Main, l)
  BY DEF Connect, InsertBegin, InsertEnd, Bind, SubscribePost
<1>3. /\ UNCHANGED <<next, taskRunningID, slurmVars, handlerVars>>
      /\ subscribed \subseteq subscribed'
      /\ pc[Main] \in {"start", "insert", "inserting", "bind", "post"}
  BY DEF Connect, InsertBegin, InsertEnd, Bind, SubscribePost, Subscribe, mapVars
<1> QED BY <1>1, <1>2, <1>3, Moved

(* Truncate, Submit and the steps of a handler that move it alone. *)
LEMMA StepEffect ==
    ASSUME Types, NEW r \in Threads,
           \/ Truncate(r) \/ Submit(r)
           \/ r \in Handlers /\ (Notify(r) \/ FindTrigger(r) \/ Count(r))
    PROVE  /\ pc' \in [Threads -> Labels] /\ \A q \in Threads \ {r} : pc'[q] = pc[q]
           /\ UNCHANGED <<next, bmap, taskRunningID, subscribed>> /\ Alive
           /\ \/ Truncate(r) /\ pc[r] = "truncate" /\ pc'[r] = "submit"
              \/ Submit(r) /\ pc[r] = "submit" /\ pc'[r] = "read"
              \/ Notify(r) /\ pc[r] = "idle" /\ pc'[r] = "trigger"
              \/ FindTrigger(r) /\ pc[r] = "trigger" /\ pc'[r] = "template"
              \/ Count(r) /\ pc[r] = "done" /\ pc'[r] = "idle"
<1>1. {"submit", "read", "trigger", "template", "idle"} \subseteq Labels
  BY DEF Labels
<1>2. \/ Truncate(r) /\ pc[r] = "truncate" /\ Goto(r, "submit")
      \/ Submit(r) /\ pc[r] = "submit" /\ Goto(r, "read")
      \/ Notify(r) /\ pc[r] = "idle" /\ Goto(r, "trigger")
      \/ FindTrigger(r) /\ pc[r] = "trigger" /\ Goto(r, "template")
      \/ Count(r) /\ pc[r] = "done" /\ Goto(r, "idle")
  BY DEF Truncate, Submit, Notify, FindTrigger, Count
<1>3. UNCHANGED <<next, bmap, taskRunningID, subscribed>> /\ Alive
  BY DEF Truncate, Submit, Notify, FindTrigger, Count, mapVars
<1> QED BY <1>1, <1>2, <1>3, Moved

LEMMA TypesStep ==
    ASSUME Inv, [Next]_vars
    PROVE  Types'
<1> DEFINE Rest == /\ next' \in DOMAIN Bundles
                   /\ DOMAIN id' = Handlers
                   /\ DOMAIN taskRunningID' = Tasks
                   /\ nextJob' \in Nat \ {0}
                   /\ jobsOf' \in [Tasks -> SUBSET (Nat \ {0})]
<1> USE DEF Inv
<1>1. CASE UNCHANGED vars
  BY <1>1 DEF vars, mapVars, slurmVars, handlerVars, Types
<1>2. CASE Connect \/ InsertBegin \/ InsertEnd \/ Bind \/ SubscribePost
  BY <1>2, MainEffect DEF Types, slurmVars, handlerVars
<1>3. CASE SubscribePre
  <2>1. Registered("pre") /\ UNCHANGED <<taskRunningID, slurmVars, handlerVars>>
    BY <1>3 DEF SubscribePre
  <2> QED BY <2>1, RegisteredEffect DEF Types, slurmVars, handlerVars
<1>4. CASE StartInit
  <2>1. Begin(Main) /\ UNCHANGED <<next, taskRunningID, id>> /\ Main \in Threads
    BY <1>4, ThreadFacts DEF StartInit, mapVars, handlerVars
  <2> QED BY <2>1, BeginEffect DEF Types
<1>5. ASSUME NEW r \in Threads, Truncate(r) \/ Submit(r) PROVE Types'
  <2>1. pc' \in [Threads -> Labels] /\ UNCHANGED <<next, taskRunningID>>
    BY <1>5, StepEffect
  <2>2. UNCHANGED id
    BY <1>5 DEF Truncate, Submit, handlerVars
  <2>3. /\ nextJob' \in Nat \ {0} /\ jobsOf' \in [Tasks -> SUBSET (Nat \ {0})]
    <3>1. CASE UNCHANGED <<nextJob, jobsOf>>
      BY <3>1 DEF Types
    <3>2. CASE nextJob' = nextJob + 1 /\ jobsOf' = [jobsOf EXCEPT ![TaskOf(r)] = @ \cup {nextJob}]
      <4>1. nextJob \in Nat \ {0} /\ jobsOf \in [Tasks -> SUBSET (Nat \ {0})]
        BY DEF Types
      <4>2. nextJob' \in Nat \ {0}
        BY <3>2, <4>1
      <4>3. jobsOf[TaskOf(r)] \cup {nextJob} \in SUBSET (Nat \ {0}) \/ TaskOf(r) \notin Tasks
        BY <4>1
      <4>4. jobsOf' \in [Tasks -> SUBSET (Nat \ {0})]
        BY <3>2, <4>1, <4>3
      <4> QED BY <4>2, <4>4
    <3> QED BY <1>5, <3>1, <3>2 DEF Truncate, Submit
  <2> QED BY <2>1, <2>2, <2>3 DEF Types
<1>6. ASSUME NEW r \in Threads, Read(r) PROVE Types'
  <2>1. UNCHANGED <<nextJob, jobsOf, id>>
    BY <1>6, ReadEffect DEF slurmVars, handlerVars
  <2>2. pc' \in [Threads -> Labels] /\ next' \in DOMAIN Bundles /\ DOMAIN taskRunningID' = Tasks
    BY <1>6, ReadEffect, ThrowEffect, RegisteredEffect DEF Types
  <2> QED BY <2>1, <2>2 DEF Types
<1>7. ASSUME NEW h \in Handlers, Notify(h) \/ FindTrigger(h) \/ Count(h) PROVE Types'
  <2>1. pc' \in [Threads -> Labels] /\ UNCHANGED <<next, taskRunningID>>
    BY <1>7, StepEffect, ThreadFacts
  <2>2. UNCHANGED <<nextJob, jobsOf>> /\ DOMAIN id' = DOMAIN id
    BY <1>7 DEF Notify, FindTrigger, Count, slurmVars, handlerVars
  <2> QED BY <2>1, <2>2 DEF Types
<1>8. ASSUME NEW h \in Handlers, FindTemplate(h) PROVE Types'
  <2>1. h \in Threads
    BY ThreadFacts
  <2>2. UNCHANGED <<next, taskRunningID, id, nextJob, jobsOf>> /\ pc' \in [Threads -> Labels]
    BY <1>8, <2>1, TemplateEffect, BeginEffect
  <2> QED BY <2>2 DEF Types
<1> QED BY <1>1, <1>2, <1>3, <1>4, <1>5, <1>6, <1>7, <1>8 DEF Next, Sleep

(* Steps of other threads: nothing is registered. *)
LEMMA RegistrationFrame ==
    ASSUME Inv, next' = next, bmap' = bmap, submap' = submap, subscribed' = subscribed,
           \/ pc'[Main] = pc[Main]
           \/ pc'[Main] = "crashed"
           \/ pc'[Main] = "truncate" /\ pc[Main] = "pre"
    PROVE  Registration'
<1>1. Bundle' = Bundle
  BY DEF Bundle
<1>2. pc[Main] \in {"loop", "crashed"} => pc'[Main] \in {"loop", "crashed"}
  OBVIOUS
<1> QED BY <1>1, <1>2 DEF Inv, Registration

(* The next bundle, or none: what is known of the ones before stays. *)
LEMMA RegistrationNext ==
    ASSUME Inv, NEW l \in {"pre", "read"}, Registered(l), UNCHANGED <<bmap, submap>>,
           subscribed \subseteq subscribed', subscribed' \subseteq subscribed \cup {Pre(Bundle.task)},
           subscribed' \subseteq submap
    PROVE  Registration'
<1>1. /\ next' \in DOMAIN Bundles /\ next \in Nat /\ DOMAIN Bundles \subseteq Nat
      /\ \/ pc'[Main] = "insert" /\ next' = next + 1
         \/ pc'[Main] = "loop" /\ next' = next
  BY RegisteredEffect, OperatorAssumption DEF Inv, Types
<1>2. ASSUME NEW i \in DOMAIN Bundles, Pre(Bundles[i].task) \in subscribed'
      PROVE  i < next' \/ pc'[Main] \in {"loop", "crashed"}
  <2>1. CASE Pre(Bundles[i].task) \in subscribed
    <3>1. i < next \/ pc[Main] \in {"loop", "crashed"}
      BY <2>1 DEF Inv, Registration
    <3>2. pc[Main] = l
      BY DEF Registered
    <3>3. i < next /\ i \in Nat
      BY <1>1, <3>1, <3>2
    <3> QED BY <1>1, <3>3
  <2>2. CASE Pre(Bundles[i].task) = Pre(Bundle.task)
    <3>1. i = next
      BY <2>2, PreId, OperatorAssumption DEF Inv, Types, Bundle
    <3> QED BY <1>1, <3>1
  <2> QED BY <1>2, <2>1, <2>2
<1>3. pc'[Main] \notin {"bind", "post", "pre"}
  BY <1>1
<1> QED BY <1>2, <1>3 DEF Inv, Registration


LEMMA RegistrationStep ==
    ASSUME Inv, [Next]_vars
    PROVE  Registration'
<1>0. Types /\ Registration
  BY DEF Inv
<1>1. CASE UNCHANGED vars
  <2>1. UNCHANGED <<next, bmap, submap, subscribed, pc>>
    BY <1>1 DEF vars, mapVars
  <2> QED BY <2>1, RegistrationFrame
<1>2. CASE Connect \/ InsertBegin \/ InsertEnd \/ Bind \/ SubscribePost
  <2>0. Bundle' = Bundle /\ next' = next /\ Main \in Threads
    BY <1>0, <1>2, MainEffect, ThreadFacts DEF Bundle
  <2>1. /\ Bundle.task \in Tasks /\ Pre(Bundle.task) \in Ids /\ Post(Bundle.task) \in Ids
        /\ Pre(Bundle.task)[1] = Bundle.task /\ Post(Bundle.task)[1] = Bundle.task
    BY <1>0, ThreadFacts
  <2>2. CASE Connect \/ InsertBegin
    <3>1. UNCHANGED <<bmap, submap, subscribed>>
      BY <2>2 DEF Connect, InsertBegin, mapVars
    <3>2. pc'[Main] \in {"exit", "insert", "inserting"} /\ pc[Main] \notin {"loop", "crashed"}
      BY <1>0, <2>0, <2>2, Moved DEF Connect, InsertBegin, Labels
    <3> QED BY <1>0, <2>0, <3>1, <3>2 DEF Registration
  <2>3. CASE InsertEnd
    <3>1. UNCHANGED <<submap, subscribed>> /\ bmap' = bmap \cup {Bundle.task} /\ pc[Main] = "inserting"
      BY <2>3 DEF InsertEnd
    <3>2. pc'[Main] = "bind"
      BY <1>0, <2>0, <2>3, Moved DEF InsertEnd, Labels
    <3> QED BY <1>0, <2>0, <2>1, <3>1, <3>2 DEF Registration
  <2>4. CASE Bind
    <3>1. /\ UNCHANGED <<bmap, subscribed>> /\ submap' = submap \cup {Pre(Bundle.task), Post(Bundle.task)}
          /\ pc[Main] = "bind"
      BY <2>4 DEF Bind
    <3>2. pc'[Main] = "post"
      BY <1>0, <2>0, <2>4, Moved DEF Bind, Labels
    <3> QED BY <1>0, <2>0, <2>1, <3>1, <3>2 DEF Registration
  <2>5. CASE SubscribePost
    <3>1. /\ UNCHANGED <<bmap, submap>> /\ subscribed' \subseteq subscribed \cup {Post(Bundle.task)}
          /\ pc[Main] = "post"
      BY <2>5 DEF SubscribePost, Subscribe
    <3>2. pc'[Main] = "pre"
      BY <1>0, <2>0, <2>5, Moved DEF SubscribePost, Labels
    <3>3. \A i \in DOMAIN Bundles : Pre(Bundles[i].task) \in subscribed' => Pre(Bundles[i].task) \in subscribed
      BY <3>1, PreId
    <3> QED BY <1>0, <2>0, <3>1, <3>2, <3>3 DEF Registration
  <2> QED BY <1>2, <2>2, <2>3, <2>4, <2>5
<1>3. CASE SubscribePre
  <2>1. /\ Registered("pre") /\ UNCHANGED <<bmap, submap>> /\ pc[Main] = "pre"
        /\ subscribed \subseteq subscribed' /\ subscribed' \subseteq subscribed \cup {Pre(Bundle.task)}
    BY <1>3 DEF SubscribePre, Subscribe, Registered
  <2>2. subscribed' \subseteq submap
    BY <1>0, <2>1 DEF Registration
  <2> QED BY <2>1, <2>2, RegistrationNext
<1>4. CASE StartInit
  <2>1. Begin(Main) /\ UNCHANGED <<next, bmap, submap, subscribed>> /\ pc[Main] = "pre" /\ Main \in Threads
    BY <1>0, <1>4, ThreadFacts DEF StartInit, mapVars
  <2>2. pc'[Main] = "truncate"
    BY <1>0, <2>1, BeginEffect
  <2> QED BY <2>1, <2>2, RegistrationFrame
<1>5. ASSUME NEW r \in Threads, Truncate(r) \/ Submit(r) PROVE Registration'
  <2>1. UNCHANGED <<next, bmap, submap, subscribed>>
    BY <1>5 DEF Truncate, Submit, mapVars
  <2>2. CASE r = Main
    <3>1. Bundle' = Bundle /\ pc[Main] \in {"truncate", "submit"} /\ pc'[Main] \in {"submit", "read"}
      BY <1>0, <1>5, <2>1, <2>2, StepEffect DEF Bundle, Truncate, Submit
    <3> QED BY <1>0, <2>1, <3>1 DEF Registration
  <2>3. CASE r # Main
    <3>1. pc'[Main] = pc[Main]
      BY <1>0, <1>5, <2>3, StepEffect, ThreadFacts
    <3> QED BY <2>1, <3>1, RegistrationFrame
  <2> QED BY <2>2, <2>3
<1>6. ASSUME NEW r \in Threads, Read(r) PROVE Registration'
  <2>1. UNCHANGED <<bmap, submap, subscribed>> /\ pc[r] = "read"
    BY <1>0, <1>6, ReadEffect
  <2>2. CASE Throw(r) /\ UNCHANGED next
    <3>1. pc'[Main] \in {pc[Main], "crashed"}
      BY <1>0, <2>2, ThrowEffect
    <3> QED BY <2>1, <2>2, <3>1, RegistrationFrame
  <2>3. CASE r = Main /\ Registered("read")
    <3>1. subscribed' \subseteq submap /\ "read" \in {"pre", "read"}
      BY <1>0, <2>1 DEF Registration
    <3> QED BY <2>1, <2>3, <3>1, RegistrationNext
  <2>4. CASE r # Main /\ UNCHANGED next /\ \A q \in Threads \ {r} : pc'[q] = pc[q]
    <3>1. pc'[Main] = pc[Main]
      BY <1>0, <2>4, ThreadFacts
    <3> QED BY <2>1, <2>4, <3>1, RegistrationFrame
  <2> QED BY <1>0, <1>6, <2>2, <2>3, <2>4, ReadEffect
<1>7. ASSUME NEW h \in Handlers, Notify(h) \/ FindTrigger(h) \/ Count(h) PROVE Registration'
  <2>1. pc'[Main] = pc[Main] /\ UNCHANGED <<next, bmap, subscribed>>
    BY <1>0, <1>7, StepEffect, ThreadFacts
  <2>2. UNCHANGED submap
    <3>1. CASE Notify(h) \/ Count(h)
      BY <3>1 DEF Notify, Count, mapVars
    <3>2. CASE FindTrigger(h)
      <4>1. id[h] \in submap
        BY <3>2 DEF FindTrigger, Inv, Notified, Handling, Registration
      <4> QED BY <3>2, <4>1 DEF FindTrigger
    <3> QED BY <1>7, <3>1, <3>2
  <2> QED BY <2>1, <2>2, RegistrationFrame
<1>8. ASSUME NEW h \in Handlers, FindTemplate(h) PROVE Registration'
  <2>1. UNCHANGED <<next, bmap, submap, subscribed>>
    BY <1>0, <1>8, TemplateEffect
  <2>2. pc'[Main] = pc[Main] \/ pc'[Main] = "crashed"
    BY <1>0, <1>8, TemplateEffect, BeginEffect, ThreadFacts
  <2> QED BY <2>1, <2>2, RegistrationFrame
<1> QED BY <1>1, <1>2, <1>3, <1>4, <1>5, <1>6, <1>7, <1>8 DEF Next, Sleep

-----------------------------------------------------------------------------
(* Steps that begin no handler and no run of one. *)
LEMMA NotifiedFrame ==
    ASSUME Inv, subscribed \subseteq subscribed', UNCHANGED id,
           \A h \in Handlers : \/ pc'[h] = pc[h]
                               \/ pc'[h] \in {"idle", "done", "template"} /\ Handling(h)
                               \/ pc'[h] \in {"submit", "read"} /\ Running(h)
    PROVE  Notified'
BY DEF Inv, Notified, Handling, Running

LEMMA NotifiedStep ==
    ASSUME Inv, [Next]_vars
    PROVE  Notified'
<1>0. Types /\ Notified
  BY DEF Inv
<1>1. CASE UNCHANGED vars
  BY <1>1, NotifiedFrame DEF vars, mapVars, handlerVars
<1>2. CASE Connect \/ InsertBegin \/ InsertEnd \/ Bind \/ SubscribePost
  <2>1. subscribed \subseteq subscribed' /\ UNCHANGED id /\ \A h \in Handlers : pc'[h] = pc[h]
    BY <1>0, <1>2, MainEffect, ThreadFacts DEF handlerVars
  <2> QED BY <2>1, NotifiedFrame
<1>3. CASE SubscribePre
  <2>1. subscribed \subseteq subscribed' /\ UNCHANGED id /\ Registered("pre")
    BY <1>3 DEF SubscribePre, Subscribe, handlerVars
  <2>2. \A h \in Handlers : pc'[h] = pc[h]
    BY <1>0, <2>1, RegisteredEffect, ThreadFacts
  <2> QED BY <2>1, <2>2, NotifiedFrame
<1>4. CASE StartInit
  <2>1. Begin(Main) /\ UNCHANGED <<subscribed, id>> /\ Main \in Threads
    BY <1>0, <1>4, ThreadFacts DEF StartInit, mapVars, handlerVars
  <2>2. \A h \in Handlers : pc'[h] = pc[h]
    BY <1>0, <2>1, BeginEffect, ThreadFacts
  <2> QED BY <2>1, <2>2, NotifiedFrame
<1>5. ASSUME NEW r \in Threads, Truncate(r) \/ Submit(r) PROVE Notified'
  <2>1. UNCHANGED <<subscribed, id>>
    BY <1>5 DEF Truncate, Submit, mapVars, handlerVars
  <2>2. \A q \in Threads \ {r} : pc'[q] = pc[q]
    BY <1>0, <1>5, StepEffect
  <2>3. pc'[r] \in {"submit", "read"} /\ Running(r)
    BY <1>0, <1>5, StepEffect DEF Truncate, Submit, Running
  <2>4. \A h \in Handlers : h \in Threads
    BY <1>0, ThreadFacts
  <2> QED BY <2>1, <2>2, <2>3, <2>4, NotifiedFrame
<1>6. ASSUME NEW r \in Threads, Read(r) PROVE Notified'
  <2>1. UNCHANGED <<subscribed, id>> /\ Handling(r)
    BY <1>0, <1>6, ReadEffect DEF handlerVars, Handling
  <2>2. \A h \in Handlers : pc'[h] = pc[h] \/ (h = r /\ pc'[h] \in {"idle", "done"})
    <3>1. \A h \in Handlers : h \in Threads /\ h # Main
      BY <1>0, ThreadFacts
    <3>2. CASE Throw(r)
      BY <1>0, <3>1, <3>2, ThrowEffect
    <3>3. CASE Registered("read")
      BY <1>0, <3>1, <3>3, RegisteredEffect
    <3>4. CASE pc'[r] = "done" /\ \A q \in Threads \ {r} : pc'[q] = pc[q]
      BY <3>1, <3>4
    <3> QED BY <1>0, <1>6, <3>2, <3>3, <3>4, ReadEffect
  <2> QED BY <2>1, <2>2, NotifiedFrame
<1>7. ASSUME NEW h \in Handlers, FindTrigger(h) \/ Count(h) PROVE Notified'
  <2>1. h \in Threads /\ \A g \in Handlers : g \in Threads
    BY <1>0, ThreadFacts
  <2>2. UNCHANGED subscribed /\ \A g \in Handlers \ {h} : pc'[g] = pc[g]
    BY <1>0, <1>7, <2>1, StepEffect
  <2>3. CASE FindTrigger(h)
    <3>1. pc[h] = "trigger" /\ pc'[h] = "template" /\ UNCHANGED id
      BY <1>0, <2>1, <2>3, Moved DEF FindTrigger, handlerVars, Labels
    <3> QED BY <2>2, <3>1, NotifiedFrame DEF Handling
  <2>4. CASE Count(h)
    <3>1. pc'[h] = "idle" /\ \A g \in Handlers \ {h} : id'[g] = id[g]
      BY <1>0, <2>1, <2>4, Moved DEF Count, Labels, Types
    <3> QED BY <1>0, <2>2, <3>1 DEF Notified, Handling, Running
  <2> QED BY <1>7, <2>3, <2>4
<1>8. ASSUME NEW h \in Handlers, Notify(h) PROVE Notified'
  <2>1. h \in Threads /\ \A g \in Handlers : g \in Threads
    BY <1>0, ThreadFacts
  <2>2. UNCHANGED subscribed /\ \A g \in Handlers \ {h} : pc'[g] = pc[g]
    BY <1>0, <1>8, <2>1, StepEffect
  <2>3. /\ pc'[h] = "trigger" /\ id'[h] \in subscribed
        /\ \A g \in Handlers \ {h} : id'[g] = id[g]
    BY <1>0, <1>8, <2>1, Moved DEF Notify, Labels, Types
  <2> QED BY <1>0, <2>2, <2>3 DEF Notified, Handling, Running
<1>9. ASSUME NEW h \in Handlers, FindTemplate(h) PROVE Notified'
  <2>1. h \in Threads /\ \A g \in Handlers : g \in Threads /\ g # Main
    BY <1>0, ThreadFacts
  <2>2. UNCHANGED <<subscribed, id>> /\ pc[h] = "template"
    BY <1>0, <1>9, TemplateEffect
  <2>3. \A g \in Handlers \ {h} : pc'[g] = pc[g]
    BY <1>0, <1>9, <2>1, TemplateEffect, BeginEffect
  <2>4. \/ pc'[h] \in {"done", "template"}
        \/ pc'[h] = "truncate" /\ id[h] = Pre(id[h][1])
    BY <1>0, <1>9, <2>1, TemplateEffect, BeginEffect
  <2> QED BY <1>0, <2>2, <2>3, <2>4 DEF Notified, Handling, Running
<1> QED BY <1>1, <1>2, <1>3, <1>4, <1>5, <1>6, <1>7, <1>8, <1>9 DEF Next, Sleep


-----------------------------------------------------------------------------
(* The task of a thread depends on what it works for. *)
LEMMA SameTask ==
    ASSUME NEW r, r = Main => next' = next, r # Main => id'[r] = id[r]
    PROVE  TaskOf(r)' = TaskOf(r)
BY DEF TaskOf, Bundle

(* Steps outside of the runs, or at their end. *)
LEMMA RunsFrame ==
    ASSUME Inv, file' = file, jobsOf' = jobsOf, failed' = failed, mixed' = mixed,
           \A r \in Threads : Running(r)' => pc'[r] = pc[r] /\ TaskOf(r)' = TaskOf(r)
    PROVE  RunsApart'
<1>1. \A r \in Threads : Running(r)' => Running(r)
  BY DEF Running
<1> QED BY <1>1 DEF Inv, RunsApart

(* A run begins beside the ones that are there. *)
LEMMA RunsBegin ==
    ASSUME Inv, NEW r \in Threads, Begin(r), UNCHANGED <<next, id>>
    PROVE  RunsApart'
<1>1. /\ pc'[r] = "truncate"
      /\ \A q \in Threads \ {r} : pc'[q] = pc[q]
      /\ UNCHANGED <<file, jobsOf>>
      /\ \A q \in Threads \ {r} : q \in failed => q \in failed'
      /\ mixed \subseteq mixed'
      /\ \A q \in Threads \ {r} : Running(q) => TaskOf(q) \in mixed' /\ TaskOf(r) \in mixed'
  BY BeginEffect DEF Inv
<1>2. \A q \in Threads : TaskOf(q)' = TaskOf(q)
  BY SameTask
<1>3. \A q \in Threads \ {r} : Running(q)' = Running(q)
  BY <1>1 DEF Running
<1>4. \A p, q \in Threads : p # q /\ Running(p)' /\ Running(q)' => TaskOf(q) \in mixed'
  <2> SUFFICES ASSUME NEW p \in Threads, NEW q \in Threads, p # q, Running(p)', Running(q)'
               PROVE  TaskOf(q) \in mixed'
    OBVIOUS
  <2>1. CASE q = r
    BY <1>1, <1>3, <2>1
  <2>2. CASE p = r
    BY <1>1, <1>3, <2>2
  <2>3. CASE p # r /\ q # r
    BY <1>1, <1>3, <2>3 DEF Inv, RunsApart
  <2> QED BY <2>1, <2>2, <2>3
<1>5. ASSUME NEW q \in Threads, Running(q)', TaskOf(q) \notin mixed'
      PROVE  /\ pc'[q] = "submit" => file' = Empty
             /\ pc'[q] = "read" => file' \in {Empty} \cup jobsOf'[TaskOf(q)]
             /\ pc'[q] = "read" /\ q \notin failed' => file' # Empty
  <2>1. CASE q = r
    BY <1>1, <2>1
  <2>2. CASE q # r
    <3>1. Running(q) /\ TaskOf(q) \notin mixed
      BY <1>1, <1>3, <1>5, <2>2
    <3> QED BY <1>1, <2>2, <3>1 DEF Inv, RunsApart
  <2> QED BY <2>1, <2>2
<1> QED BY <1>2, <1>4, <1>5 DEF RunsApart

(* A thread works in the file: a run that met no other one is its own. *)
LEMMA RunsWork ==
    ASSUME Inv, NEW r \in Threads, Truncate(r) \/ Submit(r)
    PROVE  RunsApart'
<1>0. Types /\ RunsApart
  BY DEF Inv
<1>1. /\ \A q \in Threads \ {r} : pc'[q] = pc[q]
      /\ pc[r] \in {"truncate", "submit"} /\ pc'[r] \in {"submit", "read"}
  BY <1>0, StepEffect DEF Truncate, Submit
<1>2. UNCHANGED <<next, id, mixed>>
  BY DEF Truncate, Submit, handlerVars
<1>3. \A q \in Threads : TaskOf(q)' = TaskOf(q) /\ (Running(q)' <=> Running(q))
  <2>1. \A q \in Threads : TaskOf(q)' = TaskOf(q)
    BY <1>2, SameTask
  <2>2. \A q \in Threads : Running(q)' <=> Running(q)
    BY <1>1 DEF Running
  <2> QED BY <2>1, <2>2
<1>4. Running(r)
  BY <1>1 DEF Running
<1>5. \A q \in Threads \ {r} : Running(q) => TaskOf(q) \in mixed
  BY <1>0, <1>4 DEF RunsApart
<1>6. ASSUME TaskOf(r) \notin mixed
      PROVE  /\ pc'[r] = "submit" => file' = Empty
             /\ pc'[r] = "read" => file' \in {Empty} \cup jobsOf'[TaskOf(r)]
             /\ pc'[r] = "read" /\ r \notin failed' => file' # Empty
  <2>1. CASE Truncate(r)
    <3>1. file' = Empty /\ pc'[r] = "submit"
      BY <1>0, <2>1, StepEffect DEF Truncate
    <3> QED BY <3>1
  <2>2. CASE Submit(r)
    <3>1. pc[r] = "submit" /\ pc'[r] = "read"
      BY <1>0, <1>1, <2>2, StepEffect DEF Submit
    <3>2. file = Empty
      BY <1>0, <1>4, <1>6, <3>1 DEF RunsApart
    <3>3. TaskOf(r) \in Tasks
      <4>1. CASE r = Main
        BY <1>0, <4>1, ThreadFacts DEF TaskOf
      <4>2. CASE r # Main
        <5>1. r \in Handlers /\ Handling(r)
          BY <1>0, <3>1, <4>2, ThreadFacts DEF Handling
        <5> QED BY <4>2, <5>1, HandlerTask DEF TaskOf
      <4> QED BY <4>1, <4>2
    <3>4. CASE file' = nextJob /\ jobsOf' = [jobsOf EXCEPT ![TaskOf(r)] = @ \cup {nextJob}]
      <4>1. nextJob \in jobsOf'[TaskOf(r)]
        BY <1>0, <3>3, <3>4 DEF Types
      <4>2. nextJob # Empty
        BY <1>0 DEF Types, Empty
      <4> QED BY <3>1, <3>4, <4>1, <4>2
    <3>5. CASE failed' = failed \cup {r} /\ UNCHANGED file
      BY <3>1, <3>2, <3>5
    <3> QED BY <2>2, <3>4, <3>5 DEF Submit
  <2> QED BY <2>1, <2>2
<1>7. \A q \in Threads : Running(q)' /\ TaskOf(q)' \notin mixed' => q = r
  BY <1>2, <1>3, <1>5
<1>8. \A p, q \in Threads : p # q /\ Running(p)' /\ Running(q)' => TaskOf(q)' \in mixed'
  BY <1>0, <1>2, <1>3 DEF RunsApart
<1>9. \A q \in Threads : Running(q)' /\ TaskOf(q)' \notin mixed' =>
         /\ pc'[q] = "submit" => file' = Empty
         /\ pc'[q] = "read" => file' \in {Empty} \cup jobsOf'[TaskOf(q)']
         /\ pc'[q] = "read" /\ q \notin failed' => file' # Empty
  BY <1>2, <1>3, <1>6, <1>7
<1> QED BY <1>8, <1>9 DEF RunsApart

LEMMA RunsStep ==
    ASSUME Inv, [Next]_vars
    PROVE  RunsApart'
<1>0. Types /\ RunsApart /\ Main \in Threads /\ \A h \in Handlers : h \in Threads /\ h # Main
  BY ThreadFacts DEF Inv
<1>1. CASE UNCHANGED vars
  <2>1. UNCHANGED <<file, jobsOf, failed, mixed, pc, next, id>>
    BY <1>1 DEF vars, mapVars, slurmVars, handlerVars
  <2>2. \A r \in Threads : TaskOf(r)' = TaskOf(r)
    BY <2>1, SameTask
  <2> QED BY <2>1, <2>2, RunsFrame
<1>2. CASE Connect \/ InsertBegin \/ InsertEnd \/ Bind \/ SubscribePost
  <2>1. /\ UNCHANGED <<next, slurmVars, handlerVars>> /\ \A q \in Threads \ {Main} : pc'[q] = pc[q]
        /\ pc'[Main] \in {"exit", "insert", "inserting", "bind", "post", "pre"}
    BY <1>0, <1>2, MainEffect
  <2>2. UNCHANGED <<file, jobsOf, failed, mixed, next, id>>
    BY <2>1 DEF slurmVars, handlerVars
  <2>3. \A r \in Threads : TaskOf(r)' = TaskOf(r)
    BY <2>2, SameTask
  <2>4. \A r \in Threads : Running(r)' => pc'[r] = pc[r]
    BY <2>1 DEF Running
  <2> QED BY <2>2, <2>3, <2>4, RunsFrame
<1>3. CASE SubscribePre
  <2>1. Registered("pre") /\ UNCHANGED <<slurmVars, handlerVars>>
    BY <1>3 DEF SubscribePre
  <2>2. UNCHANGED <<file, jobsOf, failed, mixed, id>>
    BY <2>1 DEF slurmVars, handlerVars
  <2>3. pc'[Main] \in {"insert", "loop"} /\ \A q \in Threads \ {Main} : pc'[q] = pc[q]
    BY <1>0, <2>1, RegisteredEffect
  <2>4. \A r \in Threads \ {Main} : TaskOf(r)' = TaskOf(r)
    BY <2>2, SameTask
  <2>5. \A r \in Threads : Running(r)' => r # Main
    BY <2>3 DEF Running
  <2> QED BY <2>2, <2>3, <2>4, <2>5, RunsFrame
<1>4. CASE StartInit
  <2>1. Begin(Main) /\ UNCHANGED <<next, id>>
    BY <1>4 DEF StartInit, handlerVars
  <2> QED BY <1>0, <2>1, RunsBegin
<1>5. ASSUME NEW r \in Threads, Truncate(r) \/ Submit(r) PROVE RunsApart'
  BY <1>5, RunsWork
<1>6. ASSUME NEW r \in Threads, Read(r) PROVE RunsApart'
  <2>1. UNCHANGED <<file, jobsOf, failed, mixed, id>>
    BY <1>0, <1>6, ReadEffect DEF slurmVars, handlerVars
  <2>2. ASSUME NEW q \in Threads, Running(q)' PROVE pc'[q] = pc[q] /\ (q = Main => next' = next)
    <3>1. CASE Throw(r) /\ UNCHANGED next
      BY <1>0, <2>2, <3>1, ThrowEffect DEF Running
    <3>2. CASE r = Main /\ Registered("read")
      BY <1>0, <2>2, <3>2, RegisteredEffect DEF Running
    <3>3. CASE UNCHANGED next /\ pc'[r] = "done" /\ \A p \in Threads \ {r} : pc'[p] = pc[p]
      BY <2>2, <3>3 DEF Running
    <3> QED BY <1>0, <1>6, <3>1, <3>2, <3>3, ReadEffect
  <2>3. \A q \in Threads : Running(q)' => TaskOf(q)' = TaskOf(q)
    BY <2>1, <2>2, SameTask
  <2> QED BY <2>1, <2>2, <2>3, RunsFrame
<1>7. ASSUME NEW h \in Handlers, Notify(h) \/ FindTrigger(h) \/ Count(h) PROVE RunsApart'
  <2>1. UNCHANGED <<file, jobsOf, failed, mixed, next>>
    BY <1>7 DEF Notify, FindTrigger, Count, slurmVars
  <2>2. \A q \in Threads \ {h} : pc'[q] = pc[q]
    BY <1>0, <1>7, StepEffect
  <2>3. pc'[h] \in {"trigger", "template", "idle"}
    BY <1>0, <1>7, Moved DEF Notify, FindTrigger, Count, Labels
  <2>4. \A q \in Handlers \ {h} : id'[q] = id[q]
    BY <1>0, <1>7 DEF Notify, FindTrigger, Count, handlerVars, Types
  <2>5. \A q \in Threads : Running(q)' => q # h
    BY <2>3 DEF Running
  <2>6. \A q \in Threads \ {h} : TaskOf(q)' = TaskOf(q)
    BY <1>0, <2>1, <2>4, SameTask, ThreadFacts
  <2> QED BY <2>1, <2>2, <2>5, <2>6, RunsFrame
<1>8. ASSUME NEW h \in Handlers, FindTemplate(h) PROVE RunsApart'
  <2>1. UNCHANGED <<next, id>>
    BY <1>0, <1>8, TemplateEffect
  <2>2. \A q \in Threads : TaskOf(q)' = TaskOf(q)
    BY <2>1, SameTask
  <2>3. CASE Begin(h)
    BY <1>0, <2>1, <2>3, RunsBegin
  <2>4. CASE /\ pc'[h] = "done" /\ UNCHANGED <<file, nextJob, jobsOf, failed, mixed>>
             /\ \A q \in Threads \ {h} : pc'[q] = pc[q]
    <3>1. \A q \in Threads : Running(q)' => pc'[q] = pc[q]
      BY <2>4 DEF Running
    <3> QED BY <2>2, <2>4, <3>1, RunsFrame
  <2>5. CASE /\ pc'[Main] = "crashed" /\ UNCHANGED <<file, nextJob, jobsOf, failed, mixed>>
             /\ \A q \in Threads \ {Main} : pc'[q] = pc[q]
    <3>1. \A q \in Threads : Running(q)' => pc'[q] = pc[q]
      BY <2>5 DEF Running
    <3> QED BY <2>2, <2>5, <3>1, RunsFrame
  <2> QED BY <1>0, <1>8, <2>3, <2>4, <2>5, TemplateEffect
<1> QED BY <1>1, <1>2, <1>3, <1>4, <1>5, <1>6, <1>7, <1>8 DEF Next, Sleep


-----------------------------------------------------------------------------
LEMMA InvInit == Init => Inv
<1> SUFFICES ASSUME Init PROVE Inv
  OBVIOUS
<1>1. Len(Bundles) \in Nat \ {0} /\ DOMAIN Bundles = 1 .. Len(Bundles) /\ FirstJob \in Nat \ {0} /\ Main \notin Handlers
  BY OperatorAssumption
<1>2. pc \in [Threads -> Labels] /\ pc[Main] = "start" /\ \A h \in Handlers : pc[h] = "idle"
  BY <1>1 DEF Init, Threads, Labels
<1>3. Types
  BY <1>1, <1>2 DEF Init, Types
<1>4. Registration
  BY <1>2 DEF Init, Registration
<1>5. Notified
  BY <1>2 DEF Notified, Handling, Running
<1>6. \A r \in Threads : ~ Running(r)
  BY <1>2 DEF Running, Threads
<1> QED BY <1>3, <1>4, <1>5, <1>6 DEF Inv, RunsApart

LEMMA InvStep == Inv /\ [Next]_vars => Inv'
BY TypesStep, RegistrationStep, NotifiedStep, RunsStep DEF Inv

(* However early a notification comes in, for any bundles and threads: its *)
(* id is bound and its task registered (operator.cc binds both ids before  *)
(* it subscribes, "sub post tg firstly then sub pre tg"), and no task runs *)
(* while its own post trigger still is to be subscribed.                   *)
THEOREM BoundBeforeNotified == Spec => []TriggersReady
<1>1. Inv => TriggersReady
  <2> SUFFICES ASSUME Inv, NEW h \in Handlers
               PROVE  /\ pc[h] = "trigger" => id[h] \in submap /\ id[h][1] \in bmap
                      /\ Running(h) => ~ (pc[Main] \in {"bind", "post"} /\ Bundle.task = id[h][1])
    BY DEF TriggersReady
  <2>1. pc[h] = "trigger" => id[h] \in submap /\ id[h][1] \in bmap
    BY DEF Inv, Notified, Handling, Registration
  <2>2. ASSUME Running(h), pc[Main] \in {"bind", "post"}, Bundle.task = id[h][1] PROVE FALSE
    <3>1. id[h] \in subscribed /\ id[h] = Pre(id[h][1])
      BY <2>2 DEF Inv, Notified, Handling, Running
    <3>2. Pre(Bundles[next].task) \in subscribed /\ next \in DOMAIN Bundles /\ next \in Nat
      BY <2>2, <3>1, OperatorAssumption DEF Bundle, Inv, Types
    <3>3. next < next
      BY <2>2, <3>2 DEF Inv, Registration
    <3> QED BY <3>2, <3>3
  <2> QED BY <2>1, <2>2
<1> QED BY <1>1, InvInit, InvStep, PTL DEF Spec

(* The jobs of a task and the tasks whose runs met only grow. *)
LEMMA HistoryGrows ==
    ASSUME Inv, [Next]_vars
    PROVE  /\ mixed \subseteq mixed' /\ \A t \in Tasks : jobsOf[t] \subseteq jobsOf'[t]
           /\ \/ UNCHANGED taskRunningID
              \/ /\ Read(Main) /\ file # Empty /\ Running(Main) /\ pc[Main] = "read"
                 /\ UNCHANGED <<jobsOf, mixed>>
                 /\ taskRunningID' = [taskRunningID EXCEPT ![Bundle.task] = Digits(file)]
<1>0. Types /\ Main \in Threads /\ \A h \in Handlers : h \in Threads
  BY ThreadFacts DEF Inv
<1>1. CASE UNCHANGED vars
  BY <1>1 DEF vars, mapVars, slurmVars
<1>2. CASE Connect \/ InsertBegin \/ InsertEnd \/ Bind \/ SubscribePost
  BY <1>0, <1>2, MainEffect DEF slurmVars
<1>3. CASE SubscribePre
  BY <1>3 DEF SubscribePre, slurmVars
<1>4. CASE StartInit
  <2>1. Begin(Main) /\ UNCHANGED taskRunningID
    BY <1>4 DEF StartInit, mapVars
  <2> QED BY <1>0, <2>1, BeginEffect
<1>5. ASSUME NEW r \in Threads, Truncate(r) \/ Submit(r)
      PROVE  UNCHANGED taskRunningID /\ mixed \subseteq mixed' /\ \A t \in Tasks : jobsOf[t] \subseteq jobsOf'[t]
  BY <1>0, <1>5 DEF Truncate, Submit, mapVars, Types
<1>6. ASSUME NEW r \in Threads, Read(r)
      PROVE  /\ UNCHANGED <<jobsOf, mixed>>
             /\ \/ UNCHANGED taskRunningID
                \/ /\ Read(Main) /\ file # Empty /\ Running(Main) /\ pc[Main] = "read"
                   /\ taskRunningID' = [taskRunningID EXCEPT ![Bundle.task] = Digits(file)]
  BY <1>0, <1>6, ReadEffect DEF slurmVars, Running
<1>7. ASSUME NEW h \in Handlers, Notify(h) \/ FindTrigger(h) \/ Count(h)
      PROVE  UNCHANGED <<taskRunningID, jobsOf, mixed>>
  BY <1>7 DEF Notify, FindTrigger, Count, slurmVars, mapVars
<1>8. ASSUME NEW h \in Handlers, FindTemplate(h)
      PROVE  UNCHANGED <<taskRunningID, jobsOf>> /\ mixed \subseteq mixed'
  BY <1>0, <1>8, TemplateEffect, BeginEffect
<1> QED BY <1>1, <1>2, <1>3, <1>4, <1>5, <1>6, <1>7, <1>8 DEF Next, Sleep

(* The id that operator.cc keeps for a task, and that stopTaskBySlurm      *)
(* would cancel, is the one of a job of this task, for any bundles and     *)
(* threads, unless its run met another one in syscommand.txt.              *)
THEOREM OwnJobIsKept == Spec => []JobIdOwn
<1>1. Init => JobIdOwn
  BY DEF Init, JobIdOwn
<1>2. Inv /\ JobIdOwn /\ [Next]_vars => JobIdOwn'
  <2> SUFFICES ASSUME Inv, JobIdOwn, [Next]_vars, NEW t \in Tasks, t \notin mixed'
               PROVE  taskRunningID'[t] \in {None} \cup {Digits(n) : n \in jobsOf'[t]}
    BY DEF JobIdOwn
  <2>1. mixed \subseteq mixed' /\ jobsOf[t] \subseteq jobsOf'[t]
    BY HistoryGrows
  <2>2. taskRunningID[t] \in {None} \cup {Digits(n) : n \in jobsOf[t]}
    BY <2>1 DEF JobIdOwn
  <2>3. CASE taskRunningID'[t] = taskRunningID[t]
    BY <2>1, <2>2, <2>3
  <2>4. CASE /\ file # Empty /\ Running(Main) /\ pc[Main] = "read"
             /\ taskRunningID' = [taskRunningID EXCEPT ![Bundle.task] = Digits(file)]
             /\ t = Bundle.task
    <3>1. TaskOf(Main) = t /\ t \notin mixed /\ Main \in Threads
      BY <2>1, <2>4, ThreadFacts DEF TaskOf, Inv
    <3>2. file \in jobsOf[t]
      BY <2>4, <3>1 DEF Inv, RunsApart
    <3>3. taskRunningID'[t] = Digits(file)
      BY <2>4 DEF Inv, Types
    <3> QED BY <2>1, <3>2, <3>3
  <2> QED BY <2>3, <2>4, HistoryGrows DEF Inv, Types
<1> QED BY <1>1, <1>2, InvInit, InvStep, PTL DEF Spec

(* The operator process dies only by a submission that failed, by runs     *)
(* that met in syscommand.txt, or by a notification during the insertion   *)
(* into bmap that takes no mutex, for any bundles and threads.             *)
THEOREM DeathHasACause == Spec => []NoCrashAlone
<1>1. Init => NoCrashAlone
  <2>1. Init => pc[Main] = "start"
    BY DEF Init, Threads
  <2> QED BY <2>1 DEF NoCrashAlone
<1>2. Inv /\ NoCrashAlone /\ [Next]_vars => NoCrashAlone'
  <2> SUFFICES ASSUME Inv, NoCrashAlone, [Next]_vars, pc'[Main] = "crashed"
               PROVE  NoCrashAlone'
    BY DEF NoCrashAlone
  <2>0. Types /\ Main \in Threads /\ \A h \in Handlers : h \in Threads /\ h # Main
    BY ThreadFacts DEF Inv
  <2>1. CASE UNCHANGED vars
    <3>1. UNCHANGED <<pc, failed, mixed, next, id>>
      BY <2>1 DEF vars, slurmVars, handlerVars
    <3>2. \A r : TaskOf(r)' = TaskOf(r)
      BY <3>1 DEF TaskOf, Bundle
    <3> QED BY <3>1, <3>2 DEF NoCrashAlone
  <2>2. CASE Connect \/ InsertBegin \/ InsertEnd \/ Bind \/ SubscribePost
    BY <2>0, <2>2, MainEffect
  <2>3. CASE SubscribePre
    BY <2>0, <2>3, RegisteredEffect DEF SubscribePre
  <2>4. CASE StartInit
    BY <2>0, <2>4, BeginEffect DEF StartInit
  <2>5. ASSUME NEW r \in Threads,
               \/ Truncate(r) \/ Submit(r)
               \/ r \in Handlers /\ (Notify(r) \/ FindTrigger(r) \/ Count(r))
        PROVE  FALSE
    <3>1. /\ \A q \in Threads \ {r} : pc'[q] = pc[q]
          /\ pc'[r] # "crashed" /\ Alive
      BY <2>0, <2>5, StepEffect
    <3> QED BY <2>0, <3>1 DEF Alive
  <2>6. ASSUME NEW r \in Threads, Read(r) PROVE NoCrashAlone'
    <3>1. pc[r] = "read" /\ pc[Main] # "crashed" /\ UNCHANGED <<failed, mixed, id>>
      BY <2>0, <2>6, ReadEffect DEF Alive, slurmVars, handlerVars
    <3>2. file = Empty /\ Throw(r) /\ UNCHANGED next
      BY <2>0, <2>6, <3>1, ReadEffect, RegisteredEffect
    <3>3. r \in failed \/ TaskOf(r) \in mixed
      BY <3>1, <3>2 DEF Inv, RunsApart, Running
    <3>4. TaskOf(r)' = TaskOf(r)
      BY <3>1, <3>2, SameTask
    <3>5. pc'[r] \in {"read", "crashed"}
      BY <2>0, <3>1, <3>2, ThrowEffect
    <3> QED BY <3>1, <3>3, <3>4, <3>5 DEF NoCrashAlone
  <2>7. ASSUME NEW h \in Handlers, FindTemplate(h) PROVE NoCrashAlone'
    <3>1. pc[h] = "template" /\ pc[Main] # "crashed"
      BY <2>0, <2>7, TemplateEffect DEF Alive
    <3>2. \A q \in Threads \ {Main} : pc'[q] = pc[q]
      BY <2>0, <2>7, <3>1, TemplateEffect, BeginEffect
    <3> QED BY <2>0, <3>1, <3>2 DEF NoCrashAlone
  <2>8. ASSUME NEW h \in Handlers, Notify(h) \/ FindTrigger(h) \/ Count(h) PROVE FALSE
    BY <2>0, <2>5, <2>8
  <2> QED BY <2>1, <2>2, <2>3, <2>4, <2>5, <2>6, <2>7, <2>8 DEF Next, Sleep
<1> QED BY <1>1, <1>2, InvInit, InvStep, PTL DEF Spec
=============================================================================
