--------------------------- MODULE WorkflowProofs ---------------------------
(***************************************************************************)
(* For every number of steps and every graph, with any number of crashes:  *)
(* what the coordinator and the dispatcher write about a workflow is what  *)
(* WorkflowLifecycle promises, what clients read of it is what its log     *)
(* says, and the graphs accepted are the ones that can be executed.        *)
(*                                                                         *)
(* A handler's emits are a script of which a crash may lose the end, so    *)
(* the invariant says, for every script that can be left to perform, what  *)
(* the log and the coordinator's memory are: the memory is the log as it   *)
(* will be once the script is performed.                                   *)
(***************************************************************************)
EXTENDS WorkflowApi, SequenceTheorems, FiniteSetTheorems, WellFoundedInduction, TLAPS

-----------------------------------------------------------------------------
(* What the log says, whatever the coordinator does.                       *)

LogTypes ==
  /\ started \in [Steps -> {"no", "started", "started unprovisioned"}]
  /\ completed \subseteq Steps /\ failed \subseteq Steps
  /\ outcome \in {"none", "completed", "failed"}
  /\ task \in [Steps -> {"absent", "queued", "dispatched", "completed", "failed", "cancelled"}]

StartedInLog == {s \in Steps : started[s] # "no"}
LinkedInLog == {s \in Steps : started[s] = "started"}

LogInv ==
  /\ \A s \in Steps : started[s] # "started" => task[s] = "absent"
  /\ \A s \in completed : started[s] = "started" /\ task[s] = "completed"
  /\ \A s \in failed : started[s] # "no" /\ task[s] \in {"absent", "failed"}
  /\ \A s, r \in Steps : task[s] = "dispatched" /\ task[r] = "dispatched" => s = r

(* Before the workflow is created nothing happens to it.                   *)
CreatedInv ==
  ~created => /\ \A s \in Steps : started[s] = "no"
              /\ pc \in {"down", "idle"} /\ busq = <<>> /\ script = <<>>

(* Ends of tasks that the subscription tells of, or that a replay has      *)
(* found, are those in the log.                                            *)
Tells(e) ==
  /\ e.type = "task.completed" => e.step \in Steps /\ task[e.step] = "completed"
  /\ e.type = "task.failed" => e.step \in Steps /\ task[e.step] = "failed"

NewsInv ==
  /\ \A i \in 1 .. Len(busq) : Tells(busq[i])
  /\ \A s \in Steps : memory.ended[s] # "none" => task[s] = memory.ended[s]

(* The coordinator remembers what the log says and what its script is      *)
(* still to add: a start (st), a link (li), the ends of steps (co, fa) and *)
(* the end of the workflow (te).                                           *)
Synced(st, li, co, fa, te) ==
  /\ memory.started = StartedInLog \cup st
  /\ memory.linked = LinkedInLog \cup li
  /\ memory.completed = completed \cup co
  /\ memory.failed = failed \cup fa
  /\ memory.terminal <=> (outcome # "none" \/ te)

(* Only a crash separates a step's failure from the workflow's.            *)
Calm == failed # {} => crashes > 0 \/ outcome # "none"

(* What is left to perform, and what holds before it is.                   *)
Fresh(s) ==
  /\ outcome = "none"
  /\ started[s] = "no" /\ task[s] = "absent"
  /\ deps[s] \subseteq completed
  /\ Calm

Open(s) == started[s] # "no" /\ s \notin completed \cup failed

ToStart(s) ==
  /\ script = <<Event("started", s), Event("task.queued", s)>>
  /\ Fresh(s)
  /\ Synced({s}, {s}, {}, {}, FALSE)

ToQueue(s) ==
  /\ script = <<Event("task.queued", s)>>
  /\ Open(s) /\ started[s] = "started" /\ task[s] = "absent" /\ outcome = "none"
  /\ Calm
  /\ Synced({}, {}, {}, {}, FALSE)

ToRefuse(s) ==
  /\ script = <<Event("started", s), Event("task.failed", s),
                Event("step.failed", s), Event("workflow.failed", s)>>
  /\ Fresh(s)
  /\ Synced({s}, {s}, {}, {s}, TRUE)

ToFailTask(s) ==
  /\ script = <<Event("task.failed", s), Event("step.failed", s), Event("workflow.failed", s)>>
  /\ Open(s) /\ started[s] = "started" /\ task[s] = "absent" /\ outcome = "none"
  /\ Synced({}, {}, {}, {s}, TRUE)

ToGiveUp(s) ==
  /\ script = <<Event("started unprovisioned", s), Event("step.failed", s),
                Event("workflow.failed", s)>>
  /\ Fresh(s)
  /\ Synced({s}, {}, {}, {s}, TRUE)

ToFailBoth(s) ==
  /\ script = <<Event("step.failed", s), Event("workflow.failed", s)>>
  /\ Open(s) /\ task[s] \in {"absent", "failed"} /\ outcome = "none"
  /\ Synced({}, {}, {}, {s}, TRUE)

ToFailStep(s) ==
  /\ script = <<Event("step.failed", s)>>
  /\ Open(s) /\ task[s] \in {"absent", "failed"} /\ outcome # "none"
  /\ Synced({}, {}, {}, {s}, TRUE)

ToFailWorkflow(s) ==
  /\ script = <<Event("workflow.failed", s)>>
  /\ s \in failed /\ outcome = "none"
  /\ Synced({}, {}, {}, {}, TRUE)

ToComplete(s) ==
  /\ script = <<Event("step.completed", s)>>
  /\ Open(s) /\ started[s] = "started" /\ task[s] = "completed"
  /\ Calm
  /\ Synced({}, {}, {s}, {}, FALSE)

ToEnd ==
  /\ script = <<Event("workflow.completed", NoStep)>>
  /\ completed = Steps /\ outcome = "none"
  /\ Synced({}, {}, {}, {}, TRUE)

ToDoNothing ==
  /\ script = <<>>
  /\ pc # "down" => Synced({}, {}, {}, {}, FALSE)

ScriptInv ==
  \/ ToDoNothing
  \/ /\ pc # "down"
     /\ \/ \E s \in Steps :
             \/ ToStart(s) \/ ToQueue(s)
             \/ ToRefuse(s) \/ ToFailTask(s) \/ ToGiveUp(s)
             \/ ToFailBoth(s) \/ ToFailStep(s) \/ ToFailWorkflow(s)
             \/ ToComplete(s)
        \/ ToEnd

(* Where the process is.                                                   *)
ProcessInv ==
  /\ pc = "down" => crashes > 0 /\ busq = <<>>
  /\ script = <<>> => Calm

Inv == TypeOK /\ LogInv /\ CreatedInv /\ NewsInv /\ ScriptInv /\ ProcessInv

-----------------------------------------------------------------------------
(* The log after one event.                                                *)

LEMMA Types == TypeOK => LogTypes
  BY DEF TypeOK, LogTypes

LEMMA LogStart ==
  ASSUME LogTypes, LogInv, NEW s \in Steps, NEW x \in {"started", "started unprovisioned"},
         started[s] = "no", started' = [started EXCEPT ![s] = x],
         completed' = completed, failed' = failed, outcome' = outcome, task' = task
  PROVE  /\ LogTypes' /\ LogInv'
         /\ StartedInLog' = StartedInLog \cup {s}
         /\ x = "started" => LinkedInLog' = LinkedInLog \cup {s}
         /\ x # "started" => LinkedInLog' = LinkedInLog
<1>1. LogTypes'
  BY DEF LogTypes
<1>2. LogInv'
  BY DEF LogTypes, LogInv
<1>3. StartedInLog' = StartedInLog \cup {s}
  BY DEF LogTypes, StartedInLog
<1>4. x = "started" => LinkedInLog' = LinkedInLog \cup {s}
  BY DEF LogTypes, LinkedInLog
<1>5. x # "started" => LinkedInLog' = LinkedInLog
  BY DEF LogTypes, LinkedInLog
<1>. QED  BY <1>1, <1>2, <1>3, <1>4, <1>5

LEMMA LogTask ==
  ASSUME LogTypes, LogInv, NEW s \in Steps, NEW x \in {"queued", "failed"},
         Open(s), started[s] = "started", task[s] = "absent",
         task' = [task EXCEPT ![s] = x],
         started' = started, completed' = completed, failed' = failed, outcome' = outcome
  PROVE  LogTypes' /\ LogInv' /\ StartedInLog' = StartedInLog /\ LinkedInLog' = LinkedInLog
<1>1. LogTypes'
  BY DEF LogTypes
<1>2. LogInv'
  BY DEF LogTypes, LogInv, Open
<1>. QED  BY <1>1, <1>2 DEF StartedInLog, LinkedInLog

LEMMA LogEnds ==
  ASSUME LogTypes, LogInv, NEW s \in Steps, Open(s),
         \/ /\ task[s] \in {"absent", "failed"}
            /\ failed' = failed \cup {s} /\ completed' = completed
         \/ /\ task[s] = "completed" /\ started[s] = "started"
            /\ completed' = completed \cup {s} /\ failed' = failed,
         started' = started, task' = task, outcome' = outcome
  PROVE  LogTypes' /\ LogInv' /\ StartedInLog' = StartedInLog /\ LinkedInLog' = LinkedInLog
<1>1. LogTypes'
  BY DEF LogTypes
<1>2. LogInv'
  BY DEF LogTypes, LogInv, Open
<1>. QED  BY <1>1, <1>2 DEF StartedInLog, LinkedInLog

LEMMA LogSame ==
  ASSUME LogTypes, LogInv, outcome' \in {"none", "completed", "failed"},
         started' = started, task' = task, completed' = completed, failed' = failed
  PROVE  LogTypes' /\ LogInv' /\ StartedInLog' = StartedInLog /\ LinkedInLog' = LinkedInLog
<1>1. LogTypes'
  BY DEF LogTypes
<1>2. LogInv'
  BY DEF LogInv
<1>. QED  BY <1>1, <1>2 DEF StartedInLog, LinkedInLog

(* News stays true: ends of tasks are final.                               *)
LEMMA NewsAppended ==
  ASSUME NEW e \in Events, busq \in Seq(Events), NewsInv, busq' = Append(busq, e),
         memory' = memory, Tells(e)',
         \A s \in Steps : task[s] \in {"completed", "failed"} => task'[s] = task[s],
         memory.ended \in [Steps -> {"none", "completed", "failed"}]
  PROVE  NewsInv'
<1>1. ASSUME NEW i \in 1 .. Len(busq') PROVE Tells(busq[i])'
  <2>1. CASE i = Len(busq) + 1
    <3>1. busq'[i] = e
      BY <2>1
    <3>. QED  BY <3>1 DEF Tells
  <2>2. CASE i # Len(busq) + 1
    <3>1. i \in 1 .. Len(busq) /\ busq'[i] = busq[i]
      BY <1>1, <2>2
    <3>2. Tells(busq[i])
      BY <3>1 DEF NewsInv
    <3>. QED  BY <3>1, <3>2 DEF Tells
  <2>. QED  BY <2>1, <2>2
<1>2. \A s \in Steps : memory'.ended[s] # "none" => task'[s] = memory'.ended[s]
  BY DEF NewsInv
<1>. QED  BY <1>1, <1>2 DEF NewsInv
-----------------------------------------------------------------------------
(* One emit, for each of the scripts.                                      *)

(* What is left to show of an emit of e.                                   *)
LEMMA Emitted ==
  ASSUME Inv, EmitNext, NEW e \in Events, e = Head(script),
         LogTypes', LogInv', ScriptInv', ProcessInv', Tells(e)',
         \A s \in Steps : task[s] \in {"completed", "failed"} => task'[s] = task[s]
  PROVE  Inv'
<1>1. /\ script # <<>> /\ busq' = Append(busq, e) /\ script' = Tail(script)
      /\ deps' = deps /\ inherits' = inherits /\ created' = created /\ git' = git
      /\ pc' = pc /\ memory' = memory /\ shown' = shown /\ inspecting' = inspecting
      /\ crashes' = crashes /\ produced' = produced /\ blamed' = blamed
  BY DEF EmitNext, graphVars
<1>2. busq \in Seq(Events) /\ script \in Seq(Events)
      /\ memory.ended \in [Steps -> {"none", "completed", "failed"}]
  BY DEF Inv, TypeOK, Memories
<1>3. TypeOK'
  <2>1. busq' \in Seq(Events) /\ script' \in Seq(Events)
    BY <1>1, <1>2
  <2>. QED  BY <1>1, <2>1 DEF Inv, TypeOK, LogTypes
<1>4. CreatedInv'
  BY <1>1 DEF Inv, CreatedInv
<1>5. NewsInv'
  BY <1>1, <1>2, NewsAppended DEF Inv
<1>. QED  BY <1>3, <1>4, <1>5 DEF Inv

LEMMA FirstOfThree ==
  ASSUME NEW a, NEW b, NEW c PROVE Head(<<a, b, c>>) = a /\ Tail(<<a, b, c>>) = <<b, c>>
  OBVIOUS

(* The emits that leave the memory as it was.                              *)
LEMMA EmitChanges ==
  ASSUME Inv, EmitNext, NEW type \in WorkflowEvents \cup StepEvents,
         NEW s \in Steps \cup {NoStep}, type \in StepEvents => s \in Steps, Head(script) = Event(type, s)
  PROVE  /\ Event(type, s) \in Events /\ Record(Event(type, s))
         /\ pc # "down" /\ pc' = pc /\ memory' = memory /\ crashes' = crashes
         /\ deps' = deps /\ created' = created /\ script' = Tail(script)
         /\ LogTypes /\ LogInv /\ ProcessInv
<1>1. Event(type, s) \in Events
  BY DEF Event, Events
<1>2. Record(Event(type, s))
  <2>1. Record(Head(script))
    BY DEF EmitNext
  <2>. QED  BY <2>1, Zenon
<1>3. script # <<>>
  BY DEF EmitNext
<1>4. pc # "down"
  BY <1>3 DEF Inv, ScriptInv, ToDoNothing
<1>. QED  BY <1>1, <1>2, <1>4, Types DEF EmitNext, Inv, graphVars

LEMMA EmitStarted ==
  ASSUME Inv, EmitNext, NEW s \in Steps, ToStart(s) PROVE Inv'
<1>1. Head(script) = Event("started", s) /\ Tail(script) = <<Event("task.queued", s)>>
  BY DEF ToStart
<1>2. /\ Event("started", s) \in Events /\ Record(Event("started", s))
      /\ pc # "down" /\ pc' = pc /\ memory' = memory /\ crashes' = crashes
      /\ deps' = deps /\ created' = created /\ script' = <<Event("task.queued", s)>>
      /\ LogTypes /\ LogInv /\ ProcessInv
  BY <1>1, EmitChanges DEF WorkflowEvents, StepEvents
<1>3. /\ started' = [started EXCEPT ![s] = "started"] /\ task' = task
      /\ completed' = completed /\ failed' = failed /\ outcome' = outcome
  BY <1>2 DEF Record, Event
<1>4. /\ LogTypes' /\ LogInv'
      /\ StartedInLog' = StartedInLog \cup {s} /\ LinkedInLog' = LinkedInLog \cup {s}
  BY <1>2, <1>3, LogStart DEF ToStart, Fresh
<1>5. ToQueue(s)'
  BY <1>2, <1>3, <1>4 DEF LogTypes, LogInv, ToStart, Fresh, Calm, ToQueue, Open, Synced
<1>6. ScriptInv'
  BY <1>2, <1>5 DEF ScriptInv
<1>7. ProcessInv'
  BY <1>2, <1>3 DEF ProcessInv, ToStart, Fresh, Calm
<1>8. /\ Tells(Event("started", s))'
      /\ \A r \in Steps : task[r] \in {"completed", "failed"} => task'[r] = task[r]
  BY <1>2, <1>3 DEF Tells, Event, LogTypes
<1>. QED  BY <1>1, <1>2, <1>4, <1>6, <1>7, <1>8, Emitted

LEMMA EmitQueued ==
  ASSUME Inv, EmitNext, NEW s \in Steps, ToQueue(s) PROVE Inv'
<1>1. Head(script) = Event("task.queued", s) /\ Tail(script) = <<>>
  BY DEF ToQueue
<1>2. /\ Event("task.queued", s) \in Events /\ Record(Event("task.queued", s))
      /\ pc # "down" /\ pc' = pc /\ memory' = memory /\ crashes' = crashes
      /\ deps' = deps /\ created' = created /\ script' = <<>>
      /\ LogTypes /\ LogInv /\ ProcessInv
  BY <1>1, EmitChanges DEF WorkflowEvents, StepEvents
<1>3. /\ task' = [task EXCEPT ![s] = "queued"] /\ started' = started
      /\ completed' = completed /\ failed' = failed /\ outcome' = outcome
  BY <1>2 DEF Record, Event
<1>4. /\ LogTypes' /\ LogInv'
      /\ StartedInLog' = StartedInLog /\ LinkedInLog' = LinkedInLog
  BY <1>2, <1>3, LogTask DEF ToQueue
<1>5. ToDoNothing'
  BY <1>2, <1>3, <1>4 DEF ToDoNothing, ToQueue, Synced
<1>6. ScriptInv'
  BY <1>2, <1>5 DEF ScriptInv
<1>7. ProcessInv'
  BY <1>2, <1>3 DEF ProcessInv, ToQueue, Calm
<1>8. /\ Tells(Event("task.queued", s))'
      /\ \A r \in Steps : task[r] \in {"completed", "failed"} => task'[r] = task[r]
  BY <1>2, <1>3 DEF Tells, Event, LogTypes, ToQueue
<1>. QED  BY <1>1, <1>2, <1>4, <1>6, <1>7, <1>8, Emitted

LEMMA EmitRefused ==
  ASSUME Inv, EmitNext, NEW s \in Steps, ToRefuse(s) PROVE Inv'
<1>1. Head(script) = Event("started", s) /\ Tail(script) = <<Event("task.failed", s), Event("step.failed", s), Event("workflow.failed", s)>>
  BY DEF ToRefuse
<1>2. /\ Event("started", s) \in Events /\ Record(Event("started", s))
      /\ pc # "down" /\ pc' = pc /\ memory' = memory /\ crashes' = crashes
      /\ deps' = deps /\ created' = created /\ script' = <<Event("task.failed", s), Event("step.failed", s), Event("workflow.failed", s)>>
      /\ LogTypes /\ LogInv /\ ProcessInv
  BY <1>1, EmitChanges DEF WorkflowEvents, StepEvents
<1>3. /\ started' = [started EXCEPT ![s] = "started"] /\ task' = task
      /\ completed' = completed /\ failed' = failed /\ outcome' = outcome
  BY <1>2 DEF Record, Event
<1>4. /\ LogTypes' /\ LogInv'
      /\ StartedInLog' = StartedInLog \cup {s} /\ LinkedInLog' = LinkedInLog \cup {s}
  BY <1>2, <1>3, LogStart DEF ToRefuse, Fresh
<1>5. ToFailTask(s)'
  BY <1>2, <1>3, <1>4 DEF LogTypes, LogInv, ToRefuse, Fresh, ToFailTask, Open, Synced
<1>6. ScriptInv'
  BY <1>2, <1>5 DEF ScriptInv
<1>7. ProcessInv'
  BY <1>2, <1>3 DEF ProcessInv, ToRefuse, Fresh, Calm
<1>8. /\ Tells(Event("started", s))'
      /\ \A r \in Steps : task[r] \in {"completed", "failed"} => task'[r] = task[r]
  BY <1>2, <1>3 DEF Tells, Event, LogTypes
<1>. QED  BY <1>1, <1>2, <1>4, <1>6, <1>7, <1>8, Emitted

LEMMA EmitTaskFailed ==
  ASSUME Inv, EmitNext, NEW s \in Steps, ToFailTask(s) PROVE Inv'
<1>1. Head(script) = Event("task.failed", s) /\ Tail(script) = <<Event("step.failed", s), Event("workflow.failed", s)>>
  BY DEF ToFailTask
<1>2. /\ Event("task.failed", s) \in Events /\ Record(Event("task.failed", s))
      /\ pc # "down" /\ pc' = pc /\ memory' = memory /\ crashes' = crashes
      /\ deps' = deps /\ created' = created /\ script' = <<Event("step.failed", s), Event("workflow.failed", s)>>
      /\ LogTypes /\ LogInv /\ ProcessInv
  BY <1>1, EmitChanges DEF WorkflowEvents, StepEvents
<1>3. /\ task' = [task EXCEPT ![s] = "failed"] /\ started' = started
      /\ completed' = completed /\ failed' = failed /\ outcome' = outcome
  BY <1>2 DEF Record, Event
<1>4. /\ LogTypes' /\ LogInv'
      /\ StartedInLog' = StartedInLog /\ LinkedInLog' = LinkedInLog
  BY <1>2, <1>3, LogTask DEF ToFailTask
<1>5. ToFailBoth(s)'
  BY <1>2, <1>3, <1>4 DEF LogTypes, ToFailTask, ToFailBoth, Open, Synced
<1>6. ScriptInv'
  BY <1>2, <1>5 DEF ScriptInv
<1>7. ProcessInv'
  BY <1>2, <1>3 DEF ProcessInv, ToFailTask
<1>8. /\ Tells(Event("task.failed", s))'
      /\ \A r \in Steps : task[r] \in {"completed", "failed"} => task'[r] = task[r]
  BY <1>2, <1>3 DEF Tells, Event, LogTypes, ToFailTask
<1>. QED  BY <1>1, <1>2, <1>4, <1>6, <1>7, <1>8, Emitted

LEMMA EmitGivenUp ==
  ASSUME Inv, EmitNext, NEW s \in Steps, ToGiveUp(s) PROVE Inv'
<1>1. Head(script) = Event("started unprovisioned", s) /\ Tail(script) = <<Event("step.failed", s), Event("workflow.failed", s)>>
  BY FirstOfThree, Zenon DEF ToGiveUp
<1>2. /\ Event("started unprovisioned", s) \in Events /\ Record(Event("started unprovisioned", s))
      /\ pc # "down" /\ pc' = pc /\ memory' = memory /\ crashes' = crashes
      /\ deps' = deps /\ created' = created /\ script' = <<Event("step.failed", s), Event("workflow.failed", s)>>
      /\ LogTypes /\ LogInv /\ ProcessInv
  BY <1>1, EmitChanges DEF WorkflowEvents, StepEvents
<1>3. /\ started' = [started EXCEPT ![s] = "started unprovisioned"] /\ task' = task
      /\ completed' = completed /\ failed' = failed /\ outcome' = outcome
  BY <1>2 DEF Record, Event
<1>4. /\ LogTypes' /\ LogInv'
      /\ StartedInLog' = StartedInLog \cup {s} /\ LinkedInLog' = LinkedInLog
  BY <1>2, <1>3, LogStart DEF ToGiveUp, Fresh
<1>5. ToFailBoth(s)'
  BY <1>2, <1>3, <1>4 DEF LogTypes, LogInv, ToGiveUp, Fresh, ToFailBoth, Open, Synced
<1>6. ScriptInv'
  BY <1>2, <1>5 DEF ScriptInv
<1>7. ProcessInv'
  BY <1>2, <1>3 DEF ProcessInv, ToGiveUp, Fresh
<1>8. /\ Tells(Event("started unprovisioned", s))'
      /\ \A r \in Steps : task[r] \in {"completed", "failed"} => task'[r] = task[r]
  BY <1>2, <1>3 DEF Tells, Event, LogTypes
<1>. QED  BY <1>1, <1>2, <1>4, <1>6, <1>7, <1>8, Emitted

LEMMA EmitStepFailedFirst ==
  ASSUME Inv, EmitNext, NEW s \in Steps, ToFailBoth(s) PROVE Inv'
<1>1. Head(script) = Event("step.failed", s) /\ Tail(script) = <<Event("workflow.failed", s)>>
  BY DEF ToFailBoth
<1>2. /\ Event("step.failed", s) \in Events /\ Record(Event("step.failed", s))
      /\ pc # "down" /\ pc' = pc /\ memory' = memory /\ crashes' = crashes
      /\ deps' = deps /\ created' = created /\ script' = <<Event("workflow.failed", s)>>
      /\ LogTypes /\ LogInv /\ ProcessInv
  BY <1>1, EmitChanges DEF WorkflowEvents, StepEvents
<1>3. /\ failed' = failed \cup {s} /\ completed' = completed
      /\ started' = started /\ task' = task /\ outcome' = outcome
  BY <1>2 DEF Record, Event
<1>4. /\ LogTypes' /\ LogInv'
      /\ StartedInLog' = StartedInLog /\ LinkedInLog' = LinkedInLog
  BY <1>2, <1>3, LogEnds DEF ToFailBoth
<1>5. ToFailWorkflow(s)'
  BY <1>2, <1>3, <1>4 DEF ToFailBoth, ToFailWorkflow, Synced
<1>6. ScriptInv'
  BY <1>2, <1>5 DEF ScriptInv
<1>7. ProcessInv'
  BY <1>2, <1>3 DEF ProcessInv, ToFailBoth
<1>8. /\ Tells(Event("step.failed", s))'
      /\ \A r \in Steps : task[r] \in {"completed", "failed"} => task'[r] = task[r]
  BY <1>2, <1>3 DEF Tells, Event, LogTypes
<1>. QED  BY <1>1, <1>2, <1>4, <1>6, <1>7, <1>8, Emitted

LEMMA EmitStepFailed ==
  ASSUME Inv, EmitNext, NEW s \in Steps, ToFailStep(s) PROVE Inv'
<1>1. Head(script) = Event("step.failed", s) /\ Tail(script) = <<>>
  BY DEF ToFailStep
<1>2. /\ Event("step.failed", s) \in Events /\ Record(Event("step.failed", s))
      /\ pc # "down" /\ pc' = pc /\ memory' = memory /\ crashes' = crashes
      /\ deps' = deps /\ created' = created /\ script' = <<>>
      /\ LogTypes /\ LogInv /\ ProcessInv
  BY <1>1, EmitChanges DEF WorkflowEvents, StepEvents
<1>3. /\ failed' = failed \cup {s} /\ completed' = completed
      /\ started' = started /\ task' = task /\ outcome' = outcome
  BY <1>2 DEF Record, Event
<1>4. /\ LogTypes' /\ LogInv'
      /\ StartedInLog' = StartedInLog /\ LinkedInLog' = LinkedInLog
  BY <1>2, <1>3, LogEnds DEF ToFailStep
<1>5. ToDoNothing'
  BY <1>2, <1>3, <1>4 DEF ToFailStep, ToDoNothing, Synced
<1>6. ScriptInv'
  BY <1>2, <1>5 DEF ScriptInv
<1>7. ProcessInv'
  BY <1>2, <1>3 DEF ProcessInv, ToFailStep, Calm
<1>8. /\ Tells(Event("step.failed", s))'
      /\ \A r \in Steps : task[r] \in {"completed", "failed"} => task'[r] = task[r]
  BY <1>2, <1>3 DEF Tells, Event, LogTypes
<1>. QED  BY <1>1, <1>2, <1>4, <1>6, <1>7, <1>8, Emitted

LEMMA EmitWorkflowFailed ==
  ASSUME Inv, EmitNext, NEW s \in Steps, ToFailWorkflow(s) PROVE Inv'
<1>1. Head(script) = Event("workflow.failed", s) /\ Tail(script) = <<>>
  BY DEF ToFailWorkflow
<1>2. /\ Event("workflow.failed", s) \in Events /\ Record(Event("workflow.failed", s))
      /\ pc # "down" /\ pc' = pc /\ memory' = memory /\ crashes' = crashes
      /\ deps' = deps /\ created' = created /\ script' = <<>>
      /\ LogTypes /\ LogInv /\ ProcessInv
  BY <1>1, EmitChanges DEF WorkflowEvents, StepEvents
<1>3. /\ outcome' = "failed" /\ completed' = completed /\ failed' = failed
      /\ started' = started /\ task' = task
  BY <1>2 DEF Record, Event
<1>4. /\ LogTypes' /\ LogInv'
      /\ StartedInLog' = StartedInLog /\ LinkedInLog' = LinkedInLog
  BY <1>2, <1>3, LogSame DEF ToFailWorkflow
<1>5. ToDoNothing'
  BY <1>2, <1>3, <1>4 DEF ToFailWorkflow, ToDoNothing, Synced
<1>6. ScriptInv'
  BY <1>2, <1>5 DEF ScriptInv
<1>7. ProcessInv'
  BY <1>2, <1>3 DEF ProcessInv, ToFailWorkflow, Calm
<1>8. /\ Tells(Event("workflow.failed", s))'
      /\ \A r \in Steps : task[r] \in {"completed", "failed"} => task'[r] = task[r]
  BY <1>2, <1>3 DEF Tells, Event, LogTypes
<1>. QED  BY <1>1, <1>2, <1>4, <1>6, <1>7, <1>8, Emitted

LEMMA EmitStepCompleted ==
  ASSUME Inv, EmitNext, NEW s \in Steps, ToComplete(s) PROVE Inv'
<1>1. Head(script) = Event("step.completed", s) /\ Tail(script) = <<>>
  BY DEF ToComplete
<1>2. /\ Event("step.completed", s) \in Events /\ Record(Event("step.completed", s))
      /\ pc # "down" /\ pc' = pc /\ memory' = memory /\ crashes' = crashes
      /\ deps' = deps /\ created' = created /\ script' = <<>>
      /\ LogTypes /\ LogInv /\ ProcessInv
  BY <1>1, EmitChanges DEF WorkflowEvents, StepEvents
<1>3. /\ completed' = completed \cup {s} /\ failed' = failed
      /\ started' = started /\ task' = task /\ outcome' = outcome
  BY <1>2 DEF Record, Event
<1>4. /\ LogTypes' /\ LogInv'
      /\ StartedInLog' = StartedInLog /\ LinkedInLog' = LinkedInLog
  BY <1>2, <1>3, LogEnds DEF ToComplete
<1>5. ToDoNothing'
  BY <1>2, <1>3, <1>4 DEF ToComplete, ToDoNothing, Synced
<1>6. ScriptInv'
  BY <1>2, <1>5 DEF ScriptInv
<1>7. ProcessInv'
  BY <1>2, <1>3 DEF ProcessInv, ToComplete, Calm
<1>8. /\ Tells(Event("step.completed", s))'
      /\ \A r \in Steps : task[r] \in {"completed", "failed"} => task'[r] = task[r]
  BY <1>2, <1>3 DEF Tells, Event, LogTypes
<1>. QED  BY <1>1, <1>2, <1>4, <1>6, <1>7, <1>8, Emitted

LEMMA EmitWorkflowCompleted ==
  ASSUME Inv, EmitNext, ToEnd PROVE Inv'
<1>1. Head(script) = Event("workflow.completed", NoStep) /\ Tail(script) = <<>>
  BY DEF ToEnd
<1>2. /\ Event("workflow.completed", NoStep) \in Events /\ Record(Event("workflow.completed", NoStep))
      /\ pc # "down" /\ pc' = pc /\ memory' = memory /\ crashes' = crashes
      /\ deps' = deps /\ created' = created /\ script' = <<>>
      /\ LogTypes /\ LogInv /\ ProcessInv
  BY <1>1, EmitChanges DEF WorkflowEvents, StepEvents
<1>3. /\ outcome' = "completed" /\ completed' = completed /\ failed' = failed
      /\ started' = started /\ task' = task
  BY <1>2 DEF Record, Event
<1>4. /\ LogTypes' /\ LogInv'
      /\ StartedInLog' = StartedInLog /\ LinkedInLog' = LinkedInLog
  BY <1>2, <1>3, LogSame DEF ToEnd
<1>5. ToDoNothing'
  BY <1>2, <1>3, <1>4 DEF ToEnd, ToDoNothing, Synced
<1>6. ScriptInv'
  BY <1>2, <1>5 DEF ScriptInv
<1>7. ProcessInv'
  BY <1>2, <1>3 DEF ProcessInv, ToEnd, Calm
<1>8. /\ Tells(Event("workflow.completed", NoStep))'
      /\ \A r \in Steps : task[r] \in {"completed", "failed"} => task'[r] = task[r]
  BY <1>2, <1>3 DEF Tells, Event, LogTypes
<1>. QED  BY <1>1, <1>2, <1>4, <1>6, <1>7, <1>8, Emitted

LEMMA EmitInv == Inv /\ EmitNext => Inv'
<1> SUFFICES ASSUME Inv, EmitNext PROVE Inv'
  OBVIOUS
<1>1. \/ ToEnd
      \/ \E s \in Steps :
           \/ ToStart(s) \/ ToQueue(s) \/ ToRefuse(s) \/ ToFailTask(s) \/ ToGiveUp(s)
           \/ ToFailBoth(s) \/ ToFailStep(s) \/ ToFailWorkflow(s) \/ ToComplete(s)
  BY DEF EmitNext, Inv, ScriptInv, ToDoNothing
<1>. QED  BY <1>1, EmitStarted, EmitQueued, EmitRefused, EmitTaskFailed, EmitGivenUp,
             EmitStepFailedFirst, EmitStepFailed, EmitWorkflowFailed, EmitStepCompleted,
             EmitWorkflowCompleted
-----------------------------------------------------------------------------
(* The steps of the coordinator that set out a script.                     *)

(* What is left to show of such a step: the log is as it was.              *)
LEMMA Scripted ==
  ASSUME Inv, created, script = <<>>, pc # "down", pc' \in {"idle", "advancing", "resuming"},
         busq' = busq \/ (busq # <<>> /\ busq' = Tail(busq)),
         script' \in Seq(Events), memory' \in Memories, memory'.ended = memory.ended,
         shown' \in Views, blamed' \in [Steps -> {"no", "task", "mount", "provisioning"}],
         ScriptInv',
         UNCHANGED <<graphVars, wfLog, task, git, inspecting, crashes, produced>>
  PROVE  Inv'
<1>1. /\ deps' = deps /\ inherits' = inherits /\ created' = created /\ started' = started
      /\ completed' = completed /\ failed' = failed /\ outcome' = outcome /\ task' = task
      /\ git' = git /\ inspecting' = inspecting /\ crashes' = crashes /\ produced' = produced
  BY DEF graphVars, wfLog
<1>2. busq \in Seq(Events)
  BY DEF Inv, TypeOK
<1>3. TypeOK'
  <2>1. busq' \in Seq(Events)
    BY <1>2
  <2>. QED  BY <1>1, <2>1 DEF Inv, TypeOK
<1>4. LogInv'
  BY <1>1 DEF Inv, LogInv
<1>5. CreatedInv'
  BY <1>1 DEF CreatedInv
<1>6. NewsInv'
  <2>1. \A i \in 1 .. Len(busq') : \E j \in 1 .. Len(busq) : busq'[i] = busq[j]
    BY <1>2
  <2>2. \A i \in 1 .. Len(busq') : Tells(busq[i])'
    <3>. SUFFICES ASSUME NEW i \in 1 .. Len(busq') PROVE Tells(busq[i])'
      OBVIOUS
    <3>1. PICK j \in 1 .. Len(busq) : busq'[i] = busq[j]
      BY <2>1
    <3>2. Tells(busq[j])
      BY DEF Inv, NewsInv
    <3>. QED  BY <1>1, <3>1, <3>2 DEF Tells
  <2>. QED  BY <1>1, <2>2 DEF Inv, NewsInv
<1>7. ProcessInv'
  BY <1>1 DEF Inv, ProcessInv, Calm
<1>. QED  BY <1>3, <1>4, <1>5, <1>6, <1>7 DEF Inv

LEMMA InSync ==
  ASSUME Inv, script = <<>>, pc # "down" PROVE Synced({}, {}, {}, {}, FALSE)
  BY DEF Inv, ScriptInv, ToDoNothing, ToStart, ToQueue, ToRefuse, ToFailTask, ToGiveUp,
         ToFailBoth, ToFailStep, ToFailWorkflow, ToComplete, ToEnd

(* A step that is eligible has not begun in the log.                       *)
LEMMA EligibleIsFresh ==
  ASSUME Inv, script = <<>>, pc # "down", ~memory.terminal, NEW s \in Steps, Eligible(s)
  PROVE  Fresh(s) /\ Synced({}, {}, {}, {}, FALSE)
<1>1. Synced({}, {}, {}, {}, FALSE)
  BY InSync
<1>2. outcome = "none"
  BY <1>1 DEF Synced
<1>3. started[s] = "no"
  BY <1>1 DEF Synced, Eligible, StartedInLog
<1>4. task[s] = "absent"
  BY <1>3 DEF Inv, LogInv
<1>5. deps[s] \subseteq completed
  BY <1>1 DEF Synced, Eligible
<1>. QED  BY <1>1, <1>2, <1>3, <1>4, <1>5 DEF Inv, ProcessInv, Fresh

LEMMA Concatenated ==
  ASSUME NEW S, NEW a \in S, NEW b \in S, NEW c \in S
  PROVE  /\ <<a>> \o <<>> = <<a>> /\ <<a>> \o <<b>> = <<a, b>>
         /\ <<a>> \o <<b, c>> = <<a, b, c>>
<1>1. <<a>> \o <<>> = <<a>>
  BY ConcatEmptySeq
<1>2. <<a>> \o <<b>> = <<a, b>>
  <2>1. <<a>> \in Seq(S) /\ <<b>> \in Seq(S) /\ <<a, b>> \in Seq(S)
    OBVIOUS
  <2>2. /\ <<a>> \o <<b>> \in Seq(S) /\ Len(<<a>> \o <<b>>) = Len(<<a>>) + Len(<<b>>)
        /\ \A i \in 1 .. Len(<<a>>) + Len(<<b>>) :
             (<<a>> \o <<b>>)[i] = IF i <= Len(<<a>>) THEN <<a>>[i] ELSE <<b>>[i - Len(<<a>>)]
    BY <2>1, ConcatProperties
  <2>3. Len(<<a>> \o <<b>>) = Len(<<a, b>>) /\ \A i \in 1 .. 2 : (<<a>> \o <<b>>)[i] = <<a, b>>[i]
    BY <2>2
  <2>. QED  BY <2>1, <2>2, <2>3, SeqEqual
<1>3. <<a>> \o <<b, c>> = <<a, b, c>>
  <2>1. <<a>> \in Seq(S) /\ <<b, c>> \in Seq(S) /\ <<a, b, c>> \in Seq(S)
    OBVIOUS
  <2>2. /\ <<a>> \o <<b, c>> \in Seq(S) /\ Len(<<a>> \o <<b, c>>) = Len(<<a>>) + Len(<<b, c>>)
        /\ \A i \in 1 .. Len(<<a>>) + Len(<<b, c>>) :
             (<<a>> \o <<b, c>>)[i] = IF i <= Len(<<a>>) THEN <<a>>[i] ELSE <<b, c>>[i - Len(<<a>>)]
    BY <2>1, ConcatProperties
  <2>3. Len(<<a>> \o <<b, c>>) = Len(<<a, b, c>>) /\ \A i \in 1 .. 3 : (<<a>> \o <<b, c>>)[i] = <<a, b, c>>[i]
    BY <2>2
  <2>. QED  BY <2>1, <2>2, <2>3, SeqEqual
<1>. QED  BY <1>1, <1>2, <1>3

LEMMA PairsConcatenated ==
  ASSUME NEW S, NEW a \in S, NEW b \in S, NEW c \in S, NEW d \in S
  PROVE  <<a, b>> \o <<c, d>> = <<a, b, c, d>>
<1>1. <<a, b>> \in Seq(S) /\ <<c, d>> \in Seq(S) /\ <<a, b, c, d>> \in Seq(S)
  OBVIOUS
<1>2. /\ <<a, b>> \o <<c, d>> \in Seq(S) /\ Len(<<a, b>> \o <<c, d>>) = Len(<<a, b>>) + Len(<<c, d>>)
      /\ \A i \in 1 .. Len(<<a, b>>) + Len(<<c, d>>) :
           (<<a, b>> \o <<c, d>>)[i] = IF i <= Len(<<a, b>>) THEN <<a, b>>[i] ELSE <<c, d>>[i - Len(<<a, b>>)]
  BY <1>1, ConcatProperties
<1>3. Len(<<a, b>> \o <<c, d>>) = Len(<<a, b, c, d>>) /\ \A i \in 1 .. 4 : (<<a, b>> \o <<c, d>>)[i] = <<a, b, c, d>>[i]
  BY <1>2
<1>. QED  BY <1>1, <1>2, <1>3, SeqEqual

LEMMA ThreeOf ==
  ASSUME NEW S, NEW a \in S, NEW b \in S, NEW c \in S
  PROVE  <<a, b, c>> \in Seq(S)
  OBVIOUS

LEMMA EventsOfSteps ==
  ASSUME NEW type \in StepEvents, NEW s \in Steps
  PROVE  Event(type, s) \in Events
  BY DEF Event, Events

LEMMA EventsOfWorkflow ==
  ASSUME NEW type \in WorkflowEvents, NEW s \in Steps \cup {NoStep}
  PROVE  Event(type, s) \in Events
  BY DEF Event, Events

LEMMA FailureScript ==
  ASSUME NEW s \in Steps
  PROVE  /\ ~memory.terminal =>
              FailureEmits(s) = <<Event("step.failed", s), Event("workflow.failed", s)>>
         /\ memory.terminal => FailureEmits(s) = <<Event("step.failed", s)>>
         /\ FailureEmits(s) \in Seq(Events)
<1> DEFINE first == Event("step.failed", s)
           last == Event("workflow.failed", s)
<1>1. first \in Events /\ last \in Events
  BY EventsOfSteps, EventsOfWorkflow DEF StepEvents, WorkflowEvents
<1>2. <<first>> \o <<>> = <<first>> /\ <<first>> \o <<last>> = <<first, last>>
  BY <1>1, Concatenated
<1>3. memory.terminal => FailureEmits(s) = <<first>>
  BY <1>2, Zenon DEF FailureEmits
<1>4. ~memory.terminal => FailureEmits(s) = <<first, last>>
  BY <1>2, Zenon DEF FailureEmits
<1>5. <<first>> \in Seq(Events) /\ <<first, last>> \in Seq(Events)
  BY <1>1
<1>. QED  BY <1>3, <1>4, <1>5, Zenon

(* The three ways a step starts.                                           *)
LEMMA StartInv ==
  ASSUME Inv, script = <<>>, pc # "down", pc' # "down", ~memory.terminal,
         NEW s \in Steps, Eligible(s), StartStep(s),
         UNCHANGED <<graphVars, wfLog, task, crashes>>
  PROVE  /\ ScriptInv' /\ script' \in Seq(Events) /\ memory' \in Memories
         /\ memory'.ended = memory.ended
         /\ blamed' \in [Steps -> {"no", "task", "mount", "provisioning"}]
<1>1. Fresh(s) /\ Synced({}, {}, {}, {}, FALSE)
  BY EligibleIsFresh
<1>2. /\ deps' = deps /\ created' = created /\ started' = started /\ completed' = completed
      /\ failed' = failed /\ outcome' = outcome /\ task' = task /\ crashes' = crashes
  BY DEF graphVars, wfLog
<1>3. Fresh(s)'
  BY <1>1, <1>2 DEF Fresh, Calm
<1>4. StartedInLog' = StartedInLog /\ LinkedInLog' = LinkedInLog
  BY <1>2 DEF StartedInLog, LinkedInLog
<1>5. memory \in Memories /\ blamed \in [Steps -> {"no", "task", "mount", "provisioning"}]
  BY DEF Inv, TypeOK
<1>6. CASE StartUnprovisioned(s)
  <2>1. script' = <<Event("started unprovisioned", s), Event("step.failed", s),
                    Event("workflow.failed", s)>>
    <3>1. FailureEmits(s) = <<Event("step.failed", s), Event("workflow.failed", s)>>
      BY FailureScript, Zenon
    <3>2. script' = <<Event("started unprovisioned", s)>> \o FailureEmits(s)
      BY <1>6, Zenon DEF StartUnprovisioned
    <3>3. /\ Event("started unprovisioned", s) \in Events /\ Event("step.failed", s) \in Events
          /\ Event("workflow.failed", s) \in Events
      BY EventsOfSteps, EventsOfWorkflow DEF StepEvents, WorkflowEvents
    <3>4. <<Event("started unprovisioned", s)>> \o <<Event("step.failed", s), Event("workflow.failed", s)>>
            = <<Event("started unprovisioned", s), Event("step.failed", s), Event("workflow.failed", s)>>
      BY <3>3, Concatenated
    <3>. QED  BY <3>1, <3>2, <3>4, Zenon
  <2>2. script' \in Seq(Events)
    <3>1. /\ Event("started unprovisioned", s) \in Events /\ Event("step.failed", s) \in Events
          /\ Event("workflow.failed", s) \in Events
      BY EventsOfSteps, EventsOfWorkflow DEF StepEvents, WorkflowEvents
    <3>. QED  BY <2>1, <3>1, ThreeOf
  <2>3. /\ memory'.started = memory.started \cup {s} /\ memory'.linked = memory.linked
        /\ memory'.completed = memory.completed /\ memory'.failed = memory.failed \cup {s}
        /\ memory'.terminal = TRUE /\ memory'.ended = memory.ended /\ memory' \in Memories
    BY <1>5, <1>6 DEF StartUnprovisioned, Memories
  <2>4. ToGiveUp(s)'
    BY <1>1, <1>2, <1>3, <1>4, <2>1, <2>3, Zenon DEF ToGiveUp, Synced
  <2>5. blamed' \in [Steps -> {"no", "task", "mount", "provisioning"}]
    BY <1>5, <1>6 DEF StartUnprovisioned
  <2>. QED  BY <2>2, <2>3, <2>4, <2>5 DEF ScriptInv
<1>7. CASE StartUnresolved(s)
  <2>1. script' = <<Event("started", s), Event("task.failed", s), Event("step.failed", s),
                    Event("workflow.failed", s)>>
    <3>1. FailureEmits(s) = <<Event("step.failed", s), Event("workflow.failed", s)>>
      BY FailureScript, Zenon
    <3>2. script' = <<Event("started", s), Event("task.failed", s)>> \o FailureEmits(s)
      BY <1>7, Zenon DEF StartUnresolved
    <3>3. /\ Event("started", s) \in Events /\ Event("task.failed", s) \in Events
          /\ Event("step.failed", s) \in Events /\ Event("workflow.failed", s) \in Events
      BY EventsOfSteps, EventsOfWorkflow DEF StepEvents, WorkflowEvents
    <3>4. <<Event("started", s), Event("task.failed", s)>>
              \o <<Event("step.failed", s), Event("workflow.failed", s)>>
            = <<Event("started", s), Event("task.failed", s), Event("step.failed", s),
                Event("workflow.failed", s)>>
      BY <3>3, PairsConcatenated, Zenon
    <3>. QED  BY <3>1, <3>2, <3>4, Zenon
  <2>2. script' \in Seq(Events)
    <3>1. /\ Event("started", s) \in Events /\ Event("step.failed", s) \in Events
          /\ Event("task.failed", s) \in Events /\ Event("workflow.failed", s) \in Events
      BY EventsOfSteps, EventsOfWorkflow DEF StepEvents, WorkflowEvents
    <3>. QED  BY <2>1, <3>1
  <2>3. /\ memory'.started = memory.started \cup {s} /\ memory'.linked = memory.linked \cup {s}
        /\ memory'.completed = memory.completed /\ memory'.failed = memory.failed \cup {s}
        /\ memory'.terminal = TRUE /\ memory'.ended = memory.ended /\ memory' \in Memories
    BY <1>5, <1>7 DEF StartUnresolved, Memories
  <2>4. ToRefuse(s)'
    BY <1>1, <1>2, <1>3, <1>4, <2>1, <2>3 DEF ToRefuse, Synced
  <2>5. blamed' \in [Steps -> {"no", "task", "mount", "provisioning"}]
    BY <1>5, <1>7 DEF StartUnresolved
  <2>. QED  BY <2>2, <2>3, <2>4, <2>5 DEF ScriptInv
<1>8. CASE StartQueued(s)
  <2>1. script' = <<Event("started", s), Event("task.queued", s)>>
    BY <1>8 DEF StartQueued
  <2>2. script' \in Seq(Events)
    <3>1. Event("started", s) \in Events /\ Event("task.queued", s) \in Events
      BY EventsOfSteps DEF StepEvents
    <3>. QED  BY <2>1, <3>1
  <2>3. /\ memory'.started = memory.started \cup {s} /\ memory'.linked = memory.linked \cup {s}
        /\ memory'.completed = memory.completed /\ memory'.failed = memory.failed
        /\ memory'.terminal = memory.terminal /\ memory'.ended = memory.ended
        /\ memory' \in Memories
    BY <1>5, <1>8 DEF StartQueued, Memories
  <2>4. ToStart(s)'
    BY <1>1, <1>2, <1>3, <1>4, <2>1, <2>3 DEF ToStart, Synced
  <2>. QED  BY <1>5, <1>8, <2>2, <2>3, <2>4 DEF ScriptInv, StartQueued
<1>. QED  BY <1>6, <1>7, <1>8 DEF StartStep

(* The end of a step whose task has ended; an end it has already seen adds *)
(* nothing.                                                                *)
LEMMA EndInv ==
  ASSUME Inv, script = <<>>, pc # "down", pc' # "down", NEW s \in memory.linked,
         \/ task[s] = "completed" /\ MarkCompleted(s) /\ UNCHANGED blamed
         \/ task[s] = "failed" /\ MarkFailed(s),
         UNCHANGED <<graphVars, wfLog, task, crashes>>
  PROVE  /\ ScriptInv' /\ script' \in Seq(Events) /\ memory' \in Memories
         /\ memory'.ended = memory.ended
         /\ blamed' \in [Steps -> {"no", "task", "mount", "provisioning"}]
<1>1. Synced({}, {}, {}, {}, FALSE)
  BY InSync
<1>2. /\ deps' = deps /\ created' = created /\ started' = started /\ completed' = completed
      /\ failed' = failed /\ outcome' = outcome /\ task' = task /\ crashes' = crashes
  BY DEF graphVars, wfLog
<1>3. s \in Steps /\ started[s] = "started"
  BY <1>1 DEF Synced, LinkedInLog
<1>4. StartedInLog' = StartedInLog /\ LinkedInLog' = LinkedInLog
  BY <1>2 DEF StartedInLog, LinkedInLog
<1>5. memory \in Memories /\ blamed \in [Steps -> {"no", "task", "mount", "provisioning"}]
  BY DEF Inv, TypeOK
<1>6. Calm /\ Calm'
  BY <1>2 DEF Inv, ProcessInv, Calm
<1>7. CASE Ended(s)
  <2>1. script' = <<>> /\ memory' = memory /\ blamed' = blamed
    BY <1>7 DEF MarkCompleted, MarkFailed
  <2>2. ToDoNothing'
    BY <1>1, <1>2, <1>4, <2>1 DEF ToDoNothing, Synced
  <2>. QED  BY <1>5, <2>1, <2>2 DEF ScriptInv
<1>8. CASE ~Ended(s)
  <2>1. Open(s) /\ Open(s)'
    BY <1>1, <1>2, <1>3, <1>8 DEF Open, Ended, Synced
  <2>2. CASE task[s] = "completed" /\ MarkCompleted(s) /\ UNCHANGED blamed
    <3>1. script' = <<Event("step.completed", s)>>
      BY <1>8, <2>2 DEF MarkCompleted
    <3>2. script' \in Seq(Events)
      <4>1. Event("step.completed", s) \in Events
        BY <1>3, EventsOfSteps DEF StepEvents
      <4>. QED  BY <3>1, <4>1
    <3>3. /\ memory'.started = memory.started /\ memory'.linked = memory.linked
          /\ memory'.completed = memory.completed \cup {s} /\ memory'.failed = memory.failed
          /\ memory'.terminal = memory.terminal /\ memory'.ended = memory.ended
          /\ memory' \in Memories
      BY <1>3, <1>5, <1>8, <2>2 DEF MarkCompleted, Memories
    <3>4. ToComplete(s)'
      BY <1>1, <1>2, <1>3, <1>4, <1>6, <2>1, <2>2, <3>1, <3>3 DEF ToComplete, Synced
    <3>. QED  BY <1>3, <1>5, <2>2, <3>2, <3>3, <3>4 DEF ScriptInv
  <2>3. CASE task[s] = "failed" /\ MarkFailed(s)
    <3>1. script' = FailureEmits(s) /\ blamed' = [blamed EXCEPT ![s] = "task"]
      BY <1>8, <2>3 DEF MarkFailed
    <3>2. script' \in Seq(Events)
      BY <1>3, <3>1, FailureScript, Zenon
    <3>3. /\ memory'.started = memory.started /\ memory'.linked = memory.linked
          /\ memory'.completed = memory.completed /\ memory'.failed = memory.failed \cup {s}
          /\ memory'.terminal = TRUE /\ memory'.ended = memory.ended
          /\ memory' \in Memories
      BY <1>3, <1>5, <1>8, <2>3 DEF MarkFailed, Memories
    <3>4. ASSUME memory.terminal PROVE ScriptInv'
      <4>1. outcome # "none"
        BY <1>1, <3>4 DEF Synced
      <4>2. script' = <<Event("step.failed", s)>>
        BY <1>3, <3>1, <3>4, FailureScript, Zenon
      <4>3. ToFailStep(s)'
        BY <1>1, <1>2, <1>4, <2>1, <2>3, <3>3, <4>1, <4>2 DEF ToFailStep, Synced
      <4>. QED  BY <1>3, <4>3 DEF ScriptInv
    <3>5. ASSUME ~memory.terminal PROVE ScriptInv'
      <4>1. outcome = "none"
        BY <1>1, <3>5 DEF Synced
      <4>2. script' = <<Event("step.failed", s), Event("workflow.failed", s)>>
        BY <1>3, <3>1, <3>5, FailureScript, Zenon
      <4>3. ToFailBoth(s)'
        BY <1>1, <1>2, <1>4, <2>1, <2>3, <3>3, <4>1, <4>2 DEF ToFailBoth, Synced
      <4>. QED  BY <1>3, <4>3 DEF ScriptInv
    <3>6. ScriptInv'
      BY <3>4, <3>5
    <3>. QED  BY <1>5, <3>1, <3>2, <3>3, <3>6
  <2>. QED  BY <2>2, <2>3
<1>. QED  BY <1>7, <1>8

LEMMA AdvanceStartsInv == Inv /\ AdvanceStarts => Inv'
<1> SUFFICES ASSUME Inv, AdvanceStarts PROVE Inv'
  OBVIOUS
<1>1. PICK s \in Steps : Eligible(s) /\ StartStep(s)
  BY DEF AdvanceStarts
<1>2. /\ script = <<>> /\ pc = "advancing" /\ pc' = "advancing" /\ ~memory.terminal
      /\ busq' = busq /\ shown' = shown
      /\ UNCHANGED <<graphVars, wfLog, task, git, inspecting, crashes, produced>>
  BY DEF AdvanceStarts, Ready
<1>3. created
  BY <1>2 DEF Inv, CreatedInv
<1>4. /\ ScriptInv' /\ script' \in Seq(Events) /\ memory' \in Memories
      /\ memory'.ended = memory.ended
      /\ blamed' \in [Steps -> {"no", "task", "mount", "provisioning"}]
  BY <1>1, <1>2, StartInv
<1>5. shown' \in Views
  BY <1>2 DEF Inv, TypeOK
<1>. QED  BY <1>2, <1>3, <1>4, <1>5, Scripted

LEMMA AdvanceEndsInv == Inv /\ AdvanceEnds => Inv'
<1> SUFFICES ASSUME Inv, AdvanceEnds PROVE Inv'
  OBVIOUS
<1>1. /\ script = <<>> /\ pc = "advancing" /\ pc' = "idle"
      /\ busq' = busq /\ shown' = shown /\ blamed' = blamed
      /\ UNCHANGED <<graphVars, wfLog, task, git, inspecting, crashes, produced>>
  BY DEF AdvanceEnds, Ready, ghostVars
<1>2. created
  BY <1>1 DEF Inv, CreatedInv
<1>3. Synced({}, {}, {}, {}, FALSE)
  BY <1>1, InSync
<1>4. /\ deps' = deps /\ created' = created /\ started' = started /\ completed' = completed
      /\ failed' = failed /\ outcome' = outcome /\ task' = task /\ crashes' = crashes
  BY <1>1 DEF graphVars, wfLog
<1>5. StartedInLog' = StartedInLog /\ LinkedInLog' = LinkedInLog
  BY <1>4 DEF StartedInLog, LinkedInLog
<1>6. memory \in Memories /\ shown' \in Views
      /\ blamed' \in [Steps -> {"no", "task", "mount", "provisioning"}]
  BY <1>1 DEF Inv, TypeOK
<1>7. CASE UNCHANGED <<script, memory>>
  <2>1. ToDoNothing'
    BY <1>1, <1>3, <1>4, <1>5, <1>7 DEF ToDoNothing, Synced
  <2>2. script' \in Seq(Events) /\ memory' \in Memories /\ memory'.ended = memory.ended
    BY <1>1, <1>6, <1>7
  <2>. QED  BY <1>1, <1>2, <1>6, <2>1, <2>2, Scripted DEF ScriptInv
<1>8. CASE /\ ~memory.terminal /\ memory.completed = Steps
           /\ script' = <<Event("workflow.completed", NoStep)>>
           /\ memory' = [memory EXCEPT !.terminal = TRUE]
  <2>1. script' \in Seq(Events)
    <3>1. Event("workflow.completed", NoStep) \in Events
      BY EventsOfWorkflow DEF WorkflowEvents
    <3>. QED  BY <1>8, <3>1
  <2>2. /\ memory'.started = memory.started /\ memory'.linked = memory.linked
        /\ memory'.completed = memory.completed /\ memory'.failed = memory.failed
        /\ memory'.terminal = TRUE /\ memory'.ended = memory.ended /\ memory' \in Memories
    BY <1>6, <1>8 DEF Memories
  <2>3. ToEnd'
    BY <1>3, <1>4, <1>5, <1>8, <2>2 DEF ToEnd, Synced
  <2>4. ScriptInv'
    BY <1>1, <2>3 DEF ScriptInv
  <2>. QED  BY <1>1, <1>2, <1>6, <2>1, <2>2, <2>4, Scripted
<1>. QED  BY <1>7, <1>8 DEF AdvanceEnds

LEMMA HandleInv == Inv /\ Handle => Inv'
<1> SUFFICES ASSUME Inv, Handle PROVE Inv'
  OBVIOUS
<1>1. /\ script = <<>> /\ pc = "idle" /\ pc' \in {"idle", "advancing"}
      /\ busq # <<>> /\ busq' = Tail(busq) /\ shown' = Shown(shown, Head(busq))
      /\ UNCHANGED <<graphVars, wfLog, task, git, inspecting, crashes, produced>>
  BY DEF Handle, Ready
<1>2. created
  BY <1>1 DEF Inv, CreatedInv
<1>3. Head(busq) \in Events /\ Tells(Head(busq))
  <2>1. busq \in Seq(Events)
    BY DEF Inv, TypeOK
  <2>2. Head(busq) = busq[1] /\ 1 \in 1 .. Len(busq) /\ Head(busq) \in Events
    BY <1>1, <2>1
  <2>. QED  BY <2>2, Zenon DEF Inv, NewsInv
<1>4. PICK e \in Events : e = Head(busq)
  BY <1>3
<1>5. Tells(e) /\ shown' = Shown(shown, e)
  BY <1>1, <1>3, <1>4, Zenon
<1>6. shown' \in Views
  <2>1. shown \in Views
    BY DEF Inv, TypeOK
  <2>2. e.type \in StepEvents => e.step \in Steps
    BY DEF Events, StepEvents, WorkflowEvents
  <2>. QED  BY <1>5, <2>1, <2>2 DEF Shown, Views, NothingShown, StepEvents
<1>7. CASE UNCHANGED <<script, memory, blamed>>
  <2>1. /\ script' = <<>> /\ memory' = memory /\ blamed' = blamed
    BY <1>1, <1>7
  <2>2. memory' \in Memories /\ blamed' \in [Steps -> {"no", "task", "mount", "provisioning"}]
    BY <2>1 DEF Inv, TypeOK
  <2>3. StartedInLog' = StartedInLog /\ LinkedInLog' = LinkedInLog
    BY <1>1 DEF StartedInLog, LinkedInLog, wfLog
  <2>4. ToDoNothing'
    BY <1>1, <2>1, <2>3, InSync DEF ToDoNothing, Synced, wfLog
  <2>. QED  BY <1>1, <1>2, <1>6, <2>1, <2>2, <2>4, Scripted DEF ScriptInv
<1>8. CASE \E s \in memory.linked :
             \/ task[s] = "completed" /\ MarkCompleted(s) /\ UNCHANGED blamed
             \/ task[s] = "failed" /\ MarkFailed(s)
  <2>1. /\ ScriptInv' /\ script' \in Seq(Events) /\ memory' \in Memories
        /\ memory'.ended = memory.ended
        /\ blamed' \in [Steps -> {"no", "task", "mount", "provisioning"}]
    BY <1>1, <1>8, EndInv
  <2>. QED  BY <1>1, <1>2, <1>6, <2>1, Scripted
<1>9. \/ UNCHANGED <<script, memory, blamed>>
      \/ e.type = "task.completed" /\ e.step \in memory.linked /\ MarkCompleted(e.step)
           /\ UNCHANGED blamed
      \/ e.type = "task.failed" /\ e.step \in memory.linked /\ MarkFailed(e.step)
  BY <1>4, Zenon DEF Handle
<1>. QED  BY <1>5, <1>7, <1>8, <1>9, Zenon DEF Tells

LEMMA ResumeReconcilesInv == Inv /\ ResumeReconciles => Inv'
<1> SUFFICES ASSUME Inv, ResumeReconciles PROVE Inv'
  OBVIOUS
<1>1. PICK s \in Steps :
        /\ Unreconciled(s)
        /\ \/ memory.ended[s] = "completed" /\ MarkCompleted(s) /\ UNCHANGED blamed
           \/ memory.ended[s] = "failed" /\ MarkFailed(s)
  BY DEF ResumeReconciles
<1>2. /\ script = <<>> /\ pc = "resuming" /\ pc' = "resuming" /\ busq' = busq /\ shown' = shown
      /\ UNCHANGED <<graphVars, wfLog, task, git, inspecting, crashes, produced>>
  BY DEF ResumeReconciles, Ready
<1>3. created
  BY <1>2 DEF Inv, CreatedInv
<1>4. s \in memory.linked /\ task[s] = memory.ended[s]
  BY <1>1 DEF Unreconciled, Inv, NewsInv
<1>5. /\ ScriptInv' /\ script' \in Seq(Events) /\ memory' \in Memories
      /\ memory'.ended = memory.ended
      /\ blamed' \in [Steps -> {"no", "task", "mount", "provisioning"}]
  BY <1>1, <1>2, <1>4, EndInv
<1>6. shown' \in Views
  BY <1>2 DEF Inv, TypeOK
<1>. QED  BY <1>2, <1>3, <1>5, <1>6, Scripted

LEMMA ResumeAdvancesInv == Inv /\ ResumeAdvances => Inv'
<1> SUFFICES ASSUME Inv, ResumeAdvances PROVE Inv'
  OBVIOUS
<1>1. /\ script = <<>> /\ script' = <<>> /\ pc = "resuming" /\ pc' = "advancing"
      /\ busq' = busq /\ shown' = shown /\ memory' = memory /\ blamed' = blamed
      /\ UNCHANGED <<graphVars, wfLog, task, git, inspecting, crashes, produced>>
  BY DEF ResumeAdvances, Ready, ghostVars
<1>2. created
  BY <1>1 DEF Inv, CreatedInv
<1>3. /\ shown' \in Views /\ memory' \in Memories
      /\ blamed' \in [Steps -> {"no", "task", "mount", "provisioning"}]
  BY <1>1 DEF Inv, TypeOK
<1>4. ToDoNothing'
  <2>1. StartedInLog' = StartedInLog /\ LinkedInLog' = LinkedInLog
    BY <1>1 DEF StartedInLog, LinkedInLog, wfLog
  <2>. QED  BY <1>1, <2>1, InSync DEF ToDoNothing, Synced, wfLog
<1>. QED  BY <1>1, <1>2, <1>3, <1>4, Scripted DEF ScriptInv

-----------------------------------------------------------------------------
(* The client, the dispatcher, crashes and restarts.                       *)

(* The subscription has one more event, or not.                            *)
LEMMA NewsKept ==
  ASSUME busq \in Seq(Events), NewsInv, memory' = memory,
         memory.ended \in [Steps -> {"none", "completed", "failed"}],
         \A s \in Steps : task[s] \in {"completed", "failed"} => task'[s] = task[s],
         busq' = busq \/ \E e \in Events : busq' = Append(busq, e) /\ Tells(e)'
  PROVE  busq' \in Seq(Events) /\ NewsInv'
<1>1. CASE busq' = busq
  <2>1. \A i \in 1 .. Len(busq') : Tells(busq[i])'
    BY <1>1 DEF NewsInv, Tells
  <2>2. \A s \in Steps : memory'.ended[s] # "none" => task'[s] = memory'.ended[s]
    BY DEF NewsInv
  <2>. QED  BY <1>1, <2>1, <2>2 DEF NewsInv
<1>2. CASE \E e \in Events : busq' = Append(busq, e) /\ Tells(e)'
  <2>1. PICK e \in Events : busq' = Append(busq, e) /\ Tells(e)'
    BY <1>2
  <2>2. NewsInv'
    BY <2>1, NewsAppended
  <2>. QED  BY <2>1, <2>2
<1>. QED  BY <1>1, <1>2

(* A queued or running task moves on; nothing else in the log does.        *)
LEMMA TaskMoves ==
  ASSUME Inv, Ready("idle"),
         NEW s \in Steps, NEW x \in {"dispatched", "completed", "failed", "cancelled"},
         task[s] \in {"queued", "dispatched"}, task' = [task EXCEPT ![s] = x],
         x = "dispatched" => \A r \in Steps : task[r] # "dispatched",
         UNCHANGED <<unchangedByTask, git>>,
         inspecting' \in Steps \cup {NoStep}, produced' \in [Steps -> GitResults],
         busq' = busq \/ \E e \in Events : busq' = Append(busq, e) /\ Tells(e)'
  PROVE  Inv'
<1>1. /\ deps' = deps /\ inherits' = inherits /\ created' = created /\ started' = started
      /\ completed' = completed /\ failed' = failed /\ outcome' = outcome /\ git' = git
      /\ pc' = pc /\ script' = script /\ memory' = memory /\ shown' = shown
      /\ crashes' = crashes /\ blamed' = blamed /\ script = <<>> /\ pc = "idle"
  BY DEF unchangedByTask, graphVars, wfLog, Ready
<1>2. LogTypes /\ LogInv
  BY Types DEF Inv
<1>3. \A r \in Steps : task[r] \in {"completed", "failed"} => task'[r] = task[r]
  BY <1>2 DEF LogTypes
<1>4. busq' \in Seq(Events) /\ NewsInv'
  <2>1. busq \in Seq(Events) /\ memory.ended \in [Steps -> {"none", "completed", "failed"}]
    BY DEF Inv, TypeOK, Memories
  <2>. QED  BY <1>1, <1>3, <2>1, NewsKept DEF Inv
<1>5. TypeOK'
  BY <1>1, <1>4 DEF Inv, TypeOK
<1>6. LogInv'
  BY <1>1, <1>2 DEF LogTypes, LogInv
<1>7. CreatedInv'
  <2>1. created
    BY <1>2 DEF Inv, CreatedInv, LogInv
  <2>. QED  BY <1>1, <2>1 DEF CreatedInv
<1>8. ScriptInv'
  <2>1. StartedInLog' = StartedInLog /\ LinkedInLog' = LinkedInLog
    BY <1>1 DEF StartedInLog, LinkedInLog
  <2>2. ToDoNothing'
    BY <1>1, <2>1, InSync DEF ToDoNothing, Synced
  <2>. QED  BY <2>2 DEF ScriptInv
<1>9. ProcessInv'
  BY <1>1 DEF Inv, ProcessInv, Calm
<1>. QED  BY <1>4, <1>5, <1>6, <1>7, <1>8, <1>9 DEF Inv

LEMMA TaskRunsInv == ASSUME Inv, NEW s \in Steps, TaskRuns(s) PROVE Inv'
<1>1. inspecting' \in Steps \cup {NoStep} /\ produced' \in [Steps -> GitResults]
  BY DEF TaskRuns, Inv, TypeOK
<1>. QED  BY <1>1, TaskMoves DEF TaskRuns, Between, Ready

LEMMA TaskCompletesInv == ASSUME Inv, NEW s \in Steps, TaskCompletes(s) PROVE Inv'
<1>1. Event("task.completed", s) \in Events
  BY EventsOfSteps DEF StepEvents
<1>2. Tells(Event("task.completed", s))'
  BY DEF TaskCompletes, Tells, Event, Inv, TypeOK
<1>3. produced' \in [Steps -> GitResults]
  <2>1. PICK w \in Workspaces : produced' = [produced EXCEPT ![s] = Inspected(w)]
    BY DEF TaskCompletes
  <2>2. Inspected(w) \in GitResults
    BY DEF Inspected, GitResults
  <2>. QED  BY <2>1, <2>2 DEF Inv, TypeOK
<1>4. inspecting' \in Steps \cup {NoStep}
  BY DEF TaskCompletes
<1>5. \E e \in Events : busq' = Append(busq, e) /\ Tells(e)'
  BY <1>1, <1>2 DEF TaskCompletes
<1>. QED  BY <1>3, <1>4, <1>5, TaskMoves DEF TaskCompletes, Between, Ready

LEMMA TaskFailsInv == ASSUME Inv, NEW s \in Steps, TaskFails(s) PROVE Inv'
<1>1. Event("task.failed", s) \in Events
  BY EventsOfSteps DEF StepEvents
<1>2. Tells(Event("task.failed", s))'
  BY DEF TaskFails, Tells, Event, Inv, TypeOK
<1>3. inspecting' \in Steps \cup {NoStep} /\ produced' \in [Steps -> GitResults]
  BY DEF TaskFails, Inv, TypeOK
<1>4. \E e \in Events : busq' = Append(busq, e) /\ Tells(e)'
  BY <1>1, <1>2 DEF TaskFails
<1>. QED  BY <1>3, <1>4, TaskMoves DEF TaskFails, Between, Ready

LEMMA TaskCancelledInv == ASSUME Inv, NEW s \in Steps, TaskCancelled(s) PROVE Inv'
<1>1. inspecting' \in Steps \cup {NoStep} /\ produced' \in [Steps -> GitResults]
  BY DEF TaskCancelled, Inv, TypeOK
<1>. QED  BY <1>1, TaskMoves DEF TaskCancelled, Between, Ready

LEMMA GitInspectedInv == ASSUME Inv, GitInspected PROVE Inv'
<1>1. /\ deps' = deps /\ inherits' = inherits /\ created' = created /\ started' = started
      /\ completed' = completed /\ failed' = failed /\ outcome' = outcome /\ task' = task
      /\ pc' = pc /\ busq' = busq /\ script' = script /\ memory' = memory /\ shown' = shown
      /\ crashes' = crashes /\ produced' = produced /\ blamed' = blamed
      /\ inspecting' = NoStep /\ git' = [git EXCEPT ![inspecting] = produced[inspecting]]
      /\ inspecting # NoStep /\ script = <<>> /\ pc = "idle"
  BY DEF GitInspected, unchangedByTask, graphVars, wfLog, Between
<1>2. TypeOK'
  BY <1>1 DEF Inv, TypeOK
<1>3. LogInv' /\ CreatedInv' /\ ProcessInv'
  BY <1>1 DEF Inv, LogInv, CreatedInv, ProcessInv, Calm
<1>4. NewsInv'
  BY <1>1 DEF Inv, NewsInv, Tells
<1>5. ScriptInv'
  <2>1. StartedInLog' = StartedInLog /\ LinkedInLog' = LinkedInLog
    BY <1>1 DEF StartedInLog, LinkedInLog
  <2>2. ToDoNothing'
    BY <1>1, <2>1, InSync DEF ToDoNothing, Synced
  <2>. QED  BY <2>2 DEF ScriptInv
<1>. QED  BY <1>2, <1>3, <1>4, <1>5 DEF Inv

LEMMA CreateInv == ASSUME Inv, Create PROVE Inv'
<1>1. /\ deps' = deps /\ inherits' = inherits /\ started' = started
      /\ completed' = completed /\ failed' = failed /\ outcome' = outcome /\ task' = task
      /\ git' = git /\ inspecting' = inspecting
      /\ pc' = pc /\ script' = script /\ memory' = memory /\ shown' = shown
      /\ crashes' = crashes /\ produced' = produced /\ blamed' = blamed
      /\ busq' = Append(busq, Event("workflow.created", NoStep))
      /\ script = <<>> /\ pc = "idle"
  BY DEF Create, graphVars, ghostVars, Between
<1>2. created' = TRUE
  BY DEF Create
<1>3. busq' \in Seq(Events) /\ NewsInv'
  <2>1. busq \in Seq(Events) /\ memory.ended \in [Steps -> {"none", "completed", "failed"}]
    BY DEF Inv, TypeOK, Memories
  <2>2. Event("workflow.created", NoStep) \in Events
    BY EventsOfWorkflow DEF WorkflowEvents
  <2>3. Tells(Event("workflow.created", NoStep))'
    BY DEF Tells, Event
  <2>4. \E e \in Events : busq' = Append(busq, e) /\ Tells(e)'
    BY <1>1, <2>2, <2>3
  <2>. QED  BY <1>1, <2>1, <2>4, NewsKept DEF Inv
<1>4. TypeOK'
  <2>1. created' \in BOOLEAN
    BY <1>2
  <2>. QED  BY <1>1, <1>3, <2>1 DEF Inv, TypeOK
<1>5. LogInv' /\ ProcessInv'
  BY <1>1 DEF Inv, LogInv, ProcessInv, Calm
<1>6. CreatedInv'
  BY <1>2 DEF CreatedInv
<1>7. ScriptInv'
  <2>1. StartedInLog' = StartedInLog /\ LinkedInLog' = LinkedInLog
    BY <1>1 DEF StartedInLog, LinkedInLog
  <2>2. ToDoNothing'
    BY <1>1, <2>1, InSync DEF ToDoNothing, Synced
  <2>. QED  BY <2>2 DEF ScriptInv
<1>. QED  BY <1>3, <1>4, <1>5, <1>6, <1>7 DEF Inv

LEMMA CrashInv == ASSUME Inv, Crash PROVE Inv'
<1>1. /\ deps' = deps /\ inherits' = inherits /\ created' = created /\ started' = started
      /\ completed' = completed /\ failed' = failed /\ outcome' = outcome /\ task' = task
      /\ git' = git /\ produced' = produced /\ blamed' = blamed
      /\ crashes' = crashes + 1 /\ crashes < MaxCrashes /\ pc' = "down"
      /\ memory' = NoMemory /\ script' = <<>> /\ busq' = <<>> /\ shown' = NothingShown
      /\ inspecting' = NoStep
  BY DEF Crash, graphVars, wfLog, ghostVars
<1>2. crashes' \in 0 .. MaxCrashes /\ crashes' > 0
  <2>1. crashes \in 0 .. MaxCrashes /\ MaxCrashes \in Nat
    BY CoordinatorAssumption DEF Inv, TypeOK
  <2>. QED  BY <1>1, <2>1
<1>3. memory' \in Memories /\ shown' \in Views
  BY <1>1 DEF NoMemory, NothingShown, Memories, Views
<1>4. busq' \in Seq(Events) /\ script' \in Seq(Events)
  BY <1>1
<1>5. TypeOK'
  BY <1>1, <1>2, <1>3, <1>4 DEF Inv, TypeOK
<1>6. LogInv'
  BY <1>1 DEF Inv, LogInv
<1>7. CreatedInv'
  BY <1>1 DEF Inv, CreatedInv
<1>8. NewsInv'
  BY <1>1 DEF NewsInv, NoMemory
<1>9. ScriptInv'
  BY <1>1 DEF ScriptInv, ToDoNothing
<1>10. ProcessInv'
  BY <1>1, <1>2 DEF ProcessInv, Calm
<1>. QED  BY <1>5, <1>6, <1>7, <1>8, <1>9, <1>10 DEF Inv

(* A restart remembers exactly what the log says.                          *)
LEMMA RestartInv == ASSUME Inv, Restart PROVE Inv'
<1>1. /\ deps' = deps /\ inherits' = inherits /\ created' = created /\ started' = started
      /\ completed' = completed /\ failed' = failed /\ outcome' = outcome
      /\ git' = git /\ busq' = busq /\ script' = script /\ inspecting' = inspecting
      /\ crashes' = crashes /\ produced' = produced /\ blamed' = blamed
      /\ pc = "down"
      /\ memory' = Remembered(task') /\ shown' = Replayed
  BY DEF Restart, graphVars, wfLog, ghostVars
<1>2. task' = [s \in Steps |-> IF task[s] = "dispatched" THEN "failed" ELSE task[s]]
  BY DEF Restart
<1>3. pc' = "idle" \/ (pc' = "resuming" /\ created)
  BY DEF Restart
<1>4. script = <<>> /\ busq = <<>> /\ crashes > 0
  BY <1>1 DEF Inv, ScriptInv, ToDoNothing, ProcessInv
<1>5. LogTypes /\ LogInv
  BY Types DEF Inv
<1>6. task' \in [Steps -> {"absent", "queued", "dispatched", "completed", "failed", "cancelled"}]
  BY <1>2, <1>5 DEF LogTypes
<1>7. /\ memory'.started = StartedInLog' /\ memory'.linked = LinkedInLog'
      /\ memory'.completed = completed' /\ memory'.failed = failed'
      /\ memory'.ended = [s \in Steps |-> IF task'[s] \in {"completed", "failed"} THEN task'[s]
                                          ELSE "none"]
      /\ memory' \in Memories
  BY <1>1, <1>5 DEF Remembered, StartedInLog, LinkedInLog, LogTypes, Memories
<1>8. memory'.terminal <=> outcome' # "none"
  BY <1>1, Zenon DEF Remembered
<1>9. shown' \in Views
  <2>1. created \in BOOLEAN
    BY DEF Inv, TypeOK
  <2>. QED  BY <1>1, <1>5, <2>1 DEF Replayed, Views, LogTypes
<1>10. TypeOK'
  BY <1>1, <1>3, <1>6, <1>7, <1>9 DEF Inv, TypeOK
<1>11. LogInv'
  BY <1>1, <1>2, <1>5 DEF LogTypes, LogInv
<1>12. CreatedInv'
  BY <1>1, <1>3, <1>4 DEF Inv, CreatedInv
<1>13. NewsInv'
  BY <1>1, <1>4, <1>7 DEF NewsInv
<1>14. ScriptInv'
  BY <1>1, <1>4, <1>7, <1>8 DEF ScriptInv, ToDoNothing, Synced
<1>15. ProcessInv'
  BY <1>1, <1>3, <1>4 DEF ProcessInv, Calm
<1>. QED  BY <1>10, <1>11, <1>12, <1>13, <1>14, <1>15 DEF Inv

LEMMA InitInv == ASSUME Init PROVE Inv
<1>1. crashes \in 0 .. MaxCrashes
  BY CoordinatorAssumption DEF Init
<1>2. busq \in Seq(Events) /\ script \in Seq(Events)
  BY DEF Init
<1>3. memory \in Memories /\ shown \in Views
  BY DEF Init, NoMemory, NothingShown, Memories, Views
<1>4. created \in BOOLEAN
  BY DEF Init
<1>5. TypeOK
  BY <1>1, <1>2, <1>3, <1>4 DEF Init, TypeOK, GitResults
<1>6. LogInv /\ ProcessInv
  BY DEF Init, LogInv, ProcessInv, Calm
<1>7. CreatedInv
  BY DEF Init, CreatedInv
<1>8. NewsInv
  BY DEF Init, NewsInv, NoMemory
<1>9. ScriptInv
  <2>1. ~memory.terminal
    BY DEF Init, NoMemory
  <2>. QED  BY <2>1 DEF Init, NoMemory, ScriptInv, ToDoNothing, Synced, StartedInLog, LinkedInLog
<1>. QED  BY <1>5, <1>6, <1>7, <1>8, <1>9 DEF Inv

LEMMA StutterInv == ASSUME Inv, UNCHANGED vars PROVE Inv'
<1>1. /\ deps' = deps /\ inherits' = inherits /\ created' = created /\ started' = started
      /\ completed' = completed /\ failed' = failed /\ outcome' = outcome /\ task' = task
      /\ git' = git /\ pc' = pc /\ busq' = busq /\ script' = script /\ memory' = memory
      /\ shown' = shown /\ inspecting' = inspecting /\ crashes' = crashes
      /\ produced' = produced /\ blamed' = blamed
  BY DEF vars, graphVars, wfLog, ghostVars
<1>2. TypeOK'
  BY <1>1 DEF Inv, TypeOK
<1>3. LogInv' /\ CreatedInv' /\ ProcessInv'
  BY <1>1 DEF Inv, LogInv, CreatedInv, ProcessInv, Calm
<1>4. NewsInv'
  BY <1>1 DEF Inv, NewsInv, Tells
<1>5. ScriptInv'
  <2>1. StartedInLog' = StartedInLog /\ LinkedInLog' = LinkedInLog
    BY <1>1 DEF StartedInLog, LinkedInLog
  <2>2. CASE ToDoNothing
    BY <1>1, <2>1, <2>2 DEF ScriptInv, ToDoNothing, Synced
  <2>3. CASE ToEnd /\ pc # "down"
    BY <1>1, <2>1, <2>3 DEF ScriptInv, ToEnd, Synced
  <2>4. CASE pc # "down" /\ \E s \in Steps :
               \/ ToStart(s) \/ ToQueue(s) \/ ToRefuse(s) \/ ToFailTask(s) \/ ToGiveUp(s)
               \/ ToFailBoth(s) \/ ToFailStep(s) \/ ToFailWorkflow(s) \/ ToComplete(s)
    <3>1. PICK s \in Steps :
               \/ ToStart(s) \/ ToQueue(s) \/ ToRefuse(s) \/ ToFailTask(s) \/ ToGiveUp(s)
               \/ ToFailBoth(s) \/ ToFailStep(s) \/ ToFailWorkflow(s) \/ ToComplete(s)
      BY <2>4
    <3>2. \/ ToStart(s)' \/ ToQueue(s)' \/ ToRefuse(s)' \/ ToFailTask(s)' \/ ToGiveUp(s)'
          \/ ToFailBoth(s)' \/ ToFailStep(s)' \/ ToFailWorkflow(s)' \/ ToComplete(s)'
      BY <1>1, <2>1, <3>1 DEF ToStart, ToQueue, ToRefuse, ToFailTask, ToGiveUp, ToFailBoth,
         ToFailStep, ToFailWorkflow, ToComplete, Fresh, Open, Calm, Synced
    <3>. QED  BY <1>1, <2>4, <3>2 DEF ScriptInv
  <2>. QED  BY <2>2, <2>3, <2>4 DEF Inv, ScriptInv
<1>. QED  BY <1>2, <1>3, <1>4, <1>5 DEF Inv

LEMMA NextInv == Inv /\ [Next]_vars => Inv'
<1> SUFFICES ASSUME Inv, [Next]_vars PROVE Inv'
  OBVIOUS
<1>1. CASE CoordinatorStep
  BY <1>1, EmitInv, AdvanceStartsInv, AdvanceEndsInv, HandleInv, ResumeReconcilesInv,
     ResumeAdvancesInv DEF CoordinatorStep
<1>2. CASE Create
  BY <1>2, CreateInv
<1>3. CASE DispatcherStep
  BY <1>3, TaskRunsInv, TaskCompletesInv, TaskFailsInv, GitInspectedInv DEF DispatcherStep
<1>4. CASE \E s \in Steps : TaskCancelled(s)
  BY <1>4, TaskCancelledInv
<1>5. CASE Crash
  BY <1>5, CrashInv
<1>6. CASE Restart
  BY <1>6, RestartInv
<1>7. CASE UNCHANGED vars
  BY <1>7, StutterInv
<1>. QED  BY <1>1, <1>2, <1>3, <1>4, <1>5, <1>6, <1>7 DEF Next, Quiet

(* The invariant of the workflow: in particular every variable has its     *)
(* type.                                                                   *)
THEOREM InvHolds == Spec => []Inv
<1>1. Init => Inv
  BY InitInv
<1>2. Inv /\ [Next]_vars => Inv'
  BY NextInv
<1>. QED  BY <1>1, <1>2, PTL DEF Spec

-----------------------------------------------------------------------------
(* The refinement.                                                         *)

Stages == [s \in Steps |-> Stage(s)]

(* A step that begins, and one that ends.                                  *)
LEMMA StageStarts ==
  ASSUME Inv, NEW s \in Steps, NEW x \in {"started", "started unprovisioned"},
         started[s] = "no", started' = [started EXCEPT ![s] = x],
         completed' = completed, failed' = failed
  PROVE  Stages[s] = "pending" /\ Stages' = [Stages EXCEPT ![s] = "started"]
<1>1. s \notin completed \cup failed /\ LogTypes
  BY Types DEF Inv, LogInv
<1>2. Stage(s) = "pending" /\ Stage(s)' = "started"
  BY <1>1 DEF Stage, LogTypes
<1>3. \A r \in Steps \ {s} : Stage(r)' = Stage(r)
  BY <1>1 DEF Stage, LogTypes
<1>. QED  BY <1>2, <1>3 DEF Stages

LEMMA StageCompletes ==
  ASSUME Inv, NEW s \in Steps, Open(s),
         started' = started, completed' = completed \cup {s}, failed' = failed
  PROVE  Stages[s] = "started" /\ Stages' = [Stages EXCEPT ![s] = "completed"]
<1>1. Stage(s) = "started" /\ Stage(s)' = "completed"
  BY DEF Stage, Open
<1>2. \A r \in Steps \ {s} : Stage(r)' = Stage(r)
  BY DEF Stage
<1>. QED  BY <1>1, <1>2 DEF Stages

LEMMA StageFails ==
  ASSUME Inv, NEW s \in Steps, Open(s),
         started' = started, completed' = completed, failed' = failed \cup {s}
  PROVE  Stages[s] = "started" /\ Stages' = [Stages EXCEPT ![s] = "failed"]
<1>1. Stage(s) = "started" /\ Stage(s)' = "failed"
  BY DEF Stage, Open
<1>2. \A r \in Steps \ {s} : Stage(r)' = Stage(r)
  BY DEF Stage
<1>. QED  BY <1>1, <1>2 DEF Stages

LEMMA StageSame ==
  ASSUME started' = started, completed' = completed, failed' = failed
  PROVE  Stages' = Stages
  BY DEF Stages, Stage

LEMMA StagesInLog ==
  ASSUME Inv
  PROVE  /\ {s \in Steps : Stages[s] = "failed"} = failed
         /\ {s \in Steps : Stages[s] = "completed"} = completed
<1>1. LogTypes /\ LogInv
  BY Types DEF Inv
<1>2. \A s \in Steps : Stages[s] = Stage(s)
  BY DEF Stages
<1>3. \A s \in Steps : Stage(s) = "failed" <=> s \in failed
  BY <1>1 DEF Stage, LogInv
<1>4. \A s \in Steps : Stage(s) = "completed" <=> s \in completed
  BY <1>1 DEF Stage, LogInv
<1>. QED  BY <1>1, <1>2, <1>3, <1>4 DEF LogTypes

(* What the emits of a handler are to the lifecycle.                       *)
LEMMA StartMaps ==
  ASSUME Inv, script # <<>>, NEW s \in Steps, NEW x \in {"started", "started unprovisioned"},
         Fresh(s), started' = [started EXCEPT ![s] = x],
         completed' = completed, failed' = failed, outcome' = outcome, task' = task,
         deps' = deps, created' = created, crashes' = crashes
  PROVE  Lifecycle!Start(s)
<1>1. created
  BY DEF Inv, CreatedInv
<1>2. Stages[s] = "pending" /\ Stages' = [Stages EXCEPT ![s] = "started"]
  BY StageStarts DEF Fresh
<1>3. /\ {r \in Steps : Stages[r] = "failed"} = failed
      /\ {r \in Steps : Stages[r] = "completed"} = completed
  BY StagesInLog
<1>4. failed = {} \/ crashes > 0
  BY DEF Fresh, Calm
<1>. QED  BY <1>1, <1>2, <1>3, <1>4
          DEF Fresh, Stages, Lifecycle!Start, Lifecycle!Advance, Lifecycle!InStage

LEMMA QueueMaps ==
  ASSUME Inv, NEW s \in Steps, Open(s), task[s] = "absent", outcome = "none",
         task' = [task EXCEPT ![s] = "queued"],
         started' = started, completed' = completed, failed' = failed, outcome' = outcome,
         deps' = deps, created' = created, crashes' = crashes
  PROVE  Lifecycle!Queue(s)
<1>1. Stages' = Stages
  BY StageSame
<1>2. Stages[s] = "started"
  BY DEF Stages, Stage, Open
<1>. QED  BY <1>1, <1>2 DEF Stages, Lifecycle!Queue, Lifecycle!Move

LEMMA RefuseMaps ==
  ASSUME Inv, NEW s \in Steps, Open(s), task[s] = "absent",
         task' = [task EXCEPT ![s] = "failed"],
         started' = started, completed' = completed, failed' = failed, outcome' = outcome,
         deps' = deps, created' = created, crashes' = crashes
  PROVE  Lifecycle!Refuse(s)
<1>1. Stages' = Stages
  BY StageSame
<1>2. Stages[s] = "started"
  BY DEF Stages, Stage, Open
<1>. QED  BY <1>1, <1>2 DEF Stages, Lifecycle!Refuse, Lifecycle!Move

LEMMA CompleteMaps ==
  ASSUME Inv, NEW s \in Steps, Open(s), task[s] = "completed",
         completed' = completed \cup {s}, failed' = failed,
         started' = started, task' = task, outcome' = outcome,
         deps' = deps, created' = created, crashes' = crashes
  PROVE  Lifecycle!Complete(s)
<1>1. Stages[s] = "started" /\ Stages' = [Stages EXCEPT ![s] = "completed"]
  BY StageCompletes
<1>. QED  BY <1>1 DEF Stages, Lifecycle!Complete, Lifecycle!Advance

LEMMA FailMaps ==
  ASSUME Inv, NEW s \in Steps, Open(s), task[s] \in {"absent", "failed"},
         failed' = failed \cup {s}, completed' = completed,
         started' = started, task' = task, outcome' = outcome,
         deps' = deps, created' = created, crashes' = crashes
  PROVE  Lifecycle!Fail(s)
<1>1. Stages[s] = "started" /\ Stages' = [Stages EXCEPT ![s] = "failed"]
  BY StageFails
<1>. QED  BY <1>1 DEF Stages, Lifecycle!Fail, Lifecycle!Advance

LEMMA EndMaps ==
  ASSUME Inv, outcome = "none",
         \/ completed = Steps /\ outcome' = "completed"
         \/ failed # {} /\ outcome' = "failed",
         started' = started, completed' = completed, failed' = failed, task' = task,
         deps' = deps, created' = created, crashes' = crashes
  PROVE  Lifecycle!End
<1>1. Stages' = Stages
  BY StageSame
<1>2. /\ {r \in Steps : Stages[r] = "failed"} = failed
      /\ {r \in Steps : Stages[r] = "completed"} = completed
  BY StagesInLog
<1>. QED  BY <1>1, <1>2 DEF Stages, Lifecycle!End, Lifecycle!Conclude, Lifecycle!InStage

LEMMA SameMaps ==
  ASSUME started' = started, completed' = completed, failed' = failed, task' = task,
         outcome' = outcome, deps' = deps, created' = created, (crashes > 0)' = (crashes > 0)
  PROVE  UNCHANGED Lifecycle!vars
<1>1. Stages' = Stages
  BY StageSame
<1>. QED  BY <1>1 DEF Stages, Lifecycle!vars

LEMMA EmitMaps == Inv /\ EmitNext => Lifecycle!Next
<1> SUFFICES ASSUME Inv, EmitNext PROVE Lifecycle!Next
  OBVIOUS
<1>1. /\ script # <<>> /\ deps' = deps /\ created' = created /\ crashes' = crashes
      /\ Record(Head(script))
  BY DEF EmitNext, graphVars
<1>2. /\ script = <<Event("workflow.completed", NoStep)>> => Record(Event("workflow.completed", NoStep))
      /\ \A s \in Steps :
           /\ ToStart(s) \/ ToRefuse(s) => Record(Event("started", s))
           /\ ToQueue(s) => Record(Event("task.queued", s))
           /\ ToFailTask(s) => Record(Event("task.failed", s))
           /\ ToGiveUp(s) => Record(Event("started unprovisioned", s))
           /\ ToFailBoth(s) \/ ToFailStep(s) => Record(Event("step.failed", s))
           /\ ToFailWorkflow(s) => Record(Event("workflow.failed", s))
           /\ ToComplete(s) => Record(Event("step.completed", s))
  <2>1. \A s \in Steps : ToStart(s) => Head(script) = Event("started", s)
    BY DEF ToStart
  <2>2. \A s \in Steps : ToRefuse(s) => Head(script) = Event("started", s)
    BY DEF ToRefuse
  <2>3. \A s \in Steps : ToQueue(s) => Head(script) = Event("task.queued", s)
    BY DEF ToQueue
  <2>4. \A s \in Steps : ToFailTask(s) => Head(script) = Event("task.failed", s)
    BY DEF ToFailTask
  <2>5. \A s \in Steps : ToGiveUp(s) => Head(script) = Event("started unprovisioned", s)
    <3>1. ASSUME NEW s \in Steps, ToGiveUp(s)
          PROVE  Head(script) = Event("started unprovisioned", s)
      <4>1. script = <<Event("started unprovisioned", s), Event("step.failed", s),
                       Event("workflow.failed", s)>>
        BY <3>1, Zenon DEF ToGiveUp
      <4>. QED  BY <4>1, FirstOfThree, Zenon
    <3>. QED  BY <3>1, Zenon
  <2>6. \A s \in Steps : ToFailBoth(s) => Head(script) = Event("step.failed", s)
    BY DEF ToFailBoth
  <2>7. \A s \in Steps : ToFailStep(s) => Head(script) = Event("step.failed", s)
    BY DEF ToFailStep
  <2>8. \A s \in Steps : ToFailWorkflow(s) => Head(script) = Event("workflow.failed", s)
    BY DEF ToFailWorkflow
  <2>9. \A s \in Steps : ToComplete(s) => Head(script) = Event("step.completed", s)
    BY DEF ToComplete
  <2>10. script = <<Event("workflow.completed", NoStep)>>
           => Head(script) = Event("workflow.completed", NoStep)
    OBVIOUS
  <2>. QED  BY <1>1, <2>1, <2>2, <2>3, <2>4, <2>5, <2>6, <2>7, <2>8, <2>9, <2>10, Zenon
<1>3. CASE ToEnd
  <2>1. Record(Event("workflow.completed", NoStep)) /\ outcome = "none" /\ completed = Steps
    BY <1>2, <1>3 DEF ToEnd
  <2>2. /\ outcome' = "completed" /\ started' = started /\ completed' = completed
        /\ failed' = failed /\ task' = task
    BY <2>1 DEF Record, Event
  <2>. QED  BY <1>1, <2>1, <2>2, EndMaps DEF Lifecycle!Next
<1>4. ASSUME NEW s \in Steps, ToStart(s) \/ ToRefuse(s) \/ ToGiveUp(s) PROVE Lifecycle!Next
  <2>1. Fresh(s)
    BY <1>4 DEF ToStart, ToRefuse, ToGiveUp
  <2>2. \E x \in {"started", "started unprovisioned"} : Record(Event(x, s))
    BY <1>2, <1>4
  <2>3. PICK x \in {"started", "started unprovisioned"} :
          /\ started' = [started EXCEPT ![s] = x] /\ completed' = completed
          /\ failed' = failed /\ task' = task /\ outcome' = outcome
    BY <2>2 DEF Record, Event
  <2>. QED  BY <1>1, <2>1, <2>3, StartMaps DEF Lifecycle!Next
<1>5. ASSUME NEW s \in Steps, ToQueue(s) PROVE Lifecycle!Next
  <2>1. Record(Event("task.queued", s))
    BY <1>2, <1>5
  <2>2. /\ task' = [task EXCEPT ![s] = "queued"] /\ started' = started
        /\ completed' = completed /\ failed' = failed /\ outcome' = outcome
    BY <2>1 DEF Record, Event
  <2>. QED  BY <1>1, <1>5, <2>2, QueueMaps DEF ToQueue, Lifecycle!Next
<1>6. ASSUME NEW s \in Steps, ToFailTask(s) PROVE Lifecycle!Next
  <2>1. Record(Event("task.failed", s))
    BY <1>2, <1>6
  <2>2. /\ task' = [task EXCEPT ![s] = "failed"] /\ started' = started
        /\ completed' = completed /\ failed' = failed /\ outcome' = outcome
    BY <2>1 DEF Record, Event
  <2>. QED  BY <1>1, <1>6, <2>2, RefuseMaps DEF ToFailTask, Lifecycle!Next
<1>7. ASSUME NEW s \in Steps, ToFailBoth(s) \/ ToFailStep(s) PROVE Lifecycle!Next
  <2>1. Record(Event("step.failed", s))
    BY <1>2, <1>7
  <2>2. /\ failed' = failed \cup {s} /\ started' = started
        /\ completed' = completed /\ task' = task /\ outcome' = outcome
    BY <2>1 DEF Record, Event
  <2>. QED  BY <1>1, <1>7, <2>2, FailMaps DEF ToFailBoth, ToFailStep, Lifecycle!Next
<1>8. ASSUME NEW s \in Steps, ToFailWorkflow(s) PROVE Lifecycle!Next
  <2>1. Record(Event("workflow.failed", s)) /\ failed # {} /\ outcome = "none"
    BY <1>2, <1>8 DEF ToFailWorkflow
  <2>2. /\ outcome' = "failed" /\ started' = started /\ completed' = completed
        /\ failed' = failed /\ task' = task
    BY <2>1 DEF Record, Event
  <2>. QED  BY <1>1, <2>1, <2>2, EndMaps DEF Lifecycle!Next
<1>9. ASSUME NEW s \in Steps, ToComplete(s) PROVE Lifecycle!Next
  <2>1. Record(Event("step.completed", s))
    BY <1>2, <1>9
  <2>2. /\ completed' = completed \cup {s} /\ started' = started
        /\ failed' = failed /\ task' = task /\ outcome' = outcome
    BY <2>1 DEF Record, Event
  <2>. QED  BY <1>1, <1>9, <2>2, CompleteMaps DEF ToComplete, Lifecycle!Next
<1>10. \/ ToEnd
       \/ \E s \in Steps :
            \/ ToStart(s) \/ ToQueue(s) \/ ToRefuse(s) \/ ToFailTask(s) \/ ToGiveUp(s)
            \/ ToFailBoth(s) \/ ToFailStep(s) \/ ToFailWorkflow(s) \/ ToComplete(s)
  BY DEF EmitNext, Inv, ScriptInv, ToDoNothing
<1>. QED  BY <1>3, <1>4, <1>5, <1>6, <1>7, <1>8, <1>9, <1>10

(* The task of a step moves on.                                            *)
LEMMA MoveMaps ==
  ASSUME Inv, NEW s \in Steps, NEW from, NEW to, UNCHANGED unchangedByTask,
         task[s] = from, task' = [task EXCEPT ![s] = to]
  PROVE  Lifecycle!Move(s, from, to)
<1>1. /\ deps' = deps /\ created' = created /\ started' = started /\ completed' = completed
      /\ failed' = failed /\ outcome' = outcome /\ crashes' = crashes
  BY DEF unchangedByTask, graphVars, wfLog
<1>2. Stages' = Stages
  BY <1>1, StageSame
<1>. QED  BY <1>1, <1>2 DEF Stages, Lifecycle!Move

LEMMA DispatcherMaps == Inv /\ DispatcherStep => [Lifecycle!Next]_(Lifecycle!vars)
<1> SUFFICES ASSUME Inv, DispatcherStep PROVE [Lifecycle!Next]_(Lifecycle!vars)
  OBVIOUS
<1>1. ASSUME NEW s \in Steps, TaskRuns(s) PROVE Lifecycle!Next
  <2>1. Lifecycle!Move(s, "queued", "dispatched")
    BY <1>1, MoveMaps DEF TaskRuns
  <2>2. \A r \in Steps : task[r] # "dispatched"
    BY <1>1 DEF TaskRuns
  <2>. QED  BY <2>1, <2>2 DEF Lifecycle!Next, Lifecycle!Run
<1>2. ASSUME NEW s \in Steps, TaskCompletes(s) PROVE Lifecycle!Next
  <2>1. Lifecycle!Move(s, "dispatched", "completed")
    BY <1>2, MoveMaps DEF TaskCompletes
  <2>. QED  BY <2>1 DEF Lifecycle!Next, Lifecycle!Finish
<1>3. ASSUME NEW s \in Steps, TaskFails(s) PROVE Lifecycle!Next
  <2>1. Lifecycle!Move(s, "dispatched", "failed")
    BY <1>3, MoveMaps DEF TaskFails
  <2>. QED  BY <2>1 DEF Lifecycle!Next, Lifecycle!Finish
<1>4. CASE GitInspected
  BY <1>4, SameMaps DEF GitInspected, unchangedByTask, graphVars, wfLog
<1>. QED  BY <1>1, <1>2, <1>3, <1>4 DEF DispatcherStep

(* A restart fails the task that was running, if there was one.            *)
LEMMA RestartMaps == Inv /\ Restart => [Lifecycle!Next]_(Lifecycle!vars)
<1> SUFFICES ASSUME Inv, Restart PROVE [Lifecycle!Next]_(Lifecycle!vars)
  OBVIOUS
<1>1. /\ deps' = deps /\ created' = created /\ started' = started /\ completed' = completed
      /\ failed' = failed /\ outcome' = outcome /\ crashes' = crashes
  BY DEF Restart, graphVars, wfLog
<1>2. task' = [s \in Steps |-> IF task[s] = "dispatched" THEN "failed" ELSE task[s]]
  BY DEF Restart
<1>3. LogTypes /\ LogInv
  BY Types DEF Inv
<1>4. CASE \A s \in Steps : task[s] # "dispatched"
  <2>1. task' = task
    BY <1>2, <1>3, <1>4 DEF LogTypes
  <2>. QED  BY <1>1, <2>1, SameMaps
<1>5. CASE \E s \in Steps : task[s] = "dispatched"
  <2>1. PICK s \in Steps : task[s] = "dispatched"
    BY <1>5
  <2>2. task' = [task EXCEPT ![s] = "failed"]
    BY <1>2, <1>3, <2>1 DEF LogTypes, LogInv
  <2>3. Stages' = Stages
    BY <1>1, StageSame
  <2>4. Lifecycle!Move(s, "dispatched", "failed")
    BY <1>1, <2>1, <2>2, <2>3 DEF Stages, Lifecycle!Move
  <2>. QED  BY <2>4 DEF Lifecycle!Next, Lifecycle!Finish
<1>. QED  BY <1>4, <1>5

LEMMA CrashMaps == Inv /\ Crash => Lifecycle!Next
<1> SUFFICES ASSUME Inv, Crash PROVE Lifecycle!Next
  OBVIOUS
<1>1. /\ deps' = deps /\ created' = created /\ started' = started /\ completed' = completed
      /\ failed' = failed /\ outcome' = outcome /\ task' = task
  BY DEF Crash, graphVars, wfLog
<1>2. (crashes > 0)' = TRUE
  <2>1. crashes \in 0 .. MaxCrashes /\ MaxCrashes \in Nat /\ crashes' = crashes + 1
    BY CoordinatorAssumption DEF Crash, Inv, TypeOK
  <2>. QED  BY <2>1
<1>3. Stages' = Stages
  BY <1>1, StageSame
<1>4. Lifecycle!Forget
  BY <1>1, <1>2, <1>3 DEF Stages, Lifecycle!Forget
<1>. QED  BY <1>4 DEF Lifecycle!Next

LEMMA NextMaps == Inv /\ [Next]_vars => [Lifecycle!Next]_(Lifecycle!vars)
<1> SUFFICES ASSUME Inv, [Next]_vars PROVE [Lifecycle!Next]_(Lifecycle!vars)
  OBVIOUS
<1>1. CASE EmitNext
  BY <1>1, EmitMaps
<1>2. CASE AdvanceStarts \/ AdvanceEnds \/ Handle \/ ResumeReconciles \/ ResumeAdvances
  BY <1>2, SameMaps
     DEF AdvanceStarts, AdvanceEnds, Handle, ResumeReconciles, ResumeAdvances, graphVars, wfLog
<1>3. CASE Create
  <2>1. /\ ~created /\ created' = TRUE /\ deps' = deps /\ started' = started
        /\ completed' = completed /\ failed' = failed /\ outcome' = outcome /\ task' = task
        /\ crashes' = crashes
    BY <1>3 DEF Create, graphVars
  <2>2. Stages' = Stages
    BY <2>1, StageSame
  <2>3. Lifecycle!Create
    BY <2>1, <2>2 DEF Stages, Lifecycle!Create
  <2>. QED  BY <2>3 DEF Lifecycle!Next
<1>4. CASE DispatcherStep
  BY <1>4, DispatcherMaps
<1>5. ASSUME NEW s \in Steps, TaskCancelled(s) PROVE Lifecycle!Next
  <2>1. Lifecycle!Move(s, "queued", "cancelled")
    BY <1>5, MoveMaps DEF TaskCancelled
  <2>. QED  BY <2>1 DEF Lifecycle!Next, Lifecycle!Cancel
<1>6. CASE Crash
  BY <1>6, CrashMaps
<1>7. CASE Restart
  BY <1>7, RestartMaps
<1>8. CASE UNCHANGED vars
  BY <1>8, SameMaps DEF vars, graphVars, wfLog
<1>. QED  BY <1>1, <1>2, <1>3, <1>4, <1>5, <1>6, <1>7, <1>8 DEF Next, CoordinatorStep, Quiet

LEMMA InitMaps == Init => Lifecycle!Init
<1> SUFFICES ASSUME Init PROVE Lifecycle!Init
  OBVIOUS
<1>1. \A s \in Steps : Stage(s) = "pending"
  BY DEF Init, Stage
<1>. QED  BY <1>1 DEF Init, Lifecycle!Init

(* Whatever the graph and wherever the process dies, the log tells of the  *)
(* workflow only what WorkflowLifecycle allows: the coordinator, with the  *)
(* dispatcher, implements it.                                              *)
THEOREM WorkflowImplementsLifecycle == Spec => ImplementsWorkflow
<1>1. Init => Lifecycle!Init
  BY InitMaps
<1>2. Inv /\ [Next]_vars => [Lifecycle!Next]_(Lifecycle!vars)
  BY NextMaps
<1>. QED  BY <1>1, <1>2, InvHolds, PTL DEF Spec, Lifecycle!Spec, ImplementsWorkflow

(* The next emit is one the log does not have yet.                         *)
LEMMA NothingRepeated == Inv => NothingTwice
<1> SUFFICES ASSUME Inv, script # <<>> PROVE NothingTwice
  BY DEF NothingTwice
<1>1. ASSUME NEW type, NEW s, Head(script) = Event(type, s),
             /\ type = "task.queued" => task[s] = "absent"
             /\ type \in {"started", "started unprovisioned"} => started[s] = "no"
             /\ type \in {"step.completed", "step.failed"} => s \notin completed \cup failed
             /\ type \in {"workflow.completed", "workflow.failed"} => outcome = "none"
      PROVE  NothingTwice
  <2>1. Head(script).type = type /\ Head(script).step = s
    <3>1. Event(type, s).type = type /\ Event(type, s).step = s
      BY DEF Event
    <3>. QED  BY <1>1, <3>1, Zenon
  <2>. QED  BY <1>1, <2>1, Zenon DEF NothingTwice
<1>2. CASE ToEnd
  <2>1. Head(script) = Event("workflow.completed", NoStep) /\ outcome = "none"
    BY <1>2 DEF ToEnd
  <2>. QED  BY <1>1, <2>1, Zenon
<1>3. ASSUME NEW s \in Steps, ToStart(s) \/ ToRefuse(s) PROVE NothingTwice
  <2>1. started[s] = "no"
    BY <1>3 DEF ToStart, ToRefuse, Fresh
  <2>2. Head(script) = Event("started", s)
    <3>1. CASE ToStart(s)
      BY <3>1 DEF ToStart
    <3>2. CASE ToRefuse(s)
      BY <3>2 DEF ToRefuse
    <3>. QED  BY <1>3, <3>1, <3>2
  <2>. QED  BY <1>1, <2>1, <2>2
<1>4. ASSUME NEW s \in Steps, ToGiveUp(s) PROVE NothingTwice
  <2>1. started[s] = "no"
    BY <1>4 DEF ToGiveUp, Fresh
  <2>2. Head(script) = Event("started unprovisioned", s)
    <3>1. script = <<Event("started unprovisioned", s), Event("step.failed", s),
                     Event("workflow.failed", s)>>
      BY <1>4, Zenon DEF ToGiveUp
    <3>. QED  BY <3>1, FirstOfThree, Zenon
  <2>. QED  BY <1>1, <2>1, <2>2
<1>5. ASSUME NEW s \in Steps, ToQueue(s) PROVE NothingTwice
  <2>1. Head(script) = Event("task.queued", s) /\ task[s] = "absent"
    BY <1>5 DEF ToQueue
  <2>. QED  BY <1>1, <2>1
<1>6. ASSUME NEW s \in Steps, ToFailTask(s) PROVE NothingTwice
  <2>1. Head(script) = Event("task.failed", s)
    BY <1>6 DEF ToFailTask
  <2>. QED  BY <1>1, <2>1
<1>7. ASSUME NEW s \in Steps, ToFailBoth(s) \/ ToFailStep(s) \/ ToComplete(s)
      PROVE  NothingTwice
  <2>1. s \notin completed \cup failed
    BY <1>7 DEF ToFailBoth, ToFailStep, ToComplete, Open
  <2>2. PICK type \in {"step.completed", "step.failed"} : Head(script) = Event(type, s)
    <3>1. CASE ToFailBoth(s)
      BY <3>1 DEF ToFailBoth
    <3>2. CASE ToFailStep(s)
      BY <3>2 DEF ToFailStep
    <3>3. CASE ToComplete(s)
      BY <3>3 DEF ToComplete
    <3>. QED  BY <1>7, <3>1, <3>2, <3>3
  <2>. QED  BY <1>1, <2>1, <2>2
<1>8. ASSUME NEW s \in Steps, ToFailWorkflow(s) PROVE NothingTwice
  <2>1. Head(script) = Event("workflow.failed", s) /\ outcome = "none"
    BY <1>8 DEF ToFailWorkflow
  <2>. QED  BY <1>1, <2>1
<1>. QED  BY <1>2, <1>3, <1>4, <1>5, <1>6, <1>7, <1>8 DEF Inv, ScriptInv, ToDoNothing

(* No crash or restart makes the coordinator write twice what it must      *)
(* write once: the start, the task and the end of a step, and the end of   *)
(* the workflow.                                                           *)
THEOREM NothingIsWrittenTwice == Spec => []NothingTwice
<1>1. Inv => NothingTwice
  BY NothingRepeated
<1>. QED  BY <1>1, InvHolds, PTL

-----------------------------------------------------------------------------
(* The read model.                                                         *)

Starts == {"started", "started unprovisioned"}

(* An event of the subscription is one of the log: of its creation (cr),   *)
(* starts (st), completions (co) and failures (fa).                        *)
Logged(e, cr, st, co, fa) ==
  /\ e.type = "workflow.created" => cr
  /\ e.type \in Starts => e.step \in st
  /\ e.type = "step.completed" => e.step \in co
  /\ e.type = "step.failed" => e.step \in fa

(* The subscription q still has to tell of it.                             *)
Awaited(q, types, s) == \E i \in 1 .. Len(q) : q[i].type \in types /\ q[i].step = s

(* The view shows of the log what the subscription does not hold back; the *)
(* creation, which empties the view, comes before everything else.         *)
Shows(view, q, cr, st, co, fa) ==
  /\ \A i \in 1 .. Len(q) :
       /\ Logged(q[i], cr, st, co, fa)
       /\ q[i].type = "workflow.created" => i = 1 /\ view = NothingShown
  /\ view.known => cr
  /\ cr /\ ~view.known => q # <<>> /\ q[1].type = "workflow.created"
  /\ view.started \subseteq st /\ view.completed \subseteq co /\ view.failed \subseteq fa
  /\ \A s \in st : s \in view.started \/ Awaited(q, Starts, s)
  /\ \A s \in co : s \in view.completed \/ Awaited(q, {"step.completed"}, s)
  /\ \A s \in fa : s \in view.failed \/ Awaited(q, {"step.failed"}, s)

ViewInv == Shows(shown, busq, created, StartedInLog, completed, failed)

(* Only an accepted workflow is created, and its end is that of its steps. *)
OutcomeInv ==
  /\ created => Accepted(deps)
  /\ outcome = "completed" => completed = Steps
  /\ outcome = "failed" => failed # {}

(* The end of the workflow is emitted when its steps have ended.           *)
LEMMA ScriptEnds ==
  ASSUME Inv, script # <<>>
  PROVE  \/ \E s \in Steps, type \in StepEvents : Head(script) = Event(type, s)
         \/ \E s \in failed : Head(script) = Event("workflow.failed", s)
         \/ Head(script) = Event("workflow.completed", NoStep) /\ completed = Steps
<1>1. CASE ToEnd
  <2>1. Head(script) = Event("workflow.completed", NoStep) /\ completed = Steps
    BY <1>1 DEF ToEnd
  <2>. QED  BY <2>1, Zenon
<1>2. ASSUME NEW s \in Steps, ToFailWorkflow(s)
      PROVE  \E r \in failed : Head(script) = Event("workflow.failed", r)
  <2>1. Head(script) = Event("workflow.failed", s) /\ s \in failed
    BY <1>2 DEF ToFailWorkflow
  <2>. QED  BY <2>1, Zenon
<1>3. ASSUME NEW s \in Steps,
             \/ ToStart(s) \/ ToQueue(s) \/ ToRefuse(s) \/ ToFailTask(s) \/ ToGiveUp(s)
             \/ ToFailBoth(s) \/ ToFailStep(s) \/ ToComplete(s)
      PROVE  \E r \in Steps, type \in StepEvents : Head(script) = Event(type, r)
  <2>1. ASSUME NEW type \in StepEvents, Head(script) = Event(type, s)
        PROVE  \E r \in Steps, t \in StepEvents : Head(script) = Event(t, r)
    BY <2>1, Zenon
  <2>2. CASE ToStart(s)
    <3>1. Head(script) = Event("started", s)
      BY <2>2 DEF ToStart
    <3>. QED  BY <2>1, <3>1 DEF StepEvents
  <2>3. CASE ToRefuse(s)
    <3>1. Head(script) = Event("started", s)
      BY <2>3 DEF ToRefuse
    <3>. QED  BY <2>1, <3>1 DEF StepEvents
  <2>4. CASE ToQueue(s)
    <3>1. Head(script) = Event("task.queued", s)
      BY <2>4 DEF ToQueue
    <3>. QED  BY <2>1, <3>1 DEF StepEvents
  <2>5. CASE ToFailTask(s)
    <3>1. Head(script) = Event("task.failed", s)
      BY <2>5 DEF ToFailTask
    <3>. QED  BY <2>1, <3>1 DEF StepEvents
  <2>6. CASE ToGiveUp(s)
    <3>1. script = <<Event("started unprovisioned", s), Event("step.failed", s),
                     Event("workflow.failed", s)>>
      BY <2>6, Zenon DEF ToGiveUp
    <3>2. Head(script) = Event("started unprovisioned", s)
      BY <3>1, FirstOfThree, Zenon
    <3>. QED  BY <2>1, <3>2 DEF StepEvents
  <2>7. CASE ToFailBoth(s)
    <3>1. Head(script) = Event("step.failed", s)
      BY <2>7 DEF ToFailBoth
    <3>. QED  BY <2>1, <3>1 DEF StepEvents
  <2>8. CASE ToFailStep(s)
    <3>1. Head(script) = Event("step.failed", s)
      BY <2>8 DEF ToFailStep
    <3>. QED  BY <2>1, <3>1 DEF StepEvents
  <2>9. CASE ToComplete(s)
    <3>1. Head(script) = Event("step.completed", s)
      BY <2>9 DEF ToComplete
    <3>. QED  BY <2>1, <3>1 DEF StepEvents
  <2>. QED  BY <1>3, <2>2, <2>3, <2>4, <2>5, <2>6, <2>7, <2>8, <2>9
<1>. QED  BY <1>1, <1>2, <1>3 DEF Inv, ScriptInv, ToDoNothing

LEMMA HeadEnds ==
  ASSUME Inv, script # <<>>
  PROVE  /\ Head(script).type # "workflow.created"
         /\ Head(script).type \in Starts => Head(script).step \in Steps
         /\ Head(script).type = "workflow.completed" => completed = Steps
         /\ Head(script).type = "workflow.failed" => failed # {}
<1> DEFINE e == Head(script)
<1>1. \/ \E s \in Steps, type \in StepEvents : e = Event(type, s)
      \/ \E s \in failed : e = Event("workflow.failed", s)
      \/ e = Event("workflow.completed", NoStep) /\ completed = Steps
  BY ScriptEnds
<1> HIDE DEF e
<1>2. \A type, s : Event(type, s).type = type /\ Event(type, s).step = s
  BY DEF Event
<1>3. \/ e.type \in StepEvents /\ e.step \in Steps
      \/ e.type = "workflow.failed" /\ failed # {}
      \/ e.type = "workflow.completed" /\ completed = Steps
  BY <1>1, <1>2, Zenon
<1>4. /\ e.type # "workflow.created" /\ (e.type \in Starts => e.step \in Steps)
      /\ e.type = "workflow.completed" => completed = Steps
      /\ e.type = "workflow.failed" => failed # {}
  BY <1>3 DEF StepEvents, Starts
<1>. QED  BY <1>4 DEF e

(* The end of the workflow comes after that of its steps.                  *)
LEMMA OutcomeStep == Inv /\ OutcomeInv /\ [Next]_vars => OutcomeInv'
<1> SUFFICES ASSUME Inv, OutcomeInv, [Next]_vars PROVE OutcomeInv'
  OBVIOUS
<1>1. CASE EmitNext
  <2>1. Record(Head(script)) /\ script # <<>> /\ deps' = deps /\ created' = created
    BY <1>1 DEF EmitNext, graphVars
  <2> DEFINE e == Head(script)
  <2>2. /\ completed' = IF e.type = "step.completed" THEN completed \cup {e.step} ELSE completed
        /\ failed' = IF e.type = "step.failed" THEN failed \cup {e.step} ELSE failed
        /\ outcome' = IF e.type = "workflow.completed" THEN "completed"
                      ELSE IF e.type = "workflow.failed" THEN "failed" ELSE outcome
    BY <2>1 DEF Record
  <2>3. completed' \subseteq Steps
    BY NextInv DEF Inv, TypeOK
  <2>4. completed \subseteq completed' /\ failed \subseteq failed'
    BY <2>2
  <2>5. /\ e.type = "workflow.completed" => completed = Steps
        /\ e.type = "workflow.failed" => failed # {}
    BY <2>1, HeadEnds
  <2> HIDE DEF e
  <2>. QED  BY <2>1, <2>2, <2>3, <2>4, <2>5 DEF OutcomeInv
<1>2. CASE UNCHANGED <<graphVars, wfLog>>
  BY <1>2 DEF graphVars, wfLog, OutcomeInv
<1>3. CASE Create
  BY <1>3 DEF Create, graphVars, OutcomeInv
<1>. QED
  BY <1>1, <1>2, <1>3
     DEF Next, CoordinatorStep, DispatcherStep, AdvanceStarts, AdvanceEnds, Handle,
         ResumeReconciles, ResumeAdvances, TaskRuns, TaskCompletes, TaskFails, GitInspected,
         TaskCancelled, unchangedByTask, Crash, Restart, Quiet, vars

LEMMA AwaitedOnAppend ==
  ASSUME NEW S, NEW q \in Seq(S), NEW e \in S, NEW types, NEW s
  PROVE  Awaited(Append(q, e), types, s) <=> Awaited(q, types, s) \/ (e.type \in types /\ e.step = s)
<1> DEFINE r == Append(q, e)
<1>1. /\ Len(r) = Len(q) + 1 /\ r[Len(q) + 1] = e /\ Len(q) \in Nat
      /\ \A i \in 1 .. Len(q) : r[i] = q[i]
  OBVIOUS
<1> HIDE DEF r
<1>2. ASSUME Awaited(q, types, s) PROVE Awaited(r, types, s)
  BY <1>1, <1>2 DEF Awaited
<1>3. ASSUME e.type \in types, e.step = s PROVE Awaited(r, types, s)
  BY <1>1, <1>3 DEF Awaited
<1>4. ASSUME Awaited(r, types, s) PROVE Awaited(q, types, s) \/ (e.type \in types /\ e.step = s)
  BY <1>1, <1>4 DEF Awaited
<1>. QED  BY <1>2, <1>3, <1>4 DEF r

LEMMA AwaitedOnTail ==
  ASSUME NEW S, NEW q \in Seq(S), q # <<>>, NEW types, NEW s, Awaited(q, types, s)
  PROVE  Awaited(Tail(q), types, s) \/ (q[1].type \in types /\ q[1].step = s)
<1>1. /\ Len(Tail(q)) = Len(q) - 1 /\ Len(q) \in Nat \ {0}
      /\ \A i \in 1 .. Len(q) - 1 : Tail(q)[i] = q[i + 1]
  OBVIOUS
<1>2. PICK i \in 1 .. Len(q) : q[i].type \in types /\ q[i].step = s
  BY DEF Awaited
<1>3. CASE i # 1
  <2>1. i - 1 \in 1 .. Len(q) - 1 /\ (i - 1) + 1 = i
    BY <1>1, <1>3
  <2>2. Tail(q)[i - 1] = q[i]
    BY <1>1, <2>1
  <2>. QED  BY <1>1, <1>2, <2>1, <2>2 DEF Awaited
<1>. QED  BY <1>2, <1>3

(* The log and the subscription grow by the same event.                    *)
LEMMA ShowsMore ==
  ASSUME NEW S, NEW q \in Seq(S), NEW e \in S, NEW view, NEW cr,
         NEW st, NEW co, NEW fa, NEW st2, NEW co2, NEW fa2,
         Shows(view, q, cr, st, co, fa), e.type # "workflow.created",
         st2 = IF e.type \in Starts THEN st \cup {e.step} ELSE st,
         co2 = IF e.type = "step.completed" THEN co \cup {e.step} ELSE co,
         fa2 = IF e.type = "step.failed" THEN fa \cup {e.step} ELSE fa
  PROVE  Shows(view, Append(q, e), cr, st2, co2, fa2)
<1> DEFINE r == Append(q, e)
<1>1. /\ Len(r) = Len(q) + 1 /\ r[Len(q) + 1] = e /\ Len(q) \in Nat
      /\ \A i \in 1 .. Len(q) : r[i] = q[i]
      /\ r # <<>>
  <2>1. /\ Len(r) = Len(q) + 1 /\ r[Len(q) + 1] = e /\ Len(q) \in Nat
        /\ \A i \in 1 .. Len(q) : r[i] = q[i]
    OBVIOUS
  <2>2. Len(<<>>) = 0
    OBVIOUS
  <2>. QED  BY <2>1, <2>2
<1>2. q # <<>> => 1 \in 1 .. Len(q)
  OBVIOUS
<1>3. \A types, s : Awaited(r, types, s) <=> Awaited(q, types, s) \/ (e.type \in types /\ e.step = s)
  BY AwaitedOnAppend
<1> HIDE DEF r
<1>4. st \subseteq st2 /\ co \subseteq co2 /\ fa \subseteq fa2
  OBVIOUS
<1>5. ASSUME NEW i \in 1 .. Len(r)
      PROVE  /\ Logged(r[i], cr, st2, co2, fa2)
             /\ r[i].type = "workflow.created" => i = 1 /\ view = NothingShown
  <2>1. CASE i = Len(q) + 1
    BY <1>1, <2>1 DEF Logged
  <2>2. CASE i \in 1 .. Len(q)
    <3>1. /\ Logged(q[i], cr, st, co, fa)
          /\ q[i].type = "workflow.created" => i = 1 /\ view = NothingShown
      BY <2>2 DEF Shows
    <3>. QED  BY <1>1, <1>4, <2>2, <3>1 DEF Logged
  <2>. QED  BY <1>1, <2>1, <2>2
<1>6. (view.known => cr) /\ (cr /\ ~view.known => r # <<>> /\ r[1].type = "workflow.created")
  BY <1>1, <1>2 DEF Shows
<1>7. view.started \subseteq st2 /\ view.completed \subseteq co2 /\ view.failed \subseteq fa2
  BY <1>4 DEF Shows
<1>8. /\ \A s \in st2 : s \in view.started \/ Awaited(r, Starts, s)
      /\ \A s \in co2 : s \in view.completed \/ Awaited(r, {"step.completed"}, s)
      /\ \A s \in fa2 : s \in view.failed \/ Awaited(r, {"step.failed"}, s)
  BY <1>3 DEF Shows
<1>9. Shows(view, r, cr, st2, co2, fa2)
  BY <1>5, <1>6, <1>7, <1>8 DEF Shows
<1>. QED  BY <1>9 DEF r

(* The read model takes the next event of the subscription.                *)
LEMMA ShowsNext ==
  ASSUME NEW S, NEW q \in Seq(S), q # <<>>, NEW view \in Views, NEW cr,
         NEW st, NEW co, NEW fa, Shows(view, q, cr, st, co, fa)
  PROVE  Shows(Shown(view, q[1]), Tail(q), cr, st, co, fa)
<1> DEFINE e == q[1]
           after == Shown(view, e)
           r == Tail(q)
<1>1. /\ Len(r) = Len(q) - 1 /\ Len(q) \in Nat \ {0}
      /\ \A i \in 1 .. Len(q) - 1 : r[i] = q[i + 1] /\ i + 1 \in 1 .. Len(q)
  OBVIOUS
<1>2. /\ Logged(e, cr, st, co, fa)
      /\ e.type = "workflow.created" => view = NothingShown
  BY <1>1 DEF Shows
<1>3. \A types, s : Awaited(q, types, s) =>
          Awaited(r, types, s) \/ (e.type \in types /\ e.step = s)
  BY AwaitedOnTail
<1>4. cr => view.known \/ e.type = "workflow.created"
  BY DEF Shows
<1> HIDE DEF e, r
<1>5. /\ view.started \subseteq after.started /\ view.completed \subseteq after.completed
      /\ view.failed \subseteq after.failed
      /\ e.type \in Starts => e.step \in after.started
      /\ e.type = "step.completed" => e.step \in after.completed
      /\ e.type = "step.failed" => e.step \in after.failed
      /\ after.started \subseteq st /\ after.completed \subseteq co /\ after.failed \subseteq fa
      /\ after.known <=> view.known \/ e.type = "workflow.created"
  <2>1. view.started \subseteq st /\ view.completed \subseteq co /\ view.failed \subseteq fa
    BY DEF Shows
  <2>2. CASE e.type = "workflow.created"
    <3>1. after = [NothingShown EXCEPT !.known = TRUE]
      BY <2>2 DEF Shown
    <3>2. /\ after.known /\ after.started = {} /\ after.completed = {} /\ after.failed = {}
          /\ view.started = {} /\ view.completed = {} /\ view.failed = {}
      BY <1>2, <2>2, <3>1 DEF NothingShown
    <3>. QED  BY <2>2, <3>2 DEF Starts
  <2>3. CASE e.type \in Starts
    <3>1. after = [view EXCEPT !.started = @ \cup {e.step}] /\ e.type # "workflow.created"
      BY <2>3 DEF Shown, Starts
    <3>2. /\ after.started = view.started \cup {e.step} /\ after.completed = view.completed
          /\ after.failed = view.failed /\ after.known = view.known
      BY <3>1 DEF Views
    <3>3. e.step \in st /\ e.type \notin {"step.completed", "step.failed"}
      BY <1>2, <2>3 DEF Logged, Starts
    <3>. QED  BY <2>1, <3>1, <3>2, <3>3
  <2>4. CASE e.type = "step.completed"
    <3>1. after = [view EXCEPT !.completed = @ \cup {e.step}]
      BY <2>4 DEF Shown
    <3>2. /\ after.completed = view.completed \cup {e.step} /\ after.started = view.started
          /\ after.failed = view.failed /\ after.known = view.known
      BY <3>1 DEF Views
    <3>3. e.step \in co
      BY <1>2, <2>4 DEF Logged
    <3>. QED  BY <2>1, <2>4, <3>2, <3>3 DEF Starts
  <2>5. CASE e.type = "step.failed"
    <3>1. after = [view EXCEPT !.failed = @ \cup {e.step}]
      BY <2>5 DEF Shown
    <3>2. /\ after.failed = view.failed \cup {e.step} /\ after.started = view.started
          /\ after.completed = view.completed /\ after.known = view.known
      BY <3>1 DEF Views
    <3>3. e.step \in fa
      BY <1>2, <2>5 DEF Logged
    <3>. QED  BY <2>1, <2>5, <3>2, <3>3 DEF Starts
  <2>6. CASE e.type \notin Starts \cup {"workflow.created", "step.completed", "step.failed"}
    <3>1. after = view
      BY <2>6 DEF Shown, Starts
    <3>. QED  BY <2>1, <2>6, <3>1
  <2>. QED  BY <2>2, <2>3, <2>4, <2>5, <2>6
<1> HIDE DEF after
<1>6. ASSUME NEW i \in 1 .. Len(r)
      PROVE  Logged(r[i], cr, st, co, fa) /\ r[i].type # "workflow.created"
  <2>1. i + 1 \in 1 .. Len(q) /\ r[i] = q[i + 1] /\ i + 1 # 1
    BY <1>1
  <2>. QED  BY <2>1 DEF Shows
<1>7. (after.known => cr) /\ (cr => after.known)
  BY <1>2, <1>4, <1>5 DEF Shows, Logged
<1>8. /\ \A s \in st : s \in after.started \/ Awaited(r, Starts, s)
      /\ \A s \in co : s \in after.completed \/ Awaited(r, {"step.completed"}, s)
      /\ \A s \in fa : s \in after.failed \/ Awaited(r, {"step.failed"}, s)
  BY <1>3, <1>5 DEF Shows
<1>9. Shows(after, r, cr, st, co, fa)
  BY <1>5, <1>6, <1>7, <1>8 DEF Shows
<1>. QED  BY <1>9 DEF after, r, e

(* A workflow nobody has created is nowhere.                               *)
LEMMA NothingBefore ==
  ASSUME Inv, ViewInv, ~created
  PROVE  /\ shown = NothingShown /\ busq = <<>>
         /\ completed = {} /\ failed = {} /\ StartedInLog = {}
<1>1. /\ \A s \in Steps : started[s] = "no"
      /\ busq = <<>>
  BY DEF Inv, CreatedInv
<1>2. completed = {} /\ failed = {} /\ StartedInLog = {}
  <2>1. completed \subseteq Steps /\ failed \subseteq Steps
    BY DEF Inv, TypeOK
  <2>2. /\ \A s \in completed : started[s] = "started"
        /\ \A s \in failed : started[s] # "no"
    BY DEF Inv, LogInv
  <2>. QED  BY <1>1, <2>1, <2>2 DEF StartedInLog
<1>3. /\ shown.known = FALSE /\ shown.started = {} /\ shown.completed = {} /\ shown.failed = {}
      /\ shown \in Views
  <2>1. shown \in Views
    BY DEF Inv, TypeOK
  <2>2. shown.known \in BOOLEAN
    BY <2>1 DEF Views
  <2>. QED  BY <1>2, <2>1, <2>2 DEF ViewInv, Shows
<1>4. shown = NothingShown
  BY <1>3 DEF Views, NothingShown
<1>. QED  BY <1>1, <1>2, <1>4

LEMMA ViewStep == Inv /\ (pc # "down" => ViewInv) /\ [Next]_vars => (pc # "down" => ViewInv)'
<1> SUFFICES ASSUME Inv, pc # "down" => ViewInv, [Next]_vars, pc' # "down" PROVE ViewInv'
  OBVIOUS
<1>1. busq \in Seq(Events) /\ script \in Seq(Events) /\ shown \in Views
      /\ started \in [Steps -> {"no", "started", "started unprovisioned"}]
  BY DEF Inv, TypeOK
<1>2. CASE EmitNext
  <2> DEFINE e == Head(script)
  <2>1. /\ script # <<>> /\ Record(e) /\ busq' = Append(busq, e)
        /\ pc' = pc /\ shown' = shown /\ created' = created
    BY <1>2 DEF EmitNext
  <2>2. e \in Events
    <3>1. script \in Seq(Events) /\ script # <<>>
      BY <1>1, <2>1
    <3>. QED  BY <3>1
  <2>3. e.type # "workflow.created" /\ (e.type \in Starts => e.step \in Steps)
    BY <2>1, HeadEnds
  <2> HIDE DEF e
  <2>4. /\ started' = IF e.type \in Starts THEN [started EXCEPT ![e.step] = e.type] ELSE started
        /\ completed' = IF e.type = "step.completed" THEN completed \cup {e.step} ELSE completed
        /\ failed' = IF e.type = "step.failed" THEN failed \cup {e.step} ELSE failed
    BY <2>1 DEF Record, Starts
  <2>5. StartedInLog' = IF e.type \in Starts THEN StartedInLog \cup {e.step} ELSE StartedInLog
    <3>1. CASE e.type \in Starts
      <4>1. started' = [started EXCEPT ![e.step] = e.type] /\ e.type # "no" /\ e.step \in Steps
        BY <2>3, <2>4, <3>1 DEF Starts
      <4>2. StartedInLog' = StartedInLog \cup {e.step}
        BY <1>1, <4>1 DEF StartedInLog
      <4>. QED  BY <3>1, <4>2
    <3>2. CASE e.type \notin Starts
      BY <2>4, <3>2 DEF StartedInLog
    <3>. QED  BY <3>1, <3>2
  <2>6. ViewInv
    BY <2>1
  <2>7. Shows(shown, Append(busq, e), created, StartedInLog', completed', failed')
    BY <1>1, <2>2, <2>3, <2>4, <2>5, <2>6, ShowsMore DEF ViewInv
  <2>. QED  BY <2>1, <2>7 DEF ViewInv
<1>3. ASSUME NEW s \in Steps, NEW type \in {"task.completed", "task.failed"}, pc # "down",
             busq' = Append(busq, Event(type, s)), UNCHANGED unchangedByTask
      PROVE  ViewInv'
  <2> DEFINE e == Event(type, s)
  <2>1. e \in Events /\ e.type \in {"task.completed", "task.failed"}
    BY DEF Event, Events, StepEvents
  <2>2. busq' = Append(busq, e)
    BY <1>3
  <2> HIDE DEF e
  <2>3. UNCHANGED <<created, completed, failed, shown>> /\ StartedInLog' = StartedInLog
    BY <1>3 DEF unchangedByTask, wfLog, StartedInLog
  <2>4. /\ e.type \notin Starts /\ e.type # "step.completed" /\ e.type # "step.failed"
        /\ e.type # "workflow.created"
    BY <2>1 DEF Starts
  <2>5. ViewInv
    BY <1>3
  <2>6. Shows(shown, Append(busq, e), created, StartedInLog, completed, failed)
    BY <1>1, <2>1, <2>4, <2>5, ShowsMore DEF ViewInv
  <2>. QED  BY <2>2, <2>3, <2>6 DEF ViewInv
<1>4. CASE Handle
  <2>1. /\ busq # <<>> /\ busq' = Tail(busq) /\ shown' = Shown(shown, Head(busq))
        /\ UNCHANGED <<created, completed, failed>> /\ StartedInLog' = StartedInLog
        /\ ViewInv
    BY <1>4 DEF Handle, Ready, wfLog, StartedInLog
  <2>2. Head(busq) = busq[1]
    <3>1. busq \in Seq(Events) /\ busq # <<>>
      BY <1>1, <2>1
    <3>. QED  BY <3>1
  <2>3. Shows(Shown(shown, busq[1]), Tail(busq), created, StartedInLog, completed, failed)
    BY <1>1, <2>1, ShowsNext DEF ViewInv
  <2>. QED  BY <2>1, <2>2, <2>3 DEF ViewInv
<1>5. CASE Create
  <2>1. /\ pc = "idle" /\ ~created /\ created' = TRUE /\ shown' = shown /\ started' = started
        /\ completed' = completed /\ failed' = failed
        /\ busq' = Append(busq, Event("workflow.created", NoStep))
    BY <1>5 DEF Create
  <2>2. /\ shown' = NothingShown /\ busq = <<>>
        /\ completed' = {} /\ failed' = {} /\ StartedInLog' = {}
    BY <2>1, NothingBefore DEF StartedInLog
  <2>3. Len(busq') = 1 /\ busq' # <<>> /\ busq'[1] = Event("workflow.created", NoStep)
    BY <2>1, <2>2
  <2>4. busq'[1].type = "workflow.created"
    BY <2>3 DEF Event
  <2>5. /\ NothingShown.started = {} /\ NothingShown.completed = {} /\ NothingShown.failed = {}
        /\ ~NothingShown.known
    BY DEF NothingShown
  <2>6. \A i \in 1 .. Len(busq') : i = 1
    BY <2>3
  <2>7. Logged(busq'[1], TRUE, {}, {}, {})
    BY <2>4 DEF Logged, Starts
  <2>8. Shows(NothingShown, busq', TRUE, {}, {}, {})
    BY <2>3, <2>4, <2>5, <2>6, <2>7 DEF Shows
  <2>. QED  BY <2>1, <2>2, <2>8 DEF ViewInv
<1>6. CASE Restart
  <2>1. /\ pc = "down" /\ shown' = Replayed
        /\ UNCHANGED <<busq, created, completed, failed>> /\ StartedInLog' = StartedInLog
    BY <1>6 DEF Restart, wfLog, StartedInLog
  <2>2. busq = <<>>
    BY <2>1 DEF Inv, ProcessInv
  <2>3. /\ shown'.known = created /\ shown'.started = StartedInLog
        /\ shown'.completed = completed /\ shown'.failed = failed
    BY <2>1 DEF Replayed, StartedInLog
  <2>4. Len(busq) = 0
    BY <2>2
  <2>5. Shows(shown', busq, created, StartedInLog, completed, failed)
    BY <2>3, <2>4 DEF Shows
  <2>. QED  BY <2>1, <2>5 DEF ViewInv
<1>7. ASSUME UNCHANGED <<busq, shown, created, started, completed, failed>>, pc # "down"
      PROVE  ViewInv'
  BY <1>7 DEF ViewInv, StartedInLog
<1>8. CASE AdvanceStarts \/ AdvanceEnds \/ ResumeReconciles \/ ResumeAdvances \/ UNCHANGED vars
  BY <1>7, <1>8 DEF AdvanceStarts, AdvanceEnds, ResumeReconciles, ResumeAdvances, Ready, wfLog, vars
<1>9. CASE DispatcherStep
  BY <1>3, <1>7, <1>9
     DEF DispatcherStep, TaskRuns, TaskCompletes, TaskFails, GitInspected, unchangedByTask, wfLog,
         Between
<1>10. CASE \E s \in Steps : TaskCancelled(s)
  BY <1>7, <1>10 DEF TaskCancelled, unchangedByTask, wfLog, Between
<1>11. ~Crash
  BY DEF Crash
<1>. QED  BY <1>2, <1>4, <1>5, <1>6, <1>8, <1>9, <1>10, <1>11 DEF Next, CoordinatorStep, Quiet

LEMMA ViewStart == Init => OutcomeInv /\ ViewInv
<1> SUFFICES ASSUME Init PROVE OutcomeInv /\ ViewInv
  OBVIOUS
<1>1. /\ shown = NothingShown /\ busq = <<>> /\ created = FALSE /\ outcome = "none"
      /\ completed = {} /\ failed = {} /\ StartedInLog = {}
  BY DEF Init, StartedInLog
<1>2. Len(<<>>) = 0
  OBVIOUS
<1>3. Shows(NothingShown, <<>>, FALSE, {}, {}, {})
  BY <1>2 DEF Shows, NothingShown
<1>. QED  BY <1>1, <1>3 DEF ViewInv, OutcomeInv

(* What a client is told, of a view like that.                             *)
LEMMA ViewConverges == Inv /\ OutcomeInv /\ (pc # "down" => ViewInv) => ReadModelConverges
<1> SUFFICES ASSUME Inv, OutcomeInv, ViewInv PROVE ReadModelConverges
  BY DEF ReadModelConverges
<1>1. /\ completed \subseteq Steps /\ failed \subseteq Steps /\ created \in BOOLEAN
      /\ outcome \in {"none", "completed", "failed"} /\ busq \in Seq(Events)
      /\ shown.known \in BOOLEAN
  BY DEF Inv, TypeOK, Views
<1>2. completed \cap failed = {}
  BY DEF Inv, LogInv
<1>3. /\ shown.known => created
      /\ created /\ ~shown.known => busq # <<>> /\ busq[1].type = "workflow.created"
      /\ shown.completed \subseteq completed /\ shown.failed \subseteq failed
      /\ shown.started \subseteq StartedInLog
  BY DEF ViewInv, Shows
<1> DEFINE answer == GetAnswer(shown)
           tool == Told(answer)
<1>4. ~shown.known => answer.code = 404 /\ tool = ToolError
  BY DEF GetAnswer, Refused, Told
<1>5. shown.known => /\ answer.code = 200 /\ answer.status = WorkflowStatus(shown)
                     /\ \A s \in Steps : answer.steps[s].status = StepStatus(shown, s)
                     /\ DOMAIN answer = {"code", "status", "steps"}
  BY DEF GetAnswer
<1>6. shown.known => tool = answer /\ tool # ToolError
  <2> HIDE DEF answer
  <2>1. DOMAIN ToolError = {"error"}
    BY DEF ToolError
  <2>. QED  BY <1>5, <2>1 DEF Told
<1>7. tool = WorkflowTools(shown).mad_get_workflow
  BY DEF WorkflowTools
<1> HIDE DEF answer, tool
<1>8. created => CreateAnswer.code = 202
  BY DEF OutcomeInv, CreateAnswer
<1>9. created /\ ~shown.known => \E i \in DOMAIN busq : busq[i].type = "workflow.created"
  BY <1>1, <1>3
<1>10. ASSUME NEW s \in Steps, StepStatus(shown, s) \in {"completed", "failed"}
       PROVE  StepStatus(shown, s) = Stage(s)
  BY <1>2, <1>3, <1>10 DEF StepStatus, Stage
<1>11. ASSUME Ready("idle"), busq = <<>>
       PROVE  /\ shown.known <=> created
              /\ \A s \in Steps : StepStatus(shown, s) = StatusOfStage[Stage(s)]
              /\ outcome # "none" => WorkflowStatus(shown) = outcome
  <2>1. Len(busq) = 0
    BY <1>11
  <2>2. \A types, s : ~Awaited(busq, types, s)
    BY <2>1 DEF Awaited
  <2>3. /\ shown.completed = completed /\ shown.failed = failed /\ shown.started = StartedInLog
        /\ shown.known <=> created
    BY <1>3, <1>11, <2>2 DEF ViewInv, Shows
  <2>4. ASSUME NEW s \in Steps PROVE StepStatus(shown, s) = StatusOfStage[Stage(s)]
    <3>1. /\ StatusOfStage["pending"] = "pending" /\ StatusOfStage["started"] = "running"
          /\ StatusOfStage["completed"] = "completed" /\ StatusOfStage["failed"] = "failed"
      BY DEF StatusOfStage
    <3>2. CASE s \in failed
      <4>1. StepStatus(shown, s) = "failed"
        BY <2>3, <3>2 DEF StepStatus
      <4>2. Stage(s) = "failed"
        BY <1>2, <3>2 DEF Stage
      <4>. QED  BY <3>1, <4>1, <4>2
    <3>3. CASE s \in completed /\ s \notin failed
      <4>1. StepStatus(shown, s) = "completed"
        BY <2>3, <3>3 DEF StepStatus
      <4>2. Stage(s) = "completed"
        BY <3>3 DEF Stage
      <4>. QED  BY <3>1, <4>1, <4>2
    <3>4. CASE s \notin completed \cup failed /\ started[s] # "no"
      <4>1. StepStatus(shown, s) = "running"
        BY <2>3, <3>4 DEF StepStatus, StartedInLog
      <4>2. Stage(s) = "started"
        BY <3>4 DEF Stage
      <4>. QED  BY <3>1, <4>1, <4>2
    <3>5. CASE s \notin completed \cup failed /\ started[s] = "no"
      <4>1. StepStatus(shown, s) = "pending"
        BY <2>3, <3>5 DEF StepStatus, StartedInLog
      <4>2. Stage(s) = "pending"
        BY <3>5 DEF Stage
      <4>. QED  BY <3>1, <4>1, <4>2
    <3>. QED  BY <3>2, <3>3, <3>4, <3>5
  <2>5. ASSUME outcome = "failed" PROVE WorkflowStatus(shown) = outcome
    <3>1. PICK s \in Steps : s \in failed
      BY <1>1, <2>5 DEF OutcomeInv
    <3>2. StepStatus(shown, s) = "failed"
      BY <2>3, <3>1 DEF StepStatus
    <3>3. "failed" \in {StepStatus(shown, r) : r \in Steps}
      BY <3>2
    <3>4. WorkflowStatus(shown) = "failed"
      BY <3>3, Zenon DEF WorkflowStatus
    <3>. QED  BY <2>5, <3>4
  <2>6. ASSUME outcome = "completed" PROVE WorkflowStatus(shown) = outcome
    <3>1. \A s \in Steps : StepStatus(shown, s) = "completed"
      BY <1>2, <2>3, <2>6 DEF OutcomeInv, StepStatus
    <3>2. 1 \in Steps
      BY CoordinatorAssumption DEF Steps
    <3>3. {StepStatus(shown, s) : s \in Steps} = {"completed"}
      BY <3>1, <3>2
    <3>4. "failed" \notin {"completed"}
      OBVIOUS
    <3>5. WorkflowStatus(shown) = "completed"
      BY <3>3, <3>4, Zenon DEF WorkflowStatus
    <3>. QED  BY <2>6, <3>5
  <2>. QED  BY <1>1, <2>3, <2>4, <2>5, <2>6
<1>. QED
  BY <1>3, <1>4, <1>5, <1>6, <1>7, <1>8, <1>9, <1>10, <1>11 DEF ReadModelConverges, answer

(* Whatever the graph and wherever the process dies, GET never tells of a  *)
(* workflow what its log does not say, misses it only while its creation   *)
(* waits to be handled, and shows it as the log does once every event has  *)
(* been handled.                                                           *)
THEOREM ReadModelFollowsTheLog == Spec => []ReadModelConverges
<1>1. Init => OutcomeInv /\ (pc # "down" => ViewInv)
  BY ViewStart
<1> DEFINE I == OutcomeInv /\ (pc # "down" => ViewInv)
<1>2. Inv /\ I /\ [Next]_vars => I'
  BY OutcomeStep, ViewStep
<1>3. Inv /\ I => ReadModelConverges
  BY ViewConverges
<1> HIDE DEF I
<1>4. Init => I
  BY <1>1 DEF I
<1>. QED  BY <1>2, <1>3, <1>4, InvHolds, PTL DEF Spec

-----------------------------------------------------------------------------
(* Recursion and folds.  Induction is over the naturals, of which every    *)
(* non-empty set has a least element.                                      *)

LEMMA LeastNatural ==
  ASSUME NEW S \in SUBSET Nat, S # {}
  PROVE  \E n \in S : \A m \in S : n <= m
<1>1. PICK n \in S : \A m \in S : ~(<<m, n>> \in OpToRel(<, Nat))
  BY NatLessThanWellFounded, WFMin
<1>2. \A m \in S : ~(m < n)
  BY <1>1 DEF OpToRel
<1> QED  BY <1>2

LEMMA Induction ==
  ASSUME NEW S \in SUBSET Nat, 0 \in S, \A n \in S : n + 1 \in S
  PROVE  S = Nat
<1> SUFFICES ASSUME Nat \ S # {}  PROVE FALSE
  OBVIOUS
<1>1. PICK n \in Nat \ S : \A m \in Nat \ S : n <= m
  BY LeastNatural
<1>2. n # 0 /\ n - 1 \in Nat /\ ~(n <= n - 1) /\ (n - 1) + 1 = n
  BY <1>1
<1>3. n - 1 \in S
  BY <1>1, <1>2
<1> QED  BY <1>1, <1>2, <1>3

(* A recursion: F is the body, whose value at x asks only for values of a  *)
(* smaller measure, and the measure is below a bound.  It has a solution.  *)
Recurs(D, H, F, mu, bound) ==
  /\ H # {} /\ \A h, k \in H : (\A x \in D : h[x] = k[x]) => h = k
  /\ F \in [H -> H] /\ mu \in [D -> Nat] /\ bound \in Nat
  /\ \A x \in D : mu[x] < bound
  /\ \A h, k \in H : \A x \in D :
       (\A y \in D : mu[y] < mu[x] => h[y] = k[y]) => F[h][x] = F[k][x]

LEMMA Recursion ==
  ASSUME NEW D, NEW H, NEW F, NEW mu, NEW bound, Recurs(D, H, F, mu, bound)
  PROVE  \E h \in H : h = F[h]
<1> USE DEF Recurs
<1> DEFINE Fits(h, m) == \A x \in D : mu[x] < m => h[x] = F[h][x]
<1> DEFINE Fitted == {m \in Nat : \E h \in H : Fits(h, m)}
<1>1. 0 \in Fitted
  <2>1. PICK h \in H : TRUE
    OBVIOUS
  <2>2. Fits(h, 0)
    OBVIOUS
  <2> QED  BY <2>1, <2>2
<1>2. \A m \in Fitted : m + 1 \in Fitted
  <2> SUFFICES ASSUME NEW m \in Nat, NEW h \in H, Fits(h, m)
               PROVE  m + 1 \in Fitted
    OBVIOUS
  <2> DEFINE k == F[h]
  <2>1. k \in H
    OBVIOUS
  <2>2. ASSUME NEW x \in D, mu[x] < m + 1  PROVE k[x] = F[k][x]
    <3>1. ASSUME NEW y \in D, mu[y] < mu[x]  PROVE h[y] = k[y]
      <4>1. mu[y] \in Nat /\ mu[x] \in Nat
        OBVIOUS
      <4>2. mu[y] < m
        BY <4>1, <3>1, <2>2
      <4> QED  BY <4>2
    <3> HIDE DEF k
    <3> QED  BY <3>1, <2>1 DEF k
  <2>3. Fits(k, m + 1)
    BY <2>2
  <2> HIDE DEF k, Fits
  <2> QED  BY <2>1, <2>3
<1>3. bound \in Fitted
  <2> HIDE DEF Fitted
  <2>1. Fitted \in SUBSET Nat
    BY DEF Fitted
  <2> QED  BY <1>1, <1>2, <2>1, Induction
<1>4. PICK h \in H : \A x \in D : mu[x] < bound => h[x] = F[h][x]
  BY <1>3
<1>5. F[h] \in H
  BY <1>4
<1>7. \A x \in D : h[x] = F[h][x]
  BY <1>4
<1>8. h = F[h]
  BY <1>5, <1>7
<1> QED  BY <1>4, <1>8

(* What holds of no element, and of a set if it holds without the element  *)
(* a fold takes next, holds of every subset of a finite set.               *)
First(s) == CHOOSE x \in s : TRUE

LEMMA SubsetInduction ==
  ASSUME NEW S, IsFiniteSet(S), NEW P \in SUBSET SUBSET S, {} \in P,
         \A s \in SUBSET S : s # {} /\ s \ {First(s)} \in P => s \in P
  PROVE  P = SUBSET S
<1> SUFFICES ASSUME (SUBSET S) \ P # {}  PROVE FALSE
  OBVIOUS
<1> DEFINE Out == (SUBSET S) \ P
<1>1. \A s \in SUBSET S : IsFiniteSet(s) /\ Cardinality(s) \in Nat
  BY FS_Subset, FS_CardinalityType
<1> DEFINE Sizes == {Cardinality(s) : s \in Out}
<1>2. PICK n \in Sizes : \A m \in Sizes : n <= m
  <2>1. Sizes \in SUBSET Nat /\ Sizes # {}
    BY <1>1
  <2> HIDE DEF Sizes
  <2> QED  BY <2>1, LeastNatural
<1>3. PICK s \in Out : n = Cardinality(s)
  BY <1>2
<1>4. s # {}
  <2>1. s \notin P
    BY <1>3
  <2> QED  BY <2>1
<1>5. First(s) \in s
  BY <1>4 DEF First
<1>6. IsFiniteSet(s \ {First(s)}) /\ Cardinality(s \ {First(s)}) = n - 1
  BY <1>1, <1>3, <1>5, FS_RemoveElement
<1>7. s \ {First(s)} \in Out
  BY <1>3, <1>4
<1>8. n - 1 \in Sizes /\ n \in Nat
  BY <1>6, <1>7, <1>1, <1>3
<1> QED  BY <1>2, <1>8

(* A fold over a finite set: what it has made of each subset.              *)
Iterates(S, K, b, O, h) ==
  /\ h \in [SUBSET S -> K]
  /\ h = [s \in SUBSET S |-> IF s = {} THEN b ELSE O[First(s)][h[s \ {First(s)}]]]

LEMMA FoldIterates ==
  ASSUME NEW S, IsFiniteSet(S), NEW K, NEW b \in K, NEW O \in [S -> [K -> K]]
  PROVE  \E h : Iterates(S, K, b, O, h)
<1> DEFINE D == SUBSET S
           H == [D -> K]
           G(h) == [s \in D |-> IF s = {} THEN b ELSE O[First(s)][h[s \ {First(s)}]]]
           F == [h \in H |-> G(h)]
           mu == [s \in D |-> Cardinality(s)]
           bound == Cardinality(S) + 1
<1>1. \A s \in SUBSET S : IsFiniteSet(s) /\ Cardinality(s) \in Nat /\ Cardinality(s) <= Cardinality(S)
  BY FS_Subset, FS_CardinalityType
<1>2. Cardinality(S) \in Nat
  BY <1>1
<1>3. \A s \in D : s # {} => /\ First(s) \in s
                             /\ s \ {First(s)} \in D
                             /\ Cardinality(s \ {First(s)}) < Cardinality(s)
  <2> SUFFICES ASSUME NEW s \in D, s # {}
               PROVE  /\ First(s) \in s
                      /\ s \ {First(s)} \in D
                      /\ Cardinality(s \ {First(s)}) < Cardinality(s)
    OBVIOUS
  <2>1. First(s) \in s
    BY DEF First
  <2>2. Cardinality(s \ {First(s)}) = Cardinality(s) - 1
    BY <1>1, <2>1, FS_RemoveElement
  <2>3. s \ {First(s)} \in D
    OBVIOUS
  <2> QED  BY <2>1, <2>2, <2>3, <1>1
<1>4. \A h \in H : G(h) \in H
  <2> SUFFICES ASSUME NEW h \in H, NEW s \in D
               PROVE  (IF s = {} THEN b ELSE O[First(s)][h[s \ {First(s)}]]) \in K
    OBVIOUS
  <2>1. CASE s # {}
    <3>1. First(s) \in S
      BY <1>3, <2>1
    <3>2. h[s \ {First(s)}] \in K
      BY <1>3, <2>1
    <3>3. O[First(s)] \in [K -> K]
      BY <3>1
    <3> QED  BY <2>1, <3>2, <3>3
  <2> QED  BY <2>1
<1>5. F \in [H -> H]
  <2> HIDE DEF G, H
  <2> QED  BY <1>4
<1>6. ASSUME NEW h \in H, NEW k \in H, NEW x \in D,
             \A y \in D : mu[y] < mu[x] => h[y] = k[y]
      PROVE  F[h][x] = F[k][x]
  <2>1. F[h] = G(h) /\ F[k] = G(k)
    BY <1>6
  <2>2. x # {} => h[x \ {First(x)}] = k[x \ {First(x)}]
    BY <1>3, <1>6
  <2>3. G(h)[x] = G(k)[x]
    BY <2>2
  <2> QED  BY <2>1, <2>3
<1>7. H # {}
  <2>1. [s \in D |-> b] \in H
    OBVIOUS
  <2> QED  BY <2>1
<1>8. mu \in [D -> Nat] /\ bound \in Nat /\ \A x \in D : mu[x] < bound
  BY <1>1, <1>2
<1>9. \E h \in H : h = F[h]
  <2>1. \A h, k \in H : (\A x \in D : h[x] = k[x]) => h = k
    OBVIOUS
  <2>2. \A h, k \in H : \A x \in D :
          (\A y \in D : mu[y] < mu[x] => h[y] = k[y]) => F[h][x] = F[k][x]
    BY <1>6
  <2>3. mu \in [D -> Nat] /\ bound \in Nat /\ \A x \in D : mu[x] < bound
    BY <1>8
  <2>4. \A x \in D : mu[x] < bound
    BY <1>8
  <2> HIDE DEF D, F, G, mu, bound, H
  <2>5. F \in [H -> H] /\ H # {} /\ mu \in [D -> Nat] /\ bound \in Nat
    BY <1>5, <1>7, <2>3
  <2>6. Recurs(D, H, F, mu, bound)
    BY <2>1, <2>2, <2>4, <2>5 DEF Recurs
  <2> QED  BY <2>6, Recursion
<1>10. PICK h \in H : h = F[h]
  BY <1>9
<1>11. F[h] = G(h)
  BY <1>10
<1>12. h = G(h)
  BY <1>10, <1>11
<1> QED  BY <1>10, <1>12 DEF Iterates

-----------------------------------------------------------------------------
(* Depth-first visits.                                                     *)

Whites(c) == {s \in Steps : c[s] = "white"}
Greys(c) == {s \in Steps : c[s] = "grey"}
Blacks(c) == {s \in Steps : c[s] = "black"}

Colours == [Steps -> {"white", "grey", "black"}]
Marks == Colourings \cup [Steps -> {"grey", "black", "cyclic"}]

(* Where a visit of n can leave the colours it is given.                   *)
Left(n, c) == {k \in Marks : /\ Whites(k) \subseteq Whites(c) \ {n}
                             /\ c # Cyclic => k \in Colourings}

Weight(n, c) == 2 * Cardinality(Whites(c)) + (IF c[n] = "white" THEN 0 ELSE 1)

Settles(v, n, c) ==
  \A d \in Steps, k \in Colourings : Weight(d, k) < Weight(n, c) => v[d][k] \in Left(d, k)

LEMMA StepsFinite == IsFiniteSet(Steps) /\ Cardinality(Steps) = NumSteps /\ NumSteps \in Nat /\ NumSteps > 0
<1>1. NumSteps \in Nat /\ NumSteps > 0
  BY CoordinatorAssumption
<1> QED  BY <1>1, FS_Interval DEF Steps

LEMMA WhitesFinite ==
  ASSUME NEW c
  PROVE  /\ IsFiniteSet(Whites(c)) /\ Cardinality(Whites(c)) \in 0 .. NumSteps
         /\ \A k : Whites(k) \subseteq Whites(c) =>
              /\ Cardinality(Whites(k)) <= Cardinality(Whites(c))
              /\ Whites(k) # Whites(c) => Cardinality(Whites(k)) < Cardinality(Whites(c))
<1>1. \A k : IsFiniteSet(Whites(k)) /\ Cardinality(Whites(k)) \in Nat
             /\ Cardinality(Whites(k)) <= NumSteps
  <2> SUFFICES ASSUME NEW k
               PROVE  IsFiniteSet(Whites(k)) /\ Cardinality(Whites(k)) \in Nat
                      /\ Cardinality(Whites(k)) <= NumSteps
    OBVIOUS
  <2>1. Whites(k) \in SUBSET Steps
    BY DEF Whites
  <2> QED  BY <2>1, StepsFinite, FS_Subset, FS_CardinalityType
<1>2. ASSUME NEW k, Whites(k) \subseteq Whites(c)
      PROVE  /\ Cardinality(Whites(k)) <= Cardinality(Whites(c))
             /\ Whites(k) # Whites(c) => Cardinality(Whites(k)) < Cardinality(Whites(c))
  <2>1. /\ Cardinality(Whites(k)) <= Cardinality(Whites(c))
        /\ Cardinality(Whites(c)) = Cardinality(Whites(k)) => Whites(c) = Whites(k)
    BY <1>1, <1>2, FS_Subset
  <2> QED  BY <2>1, <1>1
<1>3. NumSteps \in Nat
  BY StepsFinite
<1> QED  BY <1>1, <1>2, <1>3

LEMMA Cyclics ==
  /\ Cyclic \in Colourings /\ Cyclic \in Marks /\ Whites(Cyclic) = {}
  /\ Cyclic \notin Colours /\ Colourings = Colours \cup {Cyclic}
  /\ \A n \in Steps, c \in Colourings : Cyclic \in Left(n, c)
<1>1. Whites(Cyclic) = {}
  BY DEF Whites, Cyclic
<1>2. 1 \in Steps
  BY StepsFinite DEF Steps
<1>3. Cyclic \notin Colours
  <2>1. Cyclic[1] = "cyclic"
    BY <1>2 DEF Cyclic
  <2> QED  BY <1>2, <2>1 DEF Colours
<1> QED  BY <1>1, <1>3 DEF Colourings, Marks, Left, Colours

LEMMA MarksFacts ==
  ASSUME NEW k \in Marks
  PROVE  /\ DOMAIN k = Steps
         /\ k \in Colours \/ Whites(k) = {}
         /\ k \in Colours => k \in Colourings
         /\ k \in Colourings /\ k # Cyclic => k \in Colours
         /\ \A n \in Steps, x \in {"grey", "black"} :
              /\ [k EXCEPT ![n] = x] \in Marks
              /\ Whites([k EXCEPT ![n] = x]) = Whites(k) \ {n}
              /\ k \in Colours => [k EXCEPT ![n] = x] \in Colours
<1>1. k \in Colours \/ k \in [Steps -> {"grey", "black", "cyclic"}]
  BY DEF Marks, Colourings, Colours, Cyclic
<1>2. DOMAIN k = Steps
  BY <1>1 DEF Colours
<1>3. k \in Colours \/ Whites(k) = {}
  BY <1>1 DEF Whites
<1>4. ASSUME NEW n \in Steps, NEW x \in {"grey", "black"}
      PROVE  /\ [k EXCEPT ![n] = x] \in Marks
             /\ Whites([k EXCEPT ![n] = x]) = Whites(k) \ {n}
             /\ k \in Colours => [k EXCEPT ![n] = x] \in Colours
  <2>1. \A s \in Steps : [k EXCEPT ![n] = x][s] = IF s = n THEN x ELSE k[s]
    BY <1>2
  <2>2. Whites([k EXCEPT ![n] = x]) = Whites(k) \ {n}
    BY <2>1 DEF Whites
  <2>3. k \in Colours => [k EXCEPT ![n] = x] \in Colours
    BY DEF Colours
  <2>4. k \in [Steps -> {"grey", "black", "cyclic"}] =>
          [k EXCEPT ![n] = x] \in [Steps -> {"grey", "black", "cyclic"}]
    OBVIOUS
  <2>5. [k EXCEPT ![n] = x] \in Marks
    BY <1>1, <2>3, <2>4 DEF Marks, Colourings, Colours
  <2> QED  BY <2>2, <2>3, <2>5
<1> QED  BY <1>2, <1>3, <1>4, Cyclics

LEMMA Follows ==
  ASSUME NEW v, NEW n \in Steps, NEW c \in Colourings, Settles(v, n, c),
         NEW d \in Steps, NEW k \in Left(n, c)
  PROVE  /\ Followed(v, d, k) = (IF k[d] = "white" THEN v[d][k]
                                 ELSE IF k[d] = "grey" THEN Cyclic ELSE k)
         /\ k[d] = "white" => /\ k \in Colours /\ v[d][k] \in Left(d, k)
                              /\ Cardinality(Whites(k)) <= Cardinality(Whites(c))
                              /\ c[n] = "white" => Cardinality(Whites(k)) < Cardinality(Whites(c))
                              /\ Weight(d, k) < Weight(n, c)
         /\ Followed(v, d, k) \in Left(n, c)
<1>1. Followed(v, d, k) = (IF k[d] = "white" THEN v[d][k]
                           ELSE IF k[d] = "grey" THEN Cyclic ELSE k)
  BY DEF Followed
<1>2. k \in Marks /\ Whites(k) \subseteq Whites(c) \ {n} /\ (c # Cyclic => k \in Colourings)
  BY DEF Left
<1>3. ASSUME k[d] = "white"
      PROVE  /\ k \in Colours /\ v[d][k] \in Left(d, k)
             /\ Cardinality(Whites(k)) <= Cardinality(Whites(c))
             /\ c[n] = "white" => Cardinality(Whites(k)) < Cardinality(Whites(c))
             /\ Weight(d, k) < Weight(n, c)
             /\ v[d][k] \in Left(n, c)
  <2>1. d \in Whites(k)
    BY <1>3 DEF Whites
  <2>2. k \in Colours /\ k \in Colourings
    BY <1>2, <2>1, MarksFacts
  <2>3. Whites(k) \subseteq Whites(c)
    BY <1>2
  <2>4. Cardinality(Whites(k)) <= Cardinality(Whites(c))
    BY <2>3, WhitesFinite
  <2>5. c[n] = "white" => Cardinality(Whites(k)) < Cardinality(Whites(c))
    <3>1. c[n] = "white" => n \in Whites(c) /\ n \notin Whites(k)
      BY <1>2 DEF Whites
    <3> QED  BY <3>1, <2>3, WhitesFinite
  <2>6. Weight(d, k) < Weight(n, c)
    <3>1. Cardinality(Whites(k)) \in Nat /\ Cardinality(Whites(c)) \in Nat
      BY WhitesFinite
    <3> QED  BY <1>3, <2>4, <2>5, <3>1 DEF Weight
  <2>7. v[d][k] \in Left(d, k)
    BY <2>2, <2>6 DEF Settles
  <2>8. v[d][k] \in Left(n, c)
    <3>1. k # Cyclic
      BY <2>2, Cyclics
    <3>2. v[d][k] \in Marks /\ Whites(v[d][k]) \subseteq Whites(k) \ {d} /\ v[d][k] \in Colourings
      BY <2>7, <3>1 DEF Left
    <3> QED  BY <3>2, <1>2 DEF Left
  <2> QED  BY <2>2, <2>4, <2>5, <2>6, <2>7, <2>8
<1>4. Followed(v, d, k) \in Left(n, c)
  BY <1>1, <1>3, Cyclics
<1> QED  BY <1>1, <1>3, <1>4

(* What a visit has made of each set of the steps it has followed.         *)
Trace(g, v, n, c, h) ==
  /\ h \in [SUBSET g[n] -> Left(n, c)]
  /\ h[{}] = [c EXCEPT ![n] = "grey"]
  /\ \A s \in SUBSET g[n] : s # {} => h[s] = Followed(v, First(s), h[s \ {First(s)}])
  /\ Visited(g, v, n, c) = IF h[g[n]] = Cyclic THEN Cyclic ELSE [h[g[n]] EXCEPT ![n] = "black"]

LEMMA VisitTraced ==
  ASSUME NEW g \in [Steps -> SUBSET Steps], NEW v, NEW n \in Steps, NEW c \in Colourings,
         Settles(v, n, c)
  PROVE  /\ \E h : Trace(g, v, n, c, h)
         /\ Visited(g, v, n, c) \in Left(n, c)
<1> DEFINE S == g[n]
           b == [c EXCEPT ![n] = "grey"]
           O == [d \in S |-> [k \in Left(n, c) |-> Followed(v, d, k)]]
           G(h) == [s \in SUBSET S |-> IF s = {} THEN b
                                       ELSE Followed(v, First(s), h[s \ {First(s)}])]
           fold == CHOOSE h : h = G(h)
<1>1. S \in SUBSET Steps /\ IsFiniteSet(S)
  BY StepsFinite, FS_Subset
<1>2. c \in Marks
  BY DEF Marks
<1>3. b \in Left(n, c)
  <2>1. b \in Marks /\ Whites(b) = Whites(c) \ {n} /\ (c # Cyclic => b \in Colourings)
    BY <1>2, MarksFacts, Cyclics
  <2> QED  BY <2>1 DEF Left
<1>4. O \in [S -> [Left(n, c) -> Left(n, c)]]
  BY <1>1, Follows
<1>5. PICK h \in [SUBSET S -> Left(n, c)] :
        h = [s \in SUBSET S |-> IF s = {} THEN b ELSE O[First(s)][h[s \ {First(s)}]]]
  <2> DEFINE K == Left(n, c)
  <2>1. IsFiniteSet(S) /\ b \in K /\ O \in [S -> [K -> K]]
    BY <1>1, <1>3, <1>4
  <2> HIDE DEF S, b, O, K
  <2>2. \E h : Iterates(S, K, b, O, h)
    BY <2>1, FoldIterates
  <2> QED  BY <2>2 DEF K, Iterates
<1>6. \A s \in SUBSET S : s # {} => First(s) \in S /\ s \ {First(s)} \in SUBSET S
  BY DEF First
<1>7. \A s \in SUBSET S : s # {} => O[First(s)][h[s \ {First(s)}]] = Followed(v, First(s), h[s \ {First(s)}])
  BY <1>6
<1>8. h = G(h)
  <2>1. \A s \in SUBSET S : h[s] = IF s = {} THEN b ELSE O[First(s)][h[s \ {First(s)}]]
    BY <1>5
  <2>2. \A s \in SUBSET S : h[s] = G(h)[s]
    BY <2>1, <1>7
  <2>3. h \in [SUBSET S -> Left(n, c)]
    BY <1>5
  <2> HIDE DEF S, b, O
  <2> QED  BY <2>2, <2>3
<1>9. fold = G(fold)
  <2> HIDE DEF G
  <2> QED  BY <1>8
<1>10. fold[{}] = b /\ DOMAIN fold = SUBSET S
  <2> HIDE DEF fold, b, S
  <2> QED  BY <1>9
<1>11. \A s \in SUBSET S : s # {} => fold[s] = Followed(v, First(s), fold[s \ {First(s)}])
  <2> HIDE DEF fold, b, S
  <2> QED  BY <1>9
<1>12. \A s \in SUBSET S : fold[s] \in Left(n, c)
  <2> DEFINE P == {s \in SUBSET S : fold[s] \in Left(n, c)}
  <2>1. {} \in P
    BY <1>3, <1>10
  <2>2. ASSUME NEW s \in SUBSET S, s # {}, s \ {First(s)} \in P  PROVE s \in P
    <3>1. fold[s] = Followed(v, First(s), fold[s \ {First(s)}])
      BY <1>11, <2>2
    <3>2. fold[s \ {First(s)}] \in Left(n, c)
      BY <2>2
    <3>3. First(s) \in Steps
      BY <1>1, <1>6, <2>2
    <3> HIDE DEF fold
    <3>4. Followed(v, First(s), fold[s \ {First(s)}]) \in Left(n, c)
      BY <3>2, <3>3, Follows
    <3> QED  BY <3>1, <3>4
  <2>3. P \in SUBSET SUBSET S
    OBVIOUS
  <2>4. P = SUBSET S
    <3> HIDE DEF P, S
    <3> QED  BY <1>1, <2>1, <2>2, <2>3, SubsetInduction
  <2> QED  BY <2>4
<1>13. Visited(g, v, n, c) = IF fold[g[n]] = Cyclic THEN Cyclic ELSE [fold[g[n]] EXCEPT ![n] = "black"]
  BY DEF Visited, FoldSet, MapThenFoldSet, First
<1>14. Visited(g, v, n, c) \in Left(n, c)
  <2> DEFINE after == fold[g[n]]
  <2>1. after \in Left(n, c)
    BY <1>12
  <2> HIDE DEF after
  <2>2. after \in Marks /\ Whites(after) \subseteq Whites(c) \ {n} /\ (c # Cyclic => after \in Colourings)
    BY <2>1 DEF Left
  <2>3. after # Cyclic => [after EXCEPT ![n] = "black"] \in Left(n, c)
    <3>1. /\ [after EXCEPT ![n] = "black"] \in Marks
          /\ Whites([after EXCEPT ![n] = "black"]) = Whites(after) \ {n}
          /\ after \in Colours => [after EXCEPT ![n] = "black"] \in Colours
      BY <2>2, MarksFacts
    <3>2. after # Cyclic /\ c # Cyclic => after \in Colours
      BY <2>2, MarksFacts
    <3> QED  BY <2>2, <3>1, <3>2, Cyclics DEF Left
  <2> QED  BY <1>13, <2>3, Cyclics DEF after
<1>15. Trace(g, v, n, c, fold)
  <2>1. fold \in [SUBSET S -> Left(n, c)]
    <3> HIDE DEF S
    <3>1. fold = [s \in SUBSET S |-> fold[s]]
      <4> HIDE DEF fold, b
      <4> QED  BY <1>9
    <3> HIDE DEF fold
    <3> QED  BY <3>1, <1>12
  <2> HIDE DEF fold
  <2> QED  BY <2>1, <1>10, <1>11, <1>13 DEF Trace
<1> QED  BY <1>14, <1>15

LEMMA WeightBound ==
  ASSUME NEW n, NEW c
  PROVE  Weight(n, c) \in Nat /\ Weight(n, c) < 2 * NumSteps + 2
<1>1. Cardinality(Whites(c)) \in Nat /\ Cardinality(Whites(c)) <= NumSteps /\ NumSteps \in Nat
  BY WhitesFinite, StepsFinite
<1> QED  BY <1>1 DEF Weight

LEMMA VisitAgrees ==
  ASSUME NEW g \in [Steps -> SUBSET Steps], NEW v, NEW w, NEW n \in Steps, NEW c \in Colourings,
         Settles(v, n, c), Settles(w, n, c),
         \A d \in Steps, k \in Colourings : Weight(d, k) < Weight(n, c) => v[d][k] = w[d][k]
  PROVE  Visited(g, v, n, c) = Visited(g, w, n, c)
<1>1. PICK h : Trace(g, v, n, c, h)
  BY VisitTraced
<1>2. PICK j : Trace(g, w, n, c, j)
  BY VisitTraced
<1> DEFINE S == g[n]
           P == {s \in SUBSET S : h[s] = j[s]}
<1>3. S \in SUBSET Steps /\ IsFiniteSet(S)
  BY StepsFinite, FS_Subset
<1>4. {} \in P
  BY <1>1, <1>2 DEF Trace
<1>5. ASSUME NEW s \in SUBSET S, s # {}, s \ {First(s)} \in P  PROVE s \in P
  <2> DEFINE d == First(s)
             k == h[s \ {d}]
  <2>1. d \in Steps /\ s \ {d} \in SUBSET S
    BY <1>3, <1>5 DEF First
  <2>2. k \in Left(n, c)
    BY <1>1, <2>1 DEF Trace
  <2>3. h[s] = Followed(v, d, k)
    BY <1>1, <1>5 DEF Trace
  <2>4. j[s] = Followed(w, d, k)
    BY <1>2, <1>5 DEF Trace
  <2>5. d \in Steps
    BY <2>1
  <2> HIDE DEF d, k
  <2>6. Followed(v, d, k) = Followed(w, d, k)
    <3>1. Followed(v, d, k) = (IF k[d] = "white" THEN v[d][k]
                                 ELSE IF k[d] = "grey" THEN Cyclic ELSE k)
          /\ (k[d] = "white" => Weight(d, k) < Weight(n, c) /\ k \in Colours)
      BY <2>5, <2>2, Follows
    <3>2. Followed(w, d, k) = (IF k[d] = "white" THEN w[d][k]
                                 ELSE IF k[d] = "grey" THEN Cyclic ELSE k)
      BY <2>5, <2>2, Follows
    <3>3. k[d] = "white" => v[d][k] = w[d][k]
      BY <2>1, <3>1, Cyclics
    <3> QED  BY <3>1, <3>2, <3>3
  <2> QED  BY <2>3, <2>4, <2>6
<1>6. P = SUBSET S
  <2>1. P \in SUBSET SUBSET S
    OBVIOUS
  <2> HIDE DEF P, S
  <2> QED  BY <1>3, <1>4, <1>5, <2>1, SubsetInduction
<1>7. h[g[n]] = j[g[n]]
  BY <1>6
<1> QED  BY <1>1, <1>2, <1>7 DEF Trace

LEMMA VisitExists ==
  ASSUME NEW g \in [Steps -> SUBSET Steps]
  PROVE  \E v : v = [n \in Steps |-> [c \in Colourings |-> Visited(g, v, n, c)]]
<1> DEFINE D == Steps \X Colourings
           H == {h \in [D -> Marks] : \A n \in Steps, c \in Colourings : h[<<n, c>>] \in Left(n, c)}
           Curry(h) == [n \in Steps |-> [c \in Colourings |-> h[<<n, c>>]]]
           G(h) == [p \in D |-> Visited(g, Curry(h), p[1], p[2])]
           F == [h \in H |-> G(h)]
           mu == [p \in D |-> Weight(p[1], p[2])]
           bound == 2 * NumSteps + 2
<1>1. \A n \in Steps, c \in Colourings : <<n, c>> \in D /\ <<n, c>>[1] = n /\ <<n, c>>[2] = c
  OBVIOUS
<1>2. \A h \in H : \A n \in Steps, c \in Colourings :
        Curry(h)[n][c] = h[<<n, c>>] /\ Settles(Curry(h), n, c)
  <2> SUFFICES ASSUME NEW h \in H  PROVE \A n \in Steps, c \in Colourings :
        Curry(h)[n][c] = h[<<n, c>>] /\ Settles(Curry(h), n, c)
    OBVIOUS
  <2>1. \A n \in Steps, c \in Colourings : Curry(h)[n][c] = h[<<n, c>>]
    OBVIOUS
  <2>2. \A n \in Steps, c \in Colourings : h[<<n, c>>] \in Left(n, c)
    OBVIOUS
  <2> HIDE DEF Curry, H
  <2> QED  BY <2>1, <2>2 DEF Settles
<1>3. \A h \in H : \A n \in Steps, c \in Colourings : Visited(g, Curry(h), n, c) \in Left(n, c)
  <2> HIDE DEF Curry, H
  <2> QED  BY <1>2, VisitTraced
<1>4. \A n \in Steps, c \in Colourings : Left(n, c) \subseteq Marks
  BY DEF Left
<1>5. \A h \in H : G(h) \in H
  <2> SUFFICES ASSUME NEW h \in H  PROVE G(h) \in H
    OBVIOUS
  <2>1. \A p \in D : Visited(g, Curry(h), p[1], p[2]) \in Left(p[1], p[2])
    <3> HIDE DEF Curry, H
    <3> QED  BY <1>3
  <2>2. G(h) \in [D -> Marks]
    <3> HIDE DEF Curry, H
    <3> QED  BY <2>1, <1>4
  <2>3. ASSUME NEW n \in Steps, NEW c \in Colourings
        PROVE  G(h)[<<n, c>>] \in Left(n, c)
    <3> HIDE DEF Curry, H
    <3>1. <<n, c>> \in D
      OBVIOUS
    <3>2. G(h)[<<n, c>>] = Visited(g, Curry(h), n, c)
      OBVIOUS
    <3>3. Visited(g, Curry(h), n, c) \in Left(n, c)
      BY <1>3
    <3> QED  BY <3>2, <3>3
  <2> HIDE DEF G
  <2> QED  BY <2>2, <2>3
<1>6. F \in [H -> H]
  <2> HIDE DEF G, H
  <2> QED  BY <1>5
<1>7. \A h, k \in H : (\A p \in D : h[p] = k[p]) => h = k
  OBVIOUS
<1>8. H # {}
  <2> DEFINE z == [p \in D |-> Cyclic]
  <2>1. z \in H
    BY Cyclics
  <2> QED  BY <2>1
<1>9. mu \in [D -> Nat] /\ bound \in Nat /\ \A p \in D : mu[p] < bound
  BY WeightBound, StepsFinite
<1>10. ASSUME NEW h \in H, NEW k \in H, NEW p \in D,
              \A q \in D : mu[q] < mu[p] => h[q] = k[q]
       PROVE  F[h][p] = F[k][p]
  <2>1. PICK n \in Steps, c \in Colourings : p = <<n, c>>
    OBVIOUS
  <2>2. ASSUME NEW d \in Steps, NEW e \in Colourings, Weight(d, e) < Weight(n, c)
        PROVE  h[<<d, e>>] = k[<<d, e>>]
    <3>1. <<d, e>> \in D /\ mu[<<d, e>>] = Weight(d, e) /\ mu[p] = Weight(n, c)
      BY <2>1
    <3> HIDE DEF D, mu, H
    <3> QED  BY <1>10, <2>2, <3>1
  <2>3. \A d \in Steps, e \in Colourings : Weight(d, e) < Weight(n, c) => Curry(h)[d][e] = Curry(k)[d][e]
    <3>1. \A d \in Steps, e \in Colourings : Curry(h)[d][e] = h[<<d, e>>] /\ Curry(k)[d][e] = k[<<d, e>>]
      <4> HIDE DEF Curry, H
      <4> QED  BY <1>2
    <3>2. \A d \in Steps, e \in Colourings : Weight(d, e) < Weight(n, c) => h[<<d, e>>] = k[<<d, e>>]
      BY <2>2
    <3> HIDE DEF Curry, H
    <3> QED  BY <3>1, <3>2
  <2>4. Visited(g, Curry(h), n, c) = Visited(g, Curry(k), n, c)
    <3>1. Settles(Curry(h), n, c) /\ Settles(Curry(k), n, c)
      <4> HIDE DEF Curry, H
      <4> QED  BY <1>2
    <3> HIDE DEF Curry, H
    <3> QED  BY <2>3, <3>1, VisitAgrees
  <2>5. F[h] = G(h) /\ F[k] = G(k)
    <3> HIDE DEF G, H
    <3> QED  OBVIOUS
  <2>6. G(h)[p] = Visited(g, Curry(h), n, c) /\ G(k)[p] = Visited(g, Curry(k), n, c)
    <3> HIDE DEF Curry, H
    <3> QED  BY <2>1
  <2> HIDE DEF F, G, H, Curry
  <2> QED  BY <2>4, <2>5, <2>6
<1>11. PICK h \in H : h = F[h]
  <2> HIDE DEF D, H, F, mu, bound
  <2>1. Recurs(D, H, F, mu, bound)
    BY <1>6, <1>7, <1>8, <1>9, <1>10 DEF Recurs
  <2> QED  BY <2>1, Recursion
<1>12. h = G(h)
  <2> HIDE DEF G, H
  <2> QED  BY <1>11
<1>13. \A n \in Steps, c \in Colourings : h[<<n, c>>] = Visited(g, Curry(h), n, c)
  <2>1. \A n \in Steps, c \in Colourings : G(h)[<<n, c>>] = Visited(g, Curry(h), n, c)
    <3> HIDE DEF Curry, H
    <3> QED  BY <1>1
  <2> HIDE DEF G, Curry, H
  <2> QED  BY <1>12, <2>1
<1> DEFINE v == Curry(h)
<1>14. v = [n \in Steps |-> [c \in Colourings |-> Visited(g, v, n, c)]]
  <2>1. v = [n \in Steps |-> [c \in Colourings |-> h[<<n, c>>]]]
    OBVIOUS
  <2>2. \A n \in Steps, c \in Colourings : h[<<n, c>>] = Visited(g, v, n, c)
    BY <1>13
  <2>3. [n \in Steps |-> [c \in Colourings |-> h[<<n, c>>]]]
          = [n \in Steps |-> [c \in Colourings |-> Visited(g, v, n, c)]]
    <3> HIDE DEF v, H
    <3> QED  BY <2>2
  <2> HIDE DEF v
  <2> QED  BY <2>1, <2>3
<1> QED  BY <1>14

Solves(g, v) == v = [n \in Steps |-> [c \in Colourings |-> Visited(g, v, n, c)]]

LEMMA VisitSettles ==
  ASSUME NEW g \in [Steps -> SUBSET Steps], NEW v, Solves(g, v)
  PROVE  \A n \in Steps, c \in Colourings :
           /\ v[n][c] = Visited(g, v, n, c) /\ v[n][c] \in Left(n, c)
           /\ Settles(v, n, c)
<1>1. \A n \in Steps, c \in Colourings : v[n][c] = Visited(g, v, n, c)
  BY DEF Solves
<1> DEFINE Wrong(w) == \E n \in Steps, c \in Colourings : Weight(n, c) = w /\ v[n][c] \notin Left(n, c)
           Weights == {w \in Nat : Wrong(w)}
<1>2. Weights = {}
  <2> SUFFICES ASSUME Weights # {}  PROVE FALSE
    OBVIOUS
  <2>1. PICK w \in Weights : \A x \in Weights : w <= x
    <3>1. Weights \in SUBSET Nat
      OBVIOUS
    <3> HIDE DEF Weights
    <3> QED  BY <3>1, LeastNatural
  <2>2. PICK n \in Steps, c \in Colourings : Weight(n, c) = w /\ v[n][c] \notin Left(n, c)
    BY <2>1
  <2>3. ASSUME NEW d \in Steps, NEW k \in Colourings, Weight(d, k) < Weight(n, c)
        PROVE  v[d][k] \in Left(d, k)
    <3>1. Weight(d, k) \in Nat /\ w \in Nat /\ ~(w <= Weight(d, k))
      BY <2>2, <2>3, WeightBound
    <3> QED  BY <2>1, <3>1
  <2>4. Settles(v, n, c)
    BY <2>3 DEF Settles
  <2> QED  BY <1>1, <2>2, <2>4, VisitTraced
<1>3. \A n \in Steps, c \in Colourings : v[n][c] \in Left(n, c)
  <2>1. \A n \in Steps, c \in Colourings : Weight(n, c) \in Nat
    BY WeightBound
  <2> QED  BY <1>2, <2>1
<1> QED  BY <1>1, <1>3 DEF Settles

(* In every set of such steps one has no dependency in the set.            *)
Ordered(g, B) == \A S \in SUBSET B : S # {} => \E s \in S : g[s] \cap S = {}

(* The steps a visit is done with form an ordered graph of their own.      *)
Done(g, c) == (\A b \in Blacks(c) : g[b] \subseteq Blacks(c)) /\ Ordered(g, Blacks(c))

(* Every step being visited depends on another, or on n.                   *)
Pending(g, n, c) == \A a \in Greys(c) : g[a] \cap (Greys(c) \cup {n}) # {}

(* What a visit of n makes of the colours: it finishes n and whatever n    *)
(* needs, and meets a cycle only if there is one.                          *)
Finishes(g, n, c, r) ==
  /\ r # Cyclic => /\ r \in Colours /\ Greys(r) = Greys(c)
                   /\ Blacks(c) \cup {n} \subseteq Blacks(r)
                   /\ Done(g, c) => Done(g, r)
  /\ Ordered(g, Steps) /\ Pending(g, n, c) => r # Cyclic

(* What the visit of n has made of them when it has followed s.            *)
Finishing(g, n, c, s, k) ==
  /\ k # Cyclic => /\ k \in Colours /\ Greys(k) = Greys(c) \cup {n}
                   /\ Blacks(c) \cup s \subseteq Blacks(k)
                   /\ Done(g, c) => Done(g, k)
  /\ Ordered(g, Steps) /\ Pending(g, n, c) => k # Cyclic

LEMMA DoneGrows ==
  ASSUME NEW g \in [Steps -> SUBSET Steps], NEW n \in Steps, NEW k \in Colours,
         k[n] = "grey", Done(g, k), g[n] \subseteq Blacks(k)
  PROVE  Done(g, [k EXCEPT ![n] = "black"])
<1> DEFINE r == [k EXCEPT ![n] = "black"]
<1>1. Blacks(r) = Blacks(k) \cup {n} /\ n \notin Blacks(k)
  BY DEF Blacks, Colours
<1>2. \A b \in Blacks(r) : g[b] \subseteq Blacks(k)
  BY <1>1 DEF Done
<1>3. ASSUME NEW S \in SUBSET Blacks(r), S # {}
      PROVE  \E s \in S : g[s] \cap S = {}
  <2>1. CASE S = {n}
    <3>1. g[n] \cap S = {}
      BY <1>1, <2>1
    <3> QED  BY <2>1, <3>1
  <2>2. CASE S # {n}
    <3>1. S \ {n} \in SUBSET Blacks(k) /\ S \ {n} # {}
      BY <1>1, <1>3, <2>2
    <3>2. PICK s \in S \ {n} : g[s] \cap (S \ {n}) = {}
      BY <3>1 DEF Done, Ordered
    <3>3. n \notin g[s]
      BY <1>1, <1>2, <3>1, <3>2 DEF Done
    <3> QED  BY <3>2, <3>3
  <2> QED  BY <2>1, <2>2
<1> HIDE DEF r
<1>4. Done(g, r)
  BY <1>1, <1>2, <1>3 DEF Done, Ordered
<1> QED  BY <1>4 DEF r

LEMMA EdgeFollowed ==
  ASSUME NEW g \in [Steps -> SUBSET Steps], NEW v, NEW n \in Steps, NEW c \in Colours,
         NEW s \in SUBSET g[n], NEW d \in g[n], NEW k \in Left(n, c), Finishing(g, n, c, s, k),
         k \in Colours /\ k[d] = "white" => Finishes(g, d, k, v[d][k]),
         NEW after, after = (IF k[d] = "white" THEN v[d][k]
                             ELSE IF k[d] = "grey" THEN Cyclic ELSE k)
  PROVE  Finishing(g, n, c, s \cup {d}, after)
<1>1. d \in Steps
  OBVIOUS
<1>2. CASE k = Cyclic
  <2>1. after = Cyclic
    BY <1>1, <1>2 DEF Cyclic
  <2> QED  BY <1>2, <2>1 DEF Finishing
<1>3. CASE k # Cyclic
  <2>1. k \in Colours /\ Greys(k) = Greys(c) \cup {n} /\ Blacks(c) \cup s \subseteq Blacks(k)
        /\ (Done(g, c) => Done(g, k))
    BY <1>3 DEF Finishing
  <2>2. CASE k[d] = "white"
    <3>1. after = v[d][k] /\ Finishes(g, d, k, after)
      BY <2>1, <2>2
    <3>2. after # Cyclic => /\ after \in Colours /\ Greys(after) = Greys(c) \cup {n}
                            /\ Blacks(c) \cup (s \cup {d}) \subseteq Blacks(after)
                            /\ Done(g, c) => Done(g, after)
      BY <2>1, <3>1 DEF Finishes
    <3>3. Pending(g, n, c) => Pending(g, d, k)
      BY <2>1 DEF Pending
    <3>4. Ordered(g, Steps) /\ Pending(g, n, c) => after # Cyclic
      BY <3>1, <3>3 DEF Finishes
    <3> QED  BY <3>2, <3>4 DEF Finishing
  <2>3. CASE k[d] = "grey"
    <3>1. d \in Greys(k)
      BY <1>1, <2>3 DEF Greys
    <3>2. Pending(g, n, c) => \A a \in Greys(k) : g[a] \cap Greys(k) # {}
      BY <2>1, <3>1 DEF Pending
    <3>3. Greys(k) \in SUBSET Steps /\ Greys(k) # {}
      BY <3>1 DEF Greys
    <3>4. ~(Ordered(g, Steps) /\ Pending(g, n, c))
      BY <3>2, <3>3 DEF Ordered
    <3>5. after = Cyclic
      BY <2>3
    <3> QED  BY <3>4, <3>5 DEF Finishing
  <2>4. CASE k[d] \notin {"white", "grey"}
    <3>1. after = k /\ d \in Blacks(k)
      BY <1>1, <2>1, <2>4 DEF Blacks, Colours
    <3> QED  BY <1>3, <2>1, <3>1 DEF Finishing
  <2> QED  BY <2>2, <2>3, <2>4
<1> QED  BY <1>2, <1>3

LEMMA VisitStep ==
  ASSUME NEW g \in [Steps -> SUBSET Steps], NEW v, Solves(g, v),
         NEW n \in Steps, NEW c \in Colours, c[n] = "white",
         \A d \in Steps, k \in Colours :
           k[d] = "white" /\ Cardinality(Whites(k)) < Cardinality(Whites(c))
             => Finishes(g, d, k, v[d][k])
  PROVE  Finishes(g, n, c, v[n][c])
<1>1. c \in Colourings /\ Settles(v, n, c) /\ v[n][c] = Visited(g, v, n, c)
  BY VisitSettles, Cyclics
<1>2. PICK h : Trace(g, v, n, c, h)
  BY <1>1, VisitTraced
<1> DEFINE S == g[n]
           P == {s \in SUBSET S : Finishing(g, n, c, s, h[s])}
<1>3. S \in SUBSET Steps /\ IsFiniteSet(S)
  BY StepsFinite, FS_Subset
<1>4. {} \in P
  <2> DEFINE b == [c EXCEPT ![n] = "grey"]
  <2>1. h[{}] = b
    BY <1>2 DEF Trace
  <2>2. b \in Colours /\ b # Cyclic
    BY Cyclics DEF Colours
  <2>3. Greys(b) = Greys(c) \cup {n} /\ Blacks(b) = Blacks(c)
    BY DEF Greys, Blacks, Colours
  <2> HIDE DEF b
  <2>4. Finishing(g, n, c, {}, b)
    BY <2>2, <2>3 DEF Finishing, Done
  <2> QED  BY <2>1, <2>4
<1>5. ASSUME NEW s \in SUBSET S, s # {}, s \ {First(s)} \in P  PROVE s \in P
  <2> DEFINE d == First(s)
             t == s \ {d}
             k == h[t]
  <2>1. d \in S /\ d \in Steps /\ t \in SUBSET S /\ t \cup {d} = s
    BY <1>3, <1>5 DEF First
  <2>2. k \in Left(n, c)
    BY <1>2, <2>1 DEF Trace
  <2>3. h[s] = Followed(v, d, k)
    BY <1>2, <1>5 DEF Trace
  <2>4. Finishing(g, n, c, t, k)
    BY <1>5
  <2> HIDE DEF d, k, t
  <2>5. /\ Followed(v, d, k) = (IF k[d] = "white" THEN v[d][k]
                                 ELSE IF k[d] = "grey" THEN Cyclic ELSE k)
        /\ k[d] = "white" => Cardinality(Whites(k)) < Cardinality(Whites(c))
    BY <1>1, <2>1, <2>2, Follows
  <2>6. k \in Colours /\ k[d] = "white" => Finishes(g, d, k, v[d][k])
    BY <2>1, <2>5
  <2>7. Finishing(g, n, c, t \cup {d}, Followed(v, d, k))
    BY <2>1, <2>2, <2>4, <2>5, <2>6, EdgeFollowed
  <2> QED  BY <2>1, <2>3, <2>7
<1>6. P = SUBSET S
  <2>1. P \in SUBSET SUBSET S
    OBVIOUS
  <2> HIDE DEF P, S
  <2> QED  BY <1>3, <1>4, <1>5, <2>1, SubsetInduction
<1> DEFINE k == h[g[n]]
           r == v[n][c]
<1>7. Finishing(g, n, c, g[n], k)
  BY <1>6
<1>8. r = IF k = Cyclic THEN Cyclic ELSE [k EXCEPT ![n] = "black"]
  BY <1>1, <1>2 DEF Trace
<1> HIDE DEF k, r
<1>9. CASE k = Cyclic
  BY <1>7, <1>8, <1>9 DEF Finishing, Finishes, r
<1>10. CASE k # Cyclic
  <2>1. k \in Colours /\ Greys(k) = Greys(c) \cup {n} /\ Blacks(c) \cup g[n] \subseteq Blacks(k)
        /\ (Done(g, c) => Done(g, k))
    BY <1>7, <1>10 DEF Finishing
  <2>2. r = [k EXCEPT ![n] = "black"] /\ r \in Colours /\ r # Cyclic
    BY <1>8, <1>10, <2>1, Cyclics DEF Colours
  <2>3. n \notin Greys(c) /\ k[n] = "grey"
    BY <2>1 DEF Greys
  <2>4. Greys(r) = Greys(c)
    BY <2>1, <2>2, <2>3 DEF Greys, Colours
  <2>5. Blacks(c) \cup {n} \subseteq Blacks(r)
    BY <2>1, <2>2 DEF Blacks, Colours
  <2>6. Done(g, c) => Done(g, r)
    BY <2>1, <2>2, <2>3, DoneGrows
  <2> QED  BY <2>2, <2>4, <2>5, <2>6 DEF Finishes, r
<1> QED  BY <1>9, <1>10

LEMMA VisitFinishes ==
  ASSUME NEW g \in [Steps -> SUBSET Steps], NEW v, Solves(g, v)
  PROVE  \A n \in Steps, c \in Colours : c[n] = "white" => Finishes(g, n, c, v[n][c])
<1> DEFINE Bad(n, c) == c[n] = "white" /\ ~Finishes(g, n, c, v[n][c])
           Wrong(w) == \E n \in Steps, c \in Colours : Cardinality(Whites(c)) = w /\ Bad(n, c)
           Sizes == {w \in Nat : Wrong(w)}
<1>1. \A c : Cardinality(Whites(c)) \in Nat
  BY WhitesFinite
<1>2. Sizes = {}
  <2> SUFFICES ASSUME Sizes # {}  PROVE FALSE
    OBVIOUS
  <2>1. PICK w \in Sizes : \A x \in Sizes : w <= x
    <3>1. Sizes \in SUBSET Nat
      OBVIOUS
    <3> HIDE DEF Sizes
    <3> QED  BY <3>1, LeastNatural
  <2>2. PICK n \in Steps, c \in Colours : Cardinality(Whites(c)) = w /\ Bad(n, c)
    BY <2>1
  <2>3. ASSUME NEW d \in Steps, NEW k \in Colours, k[d] = "white",
               Cardinality(Whites(k)) < Cardinality(Whites(c))
        PROVE  Finishes(g, d, k, v[d][k])
    <3>1. Cardinality(Whites(k)) \in Nat /\ w \in Nat /\ ~(w <= Cardinality(Whites(k)))
      BY <1>1, <2>2, <2>3
    <3> QED  BY <2>1, <2>3, <3>1
  <2> QED  BY <2>2, <2>3, VisitStep
<1> QED  BY <1>1, <1>2

(* What the visits of the steps of s have made of the colours.             *)
Exploring(g, s, k) ==
  /\ k # Cyclic => k \in Colours /\ Greys(k) = {} /\ s \subseteq Blacks(k) /\ Done(g, k)
  /\ Ordered(g, Steps) => k # Cyclic

LEMMA ExploredAccepts ==
  ASSUME NEW g \in [Steps -> SUBSET Steps]
  PROVE  Explored(g) # Cyclic <=> Ordered(g, Steps)
<1> DEFINE v == CHOOSE w : w = [n \in Steps |-> [c \in Colourings |-> Visited(g, w, n, c)]]
           Root(d, k) == IF k[d] = "white" THEN v[d][k] ELSE k
           O == [d \in Steps |-> [k \in Colourings |-> Root(d, k)]]
           G(h) == [s \in SUBSET Steps |-> IF s = {} THEN White
                                           ELSE Root(First(s), h[s \ {First(s)}])]
           fold == CHOOSE h : h = G(h)
<1>1. Solves(g, v)
  BY VisitExists DEF Solves
<1>2. Explored(g) = fold[Steps]
  BY DEF Explored, FoldSet, MapThenFoldSet, First
<1> HIDE DEF v
<1>3. White \in Colours /\ White \in Colourings
  BY Cyclics DEF White, Colours
<1>4. ASSUME NEW d \in Steps, NEW k \in Colourings  PROVE Root(d, k) \in Colourings
  <2>1. CASE k = Cyclic
    BY <1>4, <2>1 DEF Cyclic
  <2>2. CASE k # Cyclic
    BY <1>1, <1>4, <2>2, VisitSettles DEF Left
  <2> QED  BY <2>1, <2>2
<1>5. O \in [Steps -> [Colourings -> Colourings]]
  <2> HIDE DEF Root
  <2> QED  BY <1>4
<1>6. PICK h : Iterates(Steps, Colourings, White, O, h)
  <2> HIDE DEF O
  <2> QED  BY <1>3, <1>5, StepsFinite, FoldIterates
<1>7. \A s \in SUBSET Steps : s # {} => First(s) \in s /\ First(s) \in Steps /\ s \ {First(s)} \in SUBSET Steps
  BY DEF First
<1>8. h = G(h)
  <2>1. h \in [SUBSET Steps -> Colourings]
    BY <1>6 DEF Iterates
  <2>2. \A s \in SUBSET Steps : h[s] = IF s = {} THEN White ELSE O[First(s)][h[s \ {First(s)}]]
    <3> HIDE DEF O
    <3> QED  BY <1>6 DEF Iterates
  <2>3. \A s \in SUBSET Steps : s # {} => O[First(s)][h[s \ {First(s)}]] = Root(First(s), h[s \ {First(s)}])
    <3> HIDE DEF Root
    <3> QED  BY <1>7, <2>1
  <2>4. \A s \in SUBSET Steps : h[s] = G(h)[s]
    <3> HIDE DEF Root, O
    <3> QED  BY <2>2, <2>3
  <2> HIDE DEF Root, O
  <2> QED  BY <2>1, <2>4
<1>9. fold = G(fold)
  <2> HIDE DEF G
  <2> QED  BY <1>8
<1>10. fold[{}] = White
  <2> HIDE DEF fold, Root
  <2> QED  BY <1>9
<1>11. \A s \in SUBSET Steps : s # {} => fold[s] = Root(First(s), fold[s \ {First(s)}])
  <2> HIDE DEF fold, Root
  <2> QED  BY <1>9
<1> DEFINE P == {s \in SUBSET Steps : Exploring(g, s, fold[s])}
<1>12. {} \in P
  <2>1. Greys(White) = {} /\ Blacks(White) = {}
    BY DEF Greys, Blacks, White
  <2>2. Exploring(g, {}, White)
    BY <1>3, <2>1, Cyclics DEF Exploring, Done, Ordered
  <2> QED  BY <1>10, <2>2
<1>13. ASSUME NEW s \in SUBSET Steps, s # {}, s \ {First(s)} \in P  PROVE s \in P
  <2> DEFINE d == First(s)
             t == s \ {d}
             k == fold[t]
  <2>1. d \in Steps /\ t \cup {d} = s
    BY <1>7, <1>13
  <2>2. fold[s] = Root(d, k)
    BY <1>11, <1>13
  <2>3. Exploring(g, t, k)
    BY <1>13
  <2> HIDE DEF d, k, t, fold
  <2>4. CASE k = Cyclic
    <3>1. Root(d, k) = Cyclic
      BY <2>1, <2>4 DEF Cyclic
    <3> QED  BY <2>2, <2>3, <2>4, <3>1 DEF Exploring
  <2>5. CASE k # Cyclic
    <3>1. k \in Colours /\ Greys(k) = {} /\ t \subseteq Blacks(k) /\ Done(g, k)
      BY <2>3, <2>5 DEF Exploring
    <3>2. CASE k[d] = "white"
      <4>1. Finishes(g, d, k, fold[s])
        BY <1>1, <2>1, <2>2, <3>1, <3>2, VisitFinishes
      <4>2. Pending(g, d, k)
        BY <3>1 DEF Pending
      <4>3. Exploring(g, s, fold[s])
        BY <2>1, <3>1, <4>1, <4>2 DEF Exploring, Finishes
      <4> QED  BY <4>3
    <3>3. CASE k[d] # "white"
      <4>1. d \in Blacks(k)
        BY <2>1, <3>1, <3>3 DEF Greys, Blacks, Colours
      <4>2. Exploring(g, s, k)
        BY <2>1, <2>5, <3>1, <4>1 DEF Exploring
      <4> QED  BY <2>2, <3>3, <4>2
    <3> QED  BY <3>2, <3>3
  <2> QED  BY <2>4, <2>5
<1>14. P = SUBSET Steps
  <2>1. P \in SUBSET SUBSET Steps
    OBVIOUS
  <2> HIDE DEF P
  <2> QED  BY <1>12, <1>13, <2>1, StepsFinite, SubsetInduction
<1>15. Exploring(g, Steps, fold[Steps])
  BY <1>14
<1> HIDE DEF fold
<1>16. fold[Steps] # Cyclic => Ordered(g, Steps)
  BY <1>15 DEF Exploring, Done, Ordered
<1> QED  BY <1>2, <1>15, <1>16 DEF Exploring

LEMMA AcceptedOrdered ==
  ASSUME NEW g \in [Steps -> SUBSET Steps]
  PROVE  Accepted(g) <=> Ordered(g, Steps)
<1>1. ASSUME Ordered(g, Steps), NEW s \in Steps  PROVE s \notin g[s]
  <2>1. \E r \in {s} : g[r] \cap {s} = {}
    BY <1>1 DEF Ordered
  <2> QED  BY <2>1
<1> QED  BY <1>1, ExploredAccepts DEF Accepted

(* Whatever the graph, _reject_cycles raises exactly on the graphs whose   *)
(* steps cannot be ordered: from every step not yet visited it finds every *)
(* cycle within reach, and an edge back to a step still being visited is   *)
(* part of one.                                                            *)
THEOREM AcceptedAreOrdered == Spec => []AcceptsOrderedGraphs
<1>1. Inv => AcceptsOrderedGraphs
  <2> SUFFICES ASSUME Inv  PROVE AcceptsOrderedGraphs
    OBVIOUS
  <2>1. deps \in [Steps -> SUBSET Steps]
    BY DEF Inv, TypeOK
  <2>2. Accepted(deps) <=> Ordered(deps, Steps)
    BY <2>1, AcceptedOrdered
  <2> QED  BY <2>2 DEF AcceptsOrderedGraphs, Ordered
<1>. QED  BY <1>1, InvHolds, PTL
=============================================================================
