------------------------ MODULE WorkflowCoordinator ------------------------
(***************************************************************************)
(* The workflow coordinator (core/orchestration/use_cases/                 *)
(* workflow_coordinator.py): it turns one workflow, a graph of steps, into *)
(* sessions and queued tasks, reacts to the ends of those tasks, and picks *)
(* up from the log after a restart.  Workflows share no state, so one is   *)
(* enough.                                                                 *)
(*                                                                         *)
(* No handler of the coordinator really suspends, so nothing of the        *)
(* process runs between the emits of one handler; but the process may die  *)
(* there, with some of them in the log and the others lost.  A handler is  *)
(* therefore a script of emits, performed one by one.                      *)
(***************************************************************************)
EXTENDS Naturals, Sequences, FiniteSetsExt

CONSTANTS NumSteps,   \* steps of the workflow, numbered in declaration order
          MaxCrashes, \* crashes in one behaviour
          Ops         \* "cancel": clients cancel queued tasks

ASSUME CoordinatorAssumption ==
  /\ NumSteps \in Nat \ {0}
  /\ MaxCrashes \in Nat
  /\ Ops \subseteq {"cancel"}

Steps == 1 .. NumSteps
NoStep == 0

VARIABLES
  (* The graph a client submits. *)
  deps,      \* step -> the steps in its depends_on
  inherits,  \* step -> the steps its from_step mounts name
  (* The log. *)
  created,   \* workflow.created is in the log
  started,   \* step -> "no", or what its workflow.step.started says
  completed, \* steps with a workflow.step.completed
  failed,    \* steps with a workflow.step.failed
  outcome,   \* workflow.completed, workflow.failed or "none"
  task,      \* step -> the last task event of its session
  git,       \* step -> "pushed" once a task.git_result says so, else "none"
  (* The coordinator. *)
  pc,        \* "down", "resuming", "idle" or "advancing"
  busq,      \* its subscription
  script,    \* emits its handler has still to perform
  memory,    \* what it has in its sets and maps
  shown,     \* the read model behind GET /v1/workflows/{id}
  (* The dispatcher. *)
  inspecting,\* step whose git state is being read after its task.completed
  (* The environment. *)
  crashes,
  (* Observation only. *)
  produced,  \* step -> what its run left in git
  blamed     \* step -> why it failed

graphVars == <<deps, inherits>>
wfLog     == <<created, started, completed, failed, outcome>>
ghostVars == <<produced, blamed>>
vars == <<graphVars, wfLog, task, git, pc, busq, script, memory, shown,
          inspecting, crashes, ghostVars>>

(* What a later step can tell of a git result: that there is one, of a     *)
(* branch that is on origin.                                               *)
GitResults == {"none", "pushed"}

(* What git answers in a step's workspace: HEAD before and after the run,  *)
(* the branch ("HEAD" when detached, "none" when git fails), and whether   *)
(* origin has a branch of that name, as far as the clone knows.            *)
Workspaces == [hadHead : BOOLEAN, hasHead : BOOLEAN, branch : {"none", "HEAD", "named"},
               tracked : BOOLEAN]

IsPushed(w) == w.branch = "named" /\ w.tracked

(* inspect: without both heads there is no result to emit, and to a later  *)
(* step one that is not pushed is as good as none.                         *)
Inspected(w) == IF w.hadHead /\ w.hasHead /\ IsPushed(w) THEN "pushed" ELSE "none"

(* _resolve_ref: a result that is pushed has a head and a real branch, so  *)
(* neither mode of a mount asks for more.                                  *)
Inheritable(result) == result = "pushed"

(* The colours of a depth-first visit; every node is "cyclic" once a cycle *)
(* is met.                                                                 *)
White == [s \in Steps |-> "white"]
Cyclic == [s \in Steps |-> "cyclic"]
Colourings == [Steps -> {"white", "grey", "black"}] \cup {Cyclic}

(* Wrong variant of Followed: an edge back to a step being visited is      *)
(* taken for an edge to one already visited.                               *)
FollowedBack(visit, d, colour) ==
  IF colour[d] = "white" THEN visit[d][colour] ELSE colour

(* One edge of a visit, to d.                                              *)
Followed(visit, d, colour) ==
  CASE colour[d] = "white" -> visit[d][colour]
    [] colour[d] = "grey" -> Cyclic
    [] OTHER -> colour

(* One visit, of n, the steps it meets being visited with visit.           *)
Visited(g, visit, n, c) ==
  LET after == FoldSet(LAMBDA d, k : Followed(visit, d, k),
                       [c EXCEPT ![n] = "grey"], g[n])
  IN IF after = Cyclic THEN Cyclic ELSE [after EXCEPT ![n] = "black"]

(* _reject_cycles: visit every step not yet visited.                       *)
Explored(g) ==
  LET visit[n \in Steps] == [c \in Colourings |-> Visited(g, visit, n, c)]
      root(n, c) == IF c[n] = "white" THEN visit[n][c] ELSE c
  IN FoldSet(root, White, Steps)

(* validate_workflow, of graphs whose ids are unique and known and whose   *)
(* from_step mounts name dependencies.                                     *)
Accepted(g) == (\A s \in Steps : s \notin g[s]) /\ Explored(g) # Cyclic

Event(type, s) == [type |-> type, step |-> s]

-----------------------------------------------------------------------------
(* The read model: a fold of workflow.* events.                            *)

NothingShown == [known |-> FALSE, started |-> {}, completed |-> {}, failed |-> {}]

Shown(view, e) ==
  CASE e.type = "workflow.created" -> [NothingShown EXCEPT !.known = TRUE]
    [] e.type \in {"started", "started unprovisioned"} ->
         [view EXCEPT !.started = @ \cup {e.step}]
    [] e.type = "step.completed" -> [view EXCEPT !.completed = @ \cup {e.step}]
    [] e.type = "step.failed" -> [view EXCEPT !.failed = @ \cup {e.step}]
    [] OTHER -> view

(* Wrong variant of Replayed: only the ends of steps are replayed.         *)
ReplayedEnds ==
  [NothingShown EXCEPT !.known = created, !.completed = completed, !.failed = failed]

(* bootstrap_from_log of the read model: the log replayed, in the order of *)
(* its events (two of one millisecond can be replayed in either order,     *)
(* which is left out here).                                                *)
Replayed ==
  [known     |-> created,
   started   |-> {s \in Steps : started[s] # "no"},
   completed |-> completed,
   failed    |-> failed]

-----------------------------------------------------------------------------
(* The emits of a handler.                                                 *)

(* Which log variable an emitted event is recorded in.                     *)
Record(e) ==
  /\ started' = IF e.type \in {"started", "started unprovisioned"}
                THEN [started EXCEPT ![e.step] = e.type] ELSE started
  /\ completed' = IF e.type = "step.completed" THEN completed \cup {e.step} ELSE completed
  /\ failed' = IF e.type = "step.failed" THEN failed \cup {e.step} ELSE failed
  /\ outcome' = IF e.type = "workflow.completed" THEN "completed"
                ELSE IF e.type = "workflow.failed" THEN "failed" ELSE outcome
  /\ task' = IF e.type = "task.queued" THEN [task EXCEPT ![e.step] = "queued"]
             ELSE IF e.type = "task.failed" THEN [task EXCEPT ![e.step] = "failed"]
             ELSE task

(* The next emit: to the log, and to the coordinator's own subscription.   *)
EmitNext ==
  /\ script # <<>>
  /\ Record(Head(script))
  /\ busq' = Append(busq, Head(script))
  /\ script' = Tail(script)
  /\ UNCHANGED <<graphVars, created, git, pc, memory, shown, inspecting, crashes,
                 produced, blamed>>

(* Between two events, and between two steps of a pass over the workflow.  *)
Ready(where) == pc = where /\ script = <<>>

Ended(s) == s \in memory.completed \cup memory.failed

(* _mark_step_completed and _mark_step_failed: what they emit, what they   *)
(* record.  The first failure fails the workflow.                          *)
MarkCompleted(s) ==
  /\ script' = IF Ended(s) THEN <<>> ELSE <<Event("step.completed", s)>>
  /\ memory' = IF Ended(s) THEN memory ELSE [memory EXCEPT !.completed = @ \cup {s}]

(* Wrong variant of FailureEmits: no failure ends the workflow.            *)
FailureEmitsNone(s) == <<Event("step.failed", s)>>

FailureEmits(s) ==
  <<Event("step.failed", s)>>
    \o (IF memory.terminal THEN <<>> ELSE <<Event("workflow.failed", s)>>)

MarkFailed(s) ==
  /\ script' = IF Ended(s) THEN <<>> ELSE FailureEmits(s)
  /\ memory' = IF Ended(s) THEN memory
               ELSE [memory EXCEPT !.failed = @ \cup {s}, !.terminal = TRUE]
  /\ blamed' = IF Ended(s) THEN blamed ELSE [blamed EXCEPT ![s] = "task"]

-----------------------------------------------------------------------------
(* Starting steps.                                                         *)

(* Wrong variant of Eligible: one completed dependency is enough.          *)
EligibleAny(s) ==
  /\ s \notin memory.started \cup memory.failed
  /\ deps[s] = {} \/ deps[s] \cap memory.completed # {}

Eligible(s) ==
  /\ s \notin memory.started \cup memory.failed
  /\ deps[s] \subseteq memory.completed

(* _resolve_mounts reads the predecessors' git results from the log; a     *)
(* result that is missing or not pushed is an error.                       *)
Unresolved(s) ==
  {p \in inherits[s] : p \notin memory.linked \/ ~Inheritable(git[p])}

(* Cloning fails: the step fails without a session.                        *)
StartUnprovisioned(s) ==
  /\ script' = <<Event("started unprovisioned", s)>> \o FailureEmits(s)
  /\ memory' = [memory EXCEPT !.started = @ \cup {s}, !.failed = @ \cup {s},
                              !.terminal = TRUE]
  /\ blamed' = [blamed EXCEPT ![s] = "provisioning"]

(* A mount cannot be resolved: the step's session gets a task.failed.      *)
StartUnresolved(s) ==
  /\ Unresolved(s) # {}
  /\ script' = <<Event("started", s), Event("task.failed", s)>> \o FailureEmits(s)
  /\ memory' = [memory EXCEPT !.started = @ \cup {s}, !.linked = @ \cup {s},
                              !.failed = @ \cup {s}, !.terminal = TRUE]
  /\ blamed' = [blamed EXCEPT ![s] = "mount"]

(* Wrong variant of StartQueued: the task is queued before the start is in *)
(* the log.                                                                *)
StartQueuedFirst(s) ==
  /\ Unresolved(s) = {}
  /\ script' = <<Event("task.queued", s), Event("started", s)>>
  /\ memory' = [memory EXCEPT !.started = @ \cup {s}, !.linked = @ \cup {s}]
  /\ UNCHANGED blamed

StartQueued(s) ==
  /\ Unresolved(s) = {}
  /\ script' = <<Event("started", s), Event("task.queued", s)>>
  /\ memory' = [memory EXCEPT !.started = @ \cup {s}, !.linked = @ \cup {s}]
  /\ UNCHANGED blamed

StartStep(s) == StartUnprovisioned(s) \/ StartUnresolved(s) \/ StartQueued(s)

(* _advance: one step of the loop over the declared steps...               *)
AdvanceStarts ==
  /\ Ready("advancing")
  /\ ~memory.terminal
  /\ \E s \in Steps :
       /\ Eligible(s)
       /\ \A r \in Steps : r < s => ~Eligible(r)
       /\ StartStep(s)
  /\ UNCHANGED <<graphVars, wfLog, task, git, pc, busq, shown, inspecting, crashes,
                 produced>>

(* ... and its end: the workflow is terminal already, or nothing is left   *)
(* to start.                                                               *)
AdvanceEnds ==
  /\ Ready("advancing")
  /\ \/ memory.terminal /\ UNCHANGED <<script, memory>>
     \/ /\ ~memory.terminal
        /\ \A s \in Steps : ~Eligible(s)
        /\ IF memory.completed = Steps
           THEN /\ script' = <<Event("workflow.completed", NoStep)>>
                /\ memory' = [memory EXCEPT !.terminal = TRUE]
           ELSE UNCHANGED <<script, memory>>
  /\ pc' = "idle"
  /\ UNCHANGED <<graphVars, wfLog, task, git, busq, shown, inspecting, crashes,
                 ghostVars>>

-----------------------------------------------------------------------------
(* The loop: one event from the subscription.                              *)

Handle ==
  /\ Ready("idle")
  /\ busq # <<>>
  /\ LET e == Head(busq)
     IN /\ shown' = Shown(shown, e)
        /\ \/ /\ e.type = "workflow.created"
              /\ pc' = "advancing"
              /\ UNCHANGED <<script, memory, blamed>>
           \/ /\ e.type = "task.completed" /\ e.step \in memory.linked
              /\ MarkCompleted(e.step)
              /\ pc' = "advancing"
              /\ UNCHANGED blamed
           \/ /\ e.type = "task.failed" /\ e.step \in memory.linked
              /\ MarkFailed(e.step)
              /\ UNCHANGED pc
           \/ /\ ~(e.type = "workflow.created" \/
                   (e.type \in {"task.completed", "task.failed"} /\ e.step \in memory.linked))
              /\ UNCHANGED <<pc, script, memory, blamed>>
  /\ busq' = Tail(busq)
  /\ UNCHANGED <<graphVars, wfLog, task, git, inspecting, crashes, produced>>

-----------------------------------------------------------------------------
(* Crash and restart.                                                      *)

NoMemory == [started |-> {}, linked |-> {}, completed |-> {}, failed |-> {},
             terminal |-> FALSE, ended |-> [s \in Steps |-> "none"]]

Crash ==
  /\ pc # "down"
  /\ crashes < MaxCrashes
  /\ crashes' = crashes + 1
  /\ pc' = "down"
  /\ memory' = NoMemory /\ script' = <<>> /\ busq' = <<>>
  /\ shown' = NothingShown /\ inspecting' = NoStep
  /\ UNCHANGED <<graphVars, wfLog, task, git, ghostVars>>

(* bootstrap_from_log: what the log says, given the last task event of     *)
(* each step's session.                                                    *)
Remembered(last) ==
  [started   |-> {s \in Steps : started[s] # "no"},
   linked    |-> {s \in Steps : started[s] = "started"},
   completed |-> completed,
   failed    |-> failed,
   terminal  |-> outcome # "none",
   ended     |-> [s \in Steps |-> IF last[s] \in {"completed", "failed"} THEN last[s]
                                  ELSE "none"]]

(* The dispatcher fails the task in flight before the coordinator replays  *)
(* the log and subscribes.                                                 *)
Restart ==
  /\ pc = "down"
  /\ task' = [s \in Steps |-> IF task[s] = "dispatched" THEN "failed" ELSE task[s]]
  /\ memory' = Remembered(task')
  /\ shown' = Replayed
  /\ pc' = IF created /\ outcome = "none" THEN "resuming" ELSE "idle"
  /\ UNCHANGED <<graphVars, wfLog, git, busq, script, inspecting, crashes, ghostVars>>

(* A started step without an end whose session's task ended meanwhile.     *)
Unreconciled(s) ==
  s \in memory.linked /\ ~Ended(s) /\ memory.ended[s] # "none"

(* _resume: reconcile such steps in declared order, then advance.          *)
ResumeReconciles ==
  /\ Ready("resuming")
  /\ \E s \in Steps :
       /\ Unreconciled(s)
       /\ \A r \in Steps : r < s => ~Unreconciled(r)
       /\ \/ /\ memory.ended[s] = "completed"
             /\ MarkCompleted(s)
             /\ UNCHANGED blamed
          \/ /\ memory.ended[s] = "failed"
             /\ MarkFailed(s)
  /\ UNCHANGED <<graphVars, wfLog, task, git, pc, busq, shown, inspecting, crashes,
                 produced>>

ResumeAdvances ==
  /\ Ready("resuming")
  /\ \A s \in Steps : ~Unreconciled(s)
  /\ pc' = "advancing"
  /\ UNCHANGED <<graphVars, wfLog, task, git, busq, script, memory, shown,
                 inspecting, crashes, ghostVars>>

-----------------------------------------------------------------------------
(* The client that creates the workflow, the dispatcher that runs queued   *)
(* tasks one at a time, and clients that cancel them.                      *)

Between == script = <<>> /\ pc # "down"

(* POST /v1/workflows, once: a graph that is not accepted changes nothing. *)
Create ==
  /\ Between /\ pc = "idle" /\ ~created
  /\ Accepted(deps)
  /\ created' = TRUE
  /\ busq' = Append(busq, Event("workflow.created", NoStep))
  /\ UNCHANGED <<graphVars, started, completed, failed, outcome, task, git, pc,
                 script, memory, shown, inspecting, crashes, ghostVars>>

(* A handler's pass over the workflow does not suspend either.             *)
unchangedByTask == <<graphVars, wfLog, pc, script, memory, shown, crashes, blamed>>

TaskRuns(s) ==
  /\ Between /\ pc = "idle"
  /\ task[s] = "queued"
  /\ \A r \in Steps : task[r] # "dispatched"
  /\ inspecting = NoStep
  /\ task' = [task EXCEPT ![s] = "dispatched"]
  /\ UNCHANGED <<unchangedByTask, git, busq, inspecting, produced>>

(* task.completed is emitted first; the git state is read afterwards, in   *)
(* subprocesses, while the event loop goes on.                             *)
TaskCompletes(s) ==
  /\ Between /\ pc = "idle"
  /\ task[s] = "dispatched"
  /\ task' = [task EXCEPT ![s] = "completed"]
  /\ busq' = Append(busq, Event("task.completed", s))
  /\ inspecting' = s
  /\ \E r \in {Inspected(w) : w \in Workspaces} : produced' = [produced EXCEPT ![s] = r]
  /\ UNCHANGED <<unchangedByTask, git>>

TaskFails(s) ==
  /\ Between /\ pc = "idle"
  /\ task[s] = "dispatched"
  /\ task' = [task EXCEPT ![s] = "failed"]
  /\ busq' = Append(busq, Event("task.failed", s))
  /\ UNCHANGED <<unchangedByTask, git, inspecting, produced>>

(* task.git_result; nothing is emitted for a workspace without git.        *)
GitInspected ==
  /\ Between /\ pc = "idle"
  /\ inspecting # NoStep
  /\ git' = [git EXCEPT ![inspecting] = produced[inspecting]]
  /\ inspecting' = NoStep
  /\ UNCHANGED <<unchangedByTask, task, busq, produced>>

(* DELETE /v1/sessions/{id}/tasks/{id} of a queued task.                   *)
TaskCancelled(s) ==
  /\ "cancel" \in Ops
  /\ Between /\ pc = "idle"
  /\ task[s] = "queued"
  /\ task' = [task EXCEPT ![s] = "cancelled"]
  /\ UNCHANGED <<unchangedByTask, git, busq, inspecting, produced>>

-----------------------------------------------------------------------------
Init ==
  /\ deps \in [Steps -> SUBSET Steps]
  /\ inherits \in [Steps -> SUBSET Steps]
  /\ \A s \in Steps : inherits[s] \subseteq deps[s]
  /\ created = FALSE
  /\ started = [s \in Steps |-> "no"]
  /\ completed = {} /\ failed = {} /\ outcome = "none"
  /\ task = [s \in Steps |-> "absent"]
  /\ git = [s \in Steps |-> "none"]
  /\ pc = "idle" /\ busq = <<>> /\ script = <<>>
  /\ memory = NoMemory
  /\ shown = NothingShown
  /\ inspecting = NoStep
  /\ crashes = 0
  /\ produced = [s \in Steps |-> "none"]
  /\ blamed = [s \in Steps |-> "no"]

CoordinatorStep ==
  EmitNext \/ AdvanceStarts \/ AdvanceEnds \/ Handle \/ ResumeReconciles \/ ResumeAdvances

DispatcherStep ==
  \/ \E s \in Steps : TaskRuns(s) \/ TaskCompletes(s) \/ TaskFails(s)
  \/ GitInspected

(* Every task has ended or was never queued, and nobody has work left.     *)
Quiet ==
  /\ Ready("idle") /\ busq = <<>> /\ inspecting = NoStep
  /\ created \/ ~Accepted(deps)
  /\ \A s \in Steps : task[s] \notin {"queued", "dispatched"}
  /\ UNCHANGED vars

Next ==
  \/ CoordinatorStep
  \/ Create
  \/ DispatcherStep
  \/ \E s \in Steps : TaskCancelled(s)
  \/ Crash
  \/ Restart
  \/ Quiet

Spec == Init /\ [][Next]_vars

(* asyncio runs the coordinator's loop, the dispatcher runs queued tasks   *)
(* to an end (Dispatcher), and a supervisor restarts the process.          *)
Fairness ==
  /\ WF_vars(CoordinatorStep)
  /\ WF_vars(DispatcherStep)
  /\ WF_vars(Restart)

FairSpec == Spec /\ Fairness

-----------------------------------------------------------------------------
WorkflowEvents == {"workflow.created", "workflow.completed", "workflow.failed"}
StepEvents == {"started", "started unprovisioned", "step.completed", "step.failed",
               "task.queued", "task.completed", "task.failed"}
Events == [type : WorkflowEvents, step : Steps \cup {NoStep}] \cup [type : StepEvents, step : Steps]

Memories == [started : SUBSET Steps, linked : SUBSET Steps, completed : SUBSET Steps,
             failed : SUBSET Steps, terminal : BOOLEAN,
             ended : [Steps -> {"none", "completed", "failed"}]]
Views == [known : BOOLEAN, started : SUBSET Steps, completed : SUBSET Steps,
          failed : SUBSET Steps]

(* Every variable holds a value of its kind.                               *)
TypeOK ==
  /\ deps \in [Steps -> SUBSET Steps] /\ inherits \in [Steps -> SUBSET Steps]
  /\ created \in BOOLEAN
  /\ started \in [Steps -> {"no", "started", "started unprovisioned"}]
  /\ completed \subseteq Steps /\ failed \subseteq Steps
  /\ outcome \in {"none", "completed", "failed"}
  /\ task \in [Steps -> {"absent", "queued", "dispatched", "completed", "failed", "cancelled"}]
  /\ git \in [Steps -> GitResults] /\ produced \in [Steps -> GitResults]
  /\ pc \in {"down", "resuming", "idle", "advancing"}
  /\ busq \in Seq(Events) /\ script \in Seq(Events)
  /\ memory \in Memories
  /\ shown \in Views
  /\ inspecting \in Steps \cup {NoStep}
  /\ crashes \in 0 .. MaxCrashes
  /\ blamed \in [Steps -> {"no", "task", "mount", "provisioning"}]

(* The depth-first visit accepts a graph exactly if its steps can be       *)
(* ordered, every step after its dependencies: in every set of steps one   *)
(* has no dependency in the set.                                           *)
AcceptsOrderedGraphs ==
  ~created =>
    (Accepted(deps) <=>
       \A S \in SUBSET Steps : S # {} => \E s \in S : deps[s] \cap S = {})

(* Nothing is recorded twice, crash or not: no step is queued, started or  *)
(* ended twice, and no second terminal event follows the first, so that a  *)
(* restart never repeats what an agent has done.                           *)
NothingTwice ==
  script # <<>> =>
    LET e == Head(script)
    IN /\ e.type = "task.queued" => task[e.step] = "absent"
       /\ e.type \in {"started", "started unprovisioned"} => started[e.step] = "no"
       /\ e.type \in {"step.completed", "step.failed"} => e.step \notin completed \cup failed
       /\ e.type \in {"workflow.completed", "workflow.failed"} => outcome = "none"

(* Where a step is, by its events in the log.                              *)
Stage(s) ==
  CASE s \in failed -> "failed"
    [] s \in completed -> "completed"
    [] s \notin failed \cup completed /\ started[s] # "no" -> "started"
    [] OTHER -> "pending"

(* The log only ever tells what a workflow promises, whatever a crash      *)
(* leaves undone: no step before its dependencies have completed nor after *)
(* the end, ends that are those of the tasks, one end of the workflow.     *)
Lifecycle == INSTANCE WorkflowLifecycle WITH
  Steps <- Steps, deps <- deps, created <- created, task <- task, outcome <- outcome,
  stage <- [s \in Steps |-> Stage(s)],
  forgot <- crashes > 0
ImplementsWorkflow == Lifecycle!Spec

(* A step is failed for an unresolvable mount only when a predecessor's    *)
(* run really left nothing pushed.                                         *)
MountFailuresAreReal ==
  \A s \in Steps : blamed[s] = "mount" => \E p \in inherits[s] : ~Inheritable(produced[p])

(* A created workflow ends, crash or not.                                  *)
WorkflowEnds == created ~> outcome # "none"

Cancelled == \E s \in Steps : task[s] = "cancelled"

(* What a crash inside a handler leaves behind for good: a started step    *)
(* without a task, or a failed step without workflow.failed, and nobody at *)
(* work on either.                                                         *)
Stranded ==
  /\ crashes > 0
  /\ Ready("idle") /\ busq = <<>> /\ outcome = "none"
  /\ \/ failed # {}
     \/ \E s \in Steps : started[s] # "no" /\ task[s] = "absent"

(* Every other created workflow ends, through a crash and a restart at any *)
(* other point; only a cancelled task or one of these two gaps keeps it    *)
(* open.                                                                   *)
OtherWorkflowsEnd == created ~> outcome # "none" \/ Cancelled \/ Stranded
=============================================================================
