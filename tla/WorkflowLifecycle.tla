------------------------- MODULE WorkflowLifecycle -------------------------
(***************************************************************************)
(* What Mad promises about a workflow, with no process, no subscription    *)
(* and no handler: a step starts when every step it depends on has         *)
(* completed and before the workflow ends, its task is queued once and     *)
(* runs alone, the step ends once and as its task did, and the workflow    *)
(* ends once, completed by all its steps or failed by one.                 *)
(***************************************************************************)
CONSTANT Steps

VARIABLES
  deps,     \* step -> the steps it depends on
  created,
  stage,    \* step -> "pending", "started", "completed" or "failed"
  task,     \* step -> the last event of its task
  outcome,  \* "none", "completed" or "failed"
  forgot    \* the process has been restarted

vars == <<deps, created, stage, task, outcome, forgot>>

InStage(name) == {s \in Steps : stage[s] = name}

Init ==
  /\ deps \in [Steps -> SUBSET Steps]
  /\ created = FALSE
  /\ stage = [s \in Steps |-> "pending"]
  /\ task = [s \in Steps |-> "absent"]
  /\ outcome = "none"
  /\ forgot = FALSE

Create ==
  /\ ~created /\ created' = TRUE
  /\ UNCHANGED <<deps, stage, task, outcome, forgot>>

Advance(s, from, to) ==
  /\ stage[s] = from
  /\ stage' = [stage EXCEPT ![s] = to]
  /\ UNCHANGED <<deps, created, task, outcome, forgot>>

(* The comment in _mark_step_failed, "no further steps start": a process   *)
(* that died between the step's failure and the workflow's forgets it.     *)
Start(s) ==
  /\ created /\ outcome = "none"
  /\ InStage("failed") = {} \/ forgot
  /\ deps[s] \subseteq InStage("completed")
  /\ Advance(s, "pending", "started")

Complete(s) == task[s] = "completed" /\ Advance(s, "started", "completed")

Fail(s) == task[s] \in {"absent", "failed"} /\ Advance(s, "started", "failed")

Move(s, from, to) ==
  /\ task[s] = from
  /\ task' = [task EXCEPT ![s] = to]
  /\ UNCHANGED <<deps, created, stage, outcome, forgot>>

Queue(s) == stage[s] = "started" /\ outcome = "none" /\ Move(s, "absent", "queued")

(* A task whose mounts cannot be resolved fails without having been queued.*)
Refuse(s) == stage[s] = "started" /\ Move(s, "absent", "failed")

Run(s) == (\A r \in Steps : task[r] # "dispatched") /\ Move(s, "queued", "dispatched")

Finish(s) == \E result \in {"completed", "failed"} : Move(s, "dispatched", result)

Cancel(s) == Move(s, "queued", "cancelled")

Conclude(result) ==
  /\ outcome = "none"
  /\ outcome' = result
  /\ UNCHANGED <<deps, created, stage, task, forgot>>

End ==
  \/ InStage("completed") = Steps /\ Conclude("completed")
  \/ InStage("failed") # {} /\ Conclude("failed")

(* What the running process knows beyond the log is lost.                  *)
Forget ==
  /\ forgot' = TRUE
  /\ UNCHANGED <<deps, created, stage, task, outcome>>

Next ==
  \/ Create
  \/ \E s \in Steps : \/ Start(s) \/ Complete(s) \/ Fail(s)
                      \/ Queue(s) \/ Refuse(s) \/ Run(s) \/ Finish(s) \/ Cancel(s)
  \/ End
  \/ Forget

Spec == Init /\ [][Next]_vars
=============================================================================
