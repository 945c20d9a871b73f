---------------------------- MODULE WorkflowApi ----------------------------
(***************************************************************************)
(* What a client is told about a workflow: the answers of the HTTP routes  *)
(* (adapters/inbound/http/routes/workflows.py) and of the MCP tools that   *)
(* mirror them (adapters/inbound/mcp/server.py).  The session id and the   *)
(* reason of a step are left out.                                          *)
(***************************************************************************)
EXTENDS WorkflowCoordinator

Refused(code) == [code |-> code]

(* A graph of another kind, InvalidWorkflow, is 422.                       *)
CreateAnswer ==
  IF Accepted(deps) THEN [code |-> 202, status |-> "pending"] ELSE Refused(422)

(* derive_step_status, of what the read model knows.                       *)
StepStatus(view, s) ==
  IF s \in view.failed THEN "failed"
  ELSE IF s \in view.completed THEN "completed"
  ELSE IF s \in view.started THEN "running" ELSE "pending"

(* derive_workflow_status.                                                 *)
WorkflowStatus(view) ==
  LET values == {StepStatus(view, s) : s \in Steps}
  IN IF "failed" \in values THEN "failed"
     ELSE IF values = {"completed"} THEN "completed"
     ELSE IF values \cap {"running", "completed"} # {} THEN "running"
     ELSE "pending"

(* WorkflowNotFound is 404: also of a workflow that has been answered 202, *)
(* until the coordinator has handled its workflow.created.                 *)
GetAnswer(view) ==
  IF ~view.known THEN Refused(404)
  ELSE [code |-> 200, status |-> WorkflowStatus(view),
        steps |-> [s \in Steps |-> [status |-> StepStatus(view, s), depends_on |-> deps[s]]]]

(* Any refusal is a tool error.                                            *)
ToolError == [error |-> TRUE]
Told(answer) == IF answer.code >= 400 THEN ToolError ELSE answer

WorkflowTools(view) ==
  [mad_create_workflow |-> Told(CreateAnswer), mad_get_workflow |-> Told(GetAnswer(view))]

-----------------------------------------------------------------------------
StatusOfStage == [pending |-> "pending", started |-> "running", completed |-> "completed",
                  failed |-> "failed"]

(* GET never tells what the log does not say, and never less for long.     *)
(* A workflow is found only when it was accepted, and is missed only while *)
(* its creation waits to be handled; a step is shown as ended only as the  *)
(* log says.  Once the coordinator has seen every event, before and after  *)
(* a restart, route and tool show every step as the log does, and the      *)
(* status agrees with the terminal event.                                  *)
ReadModelConverges ==
  pc # "down" =>
    LET answer == GetAnswer(shown)
        tools == WorkflowTools(shown)
    IN /\ answer.code = 200 => created /\ CreateAnswer.code = 202
       /\ answer.code = 404 /\ created =>
            \E i \in DOMAIN busq : busq[i].type = "workflow.created"
       /\ answer.code = 200 =>
            \A s \in Steps : answer.steps[s].status \in {"completed", "failed"} =>
                               answer.steps[s].status = Stage(s)
       /\ Ready("idle") /\ busq = <<>> =>
            /\ (tools.mad_get_workflow = ToolError) <=> ~created
            /\ created =>
                 /\ tools.mad_get_workflow = answer
                 /\ \A s \in Steps : answer.steps[s].status = StatusOfStage[Stage(s)]
                 /\ outcome # "none" => answer.status = outcome
=============================================================================
