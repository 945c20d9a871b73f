------------------------------ MODULE TaskApi ------------------------------
(***************************************************************************)
(* What a client of the queue is told: the answers of the HTTP routes      *)
(* (adapters/inbound/http/routes/orchestration.py), with the status codes  *)
(* that app.py gives to the exceptions of the use cases, and of the MCP    *)
(* tools that mirror them (adapters/inbound/mcp/server.py).                *)
(*                                                                         *)
(* Every answer is a function of the live index, the policies and the      *)
(* projection v; the handler's effect is the action of Dispatcher with the *)
(* same name, and an answer below 400 is given exactly when that action is *)
(* performed.  Checked requests only: a body that Pydantic, the window     *)
(* parser or the model catalogue refuses is answered 422 before any state  *)
(* is read.                                                                *)
(***************************************************************************)
EXTENDS QueueView

Refused(code) == [code |-> code]

(* SessionNotFound: only the live index is asked, so that after a restart  *)
(* an idle session is unknown here until GET /sessions/{id} has loaded it. *)
IfKnown(s, answer) == IF s \in index THEN answer ELSE Refused(404)

EnqueueAnswer(s) == IfKnown(s, [code |-> 202, status |-> "queued"])

(* "retrying" only beside a task in flight: while it backs off, and until  *)
(* an event ends the attempt that follows.                                 *)
InFlightStatus(v, s) ==
  IF v.running[s] = NoTask THEN "none"
  ELSE IF v.retrying[s] THEN "retrying" ELSE "dispatched"

ListAnswer(v, s) ==
  IfKnown(s, [code |-> 200, queued |-> v.queued[s], in_flight |-> v.running[s],
              status |-> InFlightStatus(v, s)])

(* TaskAlreadyDispatched before TaskNotFound.                              *)
CancelAnswer(v, s, t) ==
  IfKnown(s, IF v.running[s] = t THEN Refused(409)
             ELSE IF t \notin Waiting(v, s) THEN Refused(404)
             ELSE [code |-> 200, status |-> "cancelled"])

(* SessionHasInFlightTask; a message that is running is no task.           *)
MessageAnswer(v, s) ==
  IfKnown(s, IF v.running[s] # NoTask THEN Refused(409)
             ELSE [code |-> 200, status |-> "accepted"])

UpdatePolicyAnswer(s, p) == IfKnown(s, [code |-> 200, policy |-> p])

ClearPolicyAnswer(s) == IfKnown(s, [code |-> 200, effective_policy |-> default])

(* TriggerNotApplicable is 409.                                            *)
TriggerAnswer(v, s) ==
  IfKnown(s, IF EffectivePolicy(s) # "manual" THEN Refused(409)
             ELSE [code |-> 202, drained |-> Len(v.queued[s])])

DefaultPolicyAnswer == [code |-> 200, policy |-> default]

PriorityAnswer(s, p) == IfKnown(s, [code |-> 200, priority |-> p])

Entry(t) == [task_id |-> t, session_id |-> owner[t], priority |-> priority[owner[t]]]

ScheduledEntry(e) == [task_id |-> e.task, session_id |-> e.sess,
                      priority |-> priority[e.sess], reason |-> Reason(e)]

(* GET /v1/queue; 500 is the exception nobody handles.                     *)
QueueAnswer(v) ==
  IF ~Renders(v) THEN Refused(500)
  ELSE LET scheduled == Scheduled(v)
           ready == DispatchOrder(v)
       IN [code |-> 200,
           in_flight |-> {Entry(t) : t \in InFlight(v)},
           ready |-> [i \in DOMAIN ready |-> Entry(ready[i])],
           scheduled |-> [i \in DOMAIN scheduled |-> ScheduledEntry(scheduled[i])]]

(* An exception of a use case is a tool error, whatever its kind: a caller *)
(* of a tool is told less than a caller of a route.                        *)
ToolError == [error |-> TRUE]
Told(answer) == IF answer.code >= 400 THEN ToolError ELSE answer

TaskTools(v, s, t) ==
  [mad_enqueue_task |-> Told(EnqueueAnswer(s)),
   mad_list_tasks   |-> Told(ListAnswer(v, s)),
   mad_cancel_task  |-> Told(CancelAnswer(v, s, t)),
   mad_send_message |-> Told(MessageAnswer(v, s))]

PolicyTools(v, s) ==
  [mad_clear_session_dispatch_policy  |-> Told(ClearPolicyAnswer(s)),
   mad_trigger_dispatch               |-> Told(TriggerAnswer(v, s)),
   mad_get_deployment_dispatch_policy |-> Told(DefaultPolicyAnswer),
   mad_get_queue                      |-> Told(QueueAnswer(v))]

SettingTools(s, p, n) ==
  [mad_set_session_dispatch_policy |-> Told(UpdatePolicyAnswer(s, p)),
   mad_set_session_priority        |-> Told(PriorityAnswer(s, n))]

-----------------------------------------------------------------------------
(* Some event that the projection has yet to apply satisfies the test.     *)
Behind(Test(_)) ==
  \E i \in DOMAIN busq : busq[i].type \in EventTypes /\ Test(busq[i])

(* Answers are made from a projection that runs behind the log.  While the *)
(* subscription lives, an answer about a task, a session or the queue that *)
(* the log contradicts is explained by an event of that very task, session *)
(* or queue still in the subscription: no event of another task or session *)
(* makes it wrong.  No answer of the queue is ever 500, and GET /v1/queue  *)
(* shows every task exactly once and in sessions that a client can re-rank *)
(* and re-schedule.                                                        *)
AnswersHold ==
  /\ GlobalQueueRenders
  /\ mode = "up" =>
       /\ QueueAnswer(view).code = 200
       /\ \A s \in Sessions, p \in Settable, n \in 1 .. MaxPriority :
            Waiting(view, s) # {} \/ view.running[s] # NoTask =>
              LET tools == SettingTools(s, p, n)
              IN tools.mad_set_session_dispatch_policy.policy = p
                 /\ tools.mad_set_session_priority.priority = n
  /\ mode = "up" /\ subscribed =>
       \A s \in Sessions, t \in Tasks :
         /\ CancelAnswer(view, s, t) # CancelAnswer(logged, s, t)
              => Behind(LAMBDA e : e.sess = s /\ e.task = t)
         /\ TaskTools(view, s, t) # TaskTools(logged, s, t)
              => Behind(LAMBDA e : e.sess = s)
         /\ PolicyTools(view, s) # PolicyTools(logged, s)
              => Behind(LAMBDA e : e.sess \in Sessions)
=============================================================================
