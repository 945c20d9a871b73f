----------------------------- MODULE SessionApi -----------------------------
(***************************************************************************)
(* What a client is told about sessions and deployment defaults: the       *)
(* answers of the HTTP routes (adapters/inbound/http/routes/sessions.py    *)
(* and providers.py), with the status codes that app.py gives to the       *)
(* exceptions of the use cases, and of the MCP tools that mirror them      *)
(* (adapters/inbound/mcp/server.py).                                       *)
(*                                                                         *)
(* An answer is a function of the state; the effect of the request is the  *)
(* action of SessionCatalogue it is named after.                           *)
(***************************************************************************)
EXTENDS SessionCatalogue, FiniteSets

Refused(code) == [code |-> code]

-----------------------------------------------------------------------------
(* POST /v1/sessions.                                                      *)

(* What a request for a session can come to, and how it is answered when   *)
(* it does: a model that the provider does not list (InvalidModelError), a *)
(* path outside of the workspace (PathTraversalError), a clone that fails  *)
(* (GitCloneError).                                                        *)
Outcomes == {"mounted", "unknown_model", "traversal", "clone_failed"}
CodeOf == [mounted |-> 200, unknown_model |-> 422, traversal |-> 400, clone_failed |-> 502]

(* The recorded response: it says "created" for ever.                      *)
CreatedAnswer(s) == [code |-> 200, session_id |-> s, status |-> "created"]

(* The model is looked up before the key, everything else after it; s is   *)
(* the fresh id.                                                           *)
CreateAnswer(s, key, outcome) ==
  IF outcome = "unknown_model" THEN Refused(CodeOf[outcome])
  ELSE IF key # None /\ keys[key] # None THEN CreatedAnswer(keys[key])
  ELSE IF outcome = "mounted" THEN CreatedAnswer(s)
  ELSE Refused(CodeOf[outcome])

-----------------------------------------------------------------------------
(* Reading and deleting sessions.                                          *)

Shown(s, f) == [session_id |-> s, status |-> f.status, priority |-> f.priority,
                created_at |-> f.created, updated_at |-> f.updated]

(* GET /v1/sessions/{id}, which asks the log as well.                      *)
ShowAnswer(s) ==
  IF Fetched(s) = Absent THEN Refused(404)
  ELSE [code |-> 200, session |-> Shown(s, Fetched(s))]

(* DELETE /v1/sessions/{id}, which asks the live index only.               *)
DeleteAnswer(s) ==
  IF Live(s) THEN [code |-> 200, status |-> "deleted"] ELSE Refused(404)

(* The filters of GET /v1/sessions: bounds are inclusive, None is no       *)
(* bound.                                                                  *)
Query(include_deleted, updated_before) ==
  [include_deleted |-> include_deleted, updated_after |-> None,
   updated_before |-> updated_before, created_after |-> None, created_before |-> None]

Within(time, after, before) ==
  /\ after # None => time >= after
  /\ before # None => time <= before

Matches(f, q) ==
  /\ q.include_deleted \/ f.status # "deleted"
  /\ Within(f.created, q.created_after, q.created_before)
  /\ Within(f.updated, q.updated_after, q.updated_before)

(* Rows only: their order is a wording.                                    *)
ListAnswer(q) ==
  [code |-> 200,
   rows |-> {Shown(s, Known(s)) : s \in {r \in Streams : /\ Known(r) # Absent
                                                         /\ Matches(Known(r), q)}}]

(* POST /v1/sessions/cleanup.                                              *)
CleanupAnswer(cutoff, dry_run) ==
  IF cutoff > now THEN Refused(400)
  ELSE [code |-> 200,
        would_delete        |-> IF dry_run THEN Candidates(cutoff) ELSE {},
        deleted_session_ids |-> IF dry_run THEN {} ELSE Candidates(cutoff),
        examined            |-> Cardinality(Examined)]

-----------------------------------------------------------------------------
(* The deployment defaults.                                                *)

DefaultAnswer(knob) == [code |-> 200, value |-> default[knob]]
SetDefaultAnswer(v) == [code |-> 200, value |-> v]
ClearDefaultAnswer == SetDefaultAnswer(None)

-----------------------------------------------------------------------------
(* The MCP tools: any refusal is a tool error.                             *)

ToolError == [error |-> TRUE]
Told(answer) == IF answer.code >= 400 THEN ToolError ELSE answer

CreateTool(s, key, outcome) == Told(CreateAnswer(s, key, outcome))

SessionTools(q, cutoff) ==
  [mad_list_sessions    |-> Told(ListAnswer(q)),
   mad_cleanup_sessions |-> Told(CleanupAnswer(cutoff, TRUE))]

OneSessionTools(s) ==
  [mad_get_session    |-> Told(ShowAnswer(s)),
   mad_delete_session |-> Told(DeleteAnswer(s))]

DefaultTools(v) ==
  [mad_get_deployment_model    |-> Told(DefaultAnswer("model")),
   mad_get_deployment_effort   |-> Told(DefaultAnswer("effort")),
   mad_set_deployment_model    |-> Told(SetDefaultAnswer(v)),
   mad_clear_deployment_effort |-> Told(ClearDefaultAnswer)]

-----------------------------------------------------------------------------
(* The answers agree with one another, whatever was cut short by a crash   *)
(* or a failed clone, before and after a restart, from routes and tools    *)
(* alike.  A request repeated with its Idempotency-Key is answered with a  *)
(* session that can be read and deleted (execute indexes the live sessions *)
(* with it and would fail on any other), whatever its resources would come *)
(* to this time.  Between two requests a session can be read exactly when  *)
(* it is listed, with the same facts; a dry run of a cleanup names what    *)
(* ?updated_before= lists, less what was updated at that very moment; what *)
(* can be deleted can be read; and a default is what its log says.         *)
AnswersAgree ==
  /\ \A k \in Keys : keys[k] # None =>
       \A o \in Outcomes \ {"unknown_model"} :
         LET again == CreateAnswer(None, k, o)
         IN /\ again.code = 200 /\ CreateTool(None, k, o) = again
            /\ ShowAnswer(again.session_id).code = 200
            /\ DeleteAnswer(again.session_id).code = 200
  /\ Idle =>
       /\ \A s \in Streams :
            LET shown == ShowAnswer(s)
                listed == ListAnswer(Query(TRUE, None)).rows
            IN /\ (shown.code = 200) <=> \E row \in listed : row.session_id = s
               /\ shown.code = 200 => shown.session \in listed
               /\ OneSessionTools(s).mad_delete_session # ToolError =>
                    OneSessionTools(s).mad_get_session = shown
       /\ \A cutoff \in 0 .. now :
            LET tools == SessionTools(Query(FALSE, cutoff), cutoff)
            IN tools.mad_cleanup_sessions.would_delete =
                 {row.session_id : row \in {r \in tools.mad_list_sessions.rows :
                                              r.updated_at # cutoff}}
       /\ \A v \in Values : LET tools == DefaultTools(v)
                           IN /\ tools.mad_get_deployment_model.value = defaultLog["model"]
                              /\ tools.mad_get_deployment_effort.value = defaultLog["effort"]
=============================================================================
