-------------------------- MODULE SessionCatalogue --------------------------
(***************************************************************************)
(* Which sessions exist: creation, fetching, deletion, cleanup, retention  *)
(* and restart (core/sessions/use_cases, the lifespan of                   *)
(* adapters/inbound/http/app.py).                                          *)
(*                                                                         *)
(* On disk there is one append-only log per stream, a workspace per        *)
(* session and a log of each deployment default; in memory the live index, *)
(* the idempotency keys and the defaults.  Workflows keep their log in the *)
(* same directory.                                                         *)
(*                                                                         *)
(* A handler does not suspend (an emit never does, clones block the event  *)
(* loop), so handlers do not interleave; but the process can die between   *)
(* two effects of one, and a step of one can raise.  The task queue is     *)
(* brought up to date between handlers, by the dispatcher's loop: a        *)
(* handler finds it behind the log (Dispatcher has the buffer between).    *)
(***************************************************************************)
EXTENDS Naturals, Sequences

CONSTANTS Sessions, Workflows,  \* ids
          Keys,                 \* Idempotency-Key values
          Values,               \* of the deployment defaults
          Priorities,
          Reports,              \* statuses that runs report
          Tasked,               \* streams that clients give tasks to
          MaxTime, MaxCrashes,
          None                  \* a model value

Streams == Sessions \cup Workflows

ASSUME CatalogueAssumption ==
  /\ Sessions \cap Workflows = {} /\ Tasked \subseteq Streams
  /\ None \notin Streams \cup Keys \cup Values
  /\ Priorities \subseteq Nat /\ 1 \in Priorities
  /\ Reports \subseteq {"running", "idle", "error"}
  /\ None \notin {"created", "deleted"} \cup Reports
  /\ MaxTime \in Nat /\ MaxCrashes \in Nat
  /\ None \notin Nat

VARIABLES
  (* Disk. *)
  log,        \* stream -> what its events fold to
  workspaces, \* sessions that have a directory
  defaultLog, \* what the reserved log of each deployment default folds to
  queued,     \* sessions with tasks waiting, as the log says
  (* The process. *)
  up, index, keys, default,
  shows,      \* sessions with tasks waiting, as the projection says
  fresh,      \* sessions with a waiting task that the projection has not yet
  (* The handler: the effects to come, on which session, for which key, and *)
  (* the timestamp of its session.created; the sessions cleanup has to do.  *)
  script, subject, doomed,
  (* The environment. *)
  now, crashes, used,
  retention,  \* how long a quiet log is kept, 0 for ever
  (* Observation only: sessions with a task that no DELETE could have found *)
  (* in the projection: given after the last one, or just before it.        *)
  late

diskVars == <<log, workspaces, defaultLog, queued>>
view == <<shows, fresh>>
memoryVars == <<index, keys, default, view>>
handlerVars == <<script, subject, doomed>>
envVars == <<now, crashes, used, retention>>
vars == <<diskVars, up, memoryVars, handlerVars, envVars, late>>

Knobs == {"model", "effort"}
NoDefaults == [knob \in Knobs |-> None]

Times == 0 .. MaxTime

(* What a log folds to; one without session.created has no creation time   *)
(* of its own.                                                             *)
Absent == [status |-> None, created |-> None, updated |-> None, priority |-> None]

Nobody == [id |-> None, key |-> None, at |-> 0]

-----------------------------------------------------------------------------
(* The fold of a log.                                                      *)

(* One event more.                                                         *)
Folded(f, e) ==
  LET g == IF f = Absent
           THEN [status |-> "created", created |-> None, updated |-> now, priority |-> 1]
           ELSE f
      h == CASE e.type = "session.created" /\ g.created = None -> [g EXCEPT !.created = now]
             [] e.type = "status" -> [g EXCEPT !.status = e.value]
             [] e.type = "dispatch_priority.updated" -> [g EXCEPT !.priority = e.value]
             [] OTHER -> g
  IN [h EXCEPT !.updated = IF now > @ THEN now ELSE @]

Event(type, value) == [type |-> type, value |-> value]
Plain == Event("other", None)

(* rehydrate_from_events, of the whole log.                                *)
Rehydrated(f) ==
  IF f # Absent /\ f.created = None THEN [f EXCEPT !.created = f.updated] ELSE f

(* Session.touch, called by the emitter for a live session.                *)
Touched(f) == IF f # Absent /\ now > f.updated THEN [f EXCEPT !.updated = now] ELSE f

(* An emit for s, with what the handler has done to the live entity.       *)
Emit(s, e, entity) ==
  /\ log' = [log EXCEPT ![s] = Folded(@, e)]
  /\ index' = [index EXCEPT ![s] = Touched(entity)]

Live(s) == index[s] # Absent
Idle == up /\ script = <<>> /\ doomed = {}

-----------------------------------------------------------------------------
(* Creating a session.                                                     *)

(* Wrong variant of CreateScript: the key is recorded before the clones.   *)
CreateScriptKeyFirst == <<"mkdir", "created", "key", "mount", "index">>

CreateScript == <<"mkdir", "created", "mount", "index", "key">>

(* POST /v1/sessions with a key that is unknown, or without one.  A key    *)
(* that is known, and an invalid mount path, change nothing.               *)
CreateBegins(s, key) ==
  /\ Idle /\ s \in Sessions \ used
  /\ key # None => keys[key] = None
  /\ script' = CreateScript
  /\ subject' = [id |-> s, key |-> key, at |-> now]
  /\ used' = used \cup {s}
  /\ UNCHANGED <<diskVars, up, memoryVars, doomed, now, crashes, retention, late>>

(* The handler's next effect; a handler that is done forgets its subject.  *)
GoesOn(rest) == script' = rest /\ subject' = IF rest = <<>> THEN Nobody ELSE subject

Performs(effect) == script # <<>> /\ Head(script) = effect /\ GoesOn(Tail(script))

MakeWorkspace ==
  /\ Performs("mkdir")
  /\ workspaces' = workspaces \cup {subject.id}
  /\ UNCHANGED <<log, defaultLog, queued, up, memoryVars, doomed, envVars, late>>

EmitCreated ==
  /\ Performs("created")
  /\ Emit(subject.id, Event("session.created", None), index[subject.id])
  /\ UNCHANGED <<workspaces, defaultLog, queued, up, keys, default, view, doomed,
                 envVars, late>>

(* Clones and files take their time, and may raise: the request fails and  *)
(* everything done so far stays.                                           *)
Mount ==
  /\ script # <<>> /\ Head(script) = "mount"
  /\ \E rest \in {Tail(script), <<>>} : GoesOn(rest)
  /\ now' \in {t \in Times : t \in {now, now + 1}}
  /\ UNCHANGED <<diskVars, up, memoryVars, doomed, crashes, used, retention, late>>

(* Wrong variant of NewSession: it is as old as its last clone.            *)
NewSessionNow ==
  [status |-> "created", created |-> now, updated |-> now, priority |-> 1]

NewSession ==
  [status |-> "created", created |-> subject.at, updated |-> subject.at, priority |-> 1]

Register ==
  /\ Performs("index")
  /\ index' = [index EXCEPT ![subject.id] = NewSession]
  /\ UNCHANGED <<diskVars, up, keys, default, view, doomed, envVars, late>>

RecordKey ==
  /\ Performs("key")
  /\ keys' = IF subject.key = None THEN keys ELSE [keys EXCEPT ![subject.key] = subject.id]
  /\ UNCHANGED <<diskVars, up, index, default, view, doomed, envVars, late>>

-----------------------------------------------------------------------------
(* Deleting sessions.                                                      *)

(* Wrong variant of DestroyScript: session.deleted is emitted first.       *)
DestroyScriptLogFirst == <<"deleted", "cancel", "destroy">>

(* destroy_session; the tasks cancelled are those the projection shows.    *)
DestroyScript == <<"cancel", "destroy", "deleted">>

DeleteBegins(s) ==
  /\ Idle /\ Live(s)
  /\ script' = DestroyScript
  /\ subject' = [Nobody EXCEPT !.id = s]
  /\ UNCHANGED <<diskVars, up, memoryVars, doomed, envVars, late>>

CancelQueued ==
  /\ Performs("cancel")
  /\ IF subject.id \in shows
     THEN /\ Emit(subject.id, Plain, index[subject.id])
          /\ queued' = queued \ ({subject.id} \ fresh)
     ELSE UNCHANGED <<log, index, queued>>
  /\ late' = (late \ {subject.id}) \cup ({subject.id} \cap fresh)
  /\ UNCHANGED <<workspaces, defaultLog, up, keys, default, view, doomed, envVars>>

DestroyWorkspace ==
  /\ Performs("destroy")
  /\ workspaces' = workspaces \ {subject.id}
  /\ UNCHANGED <<log, defaultLog, queued, up, memoryVars, doomed, envVars, late>>

(* mark_deleted and session.deleted; a session cleaned up from disk is not *)
(* loaded.                                                                 *)
EmitDeleted ==
  /\ Performs("deleted")
  /\ Emit(subject.id, Event("status", "deleted"),
          IF Live(subject.id) THEN [index[subject.id] EXCEPT !.status = "deleted"]
          ELSE Absent)
  /\ UNCHANGED <<workspaces, defaultLog, queued, up, keys, default, view, doomed,
                 envVars, late>>

(* Wrong variant of Known: only live sessions are examined.                *)
KnownLive(s) == index[s]

(* What listing and cleanup know of a stream: the live entity, else its    *)
(* log.  list_session_ids leaves out the reserved logs only.               *)
Known(s) == IF Live(s) THEN index[s] ELSE Rehydrated(log[s])

Examined == {s \in Streams : Known(s) # Absent /\ Known(s).status # "deleted"}
Candidates(cutoff) == {s \in Examined : Known(s).updated < cutoff}

(* POST /v1/sessions/cleanup without dry_run; a cutoff in the future is    *)
(* refused.  One candidate after the other is then destroyed.              *)
CleanupBegins(cutoff) ==
  /\ Idle
  /\ doomed' = Candidates(cutoff)
  /\ UNCHANGED <<diskVars, up, memoryVars, script, subject, envVars, late>>

CleanupNext(s) ==
  /\ up /\ script = <<>> /\ s \in doomed
  /\ doomed' = doomed \ {s}
  /\ script' = DestroyScript
  /\ subject' = [Nobody EXCEPT !.id = s]
  /\ UNCHANGED <<diskVars, up, memoryVars, envVars, late>>

-----------------------------------------------------------------------------
(* Everything else that happens to a stream.                               *)

(* GET /v1/sessions/{id}: the live entity, else any log on disk will do,   *)
(* and is live from now on.                                                *)
Fetched(s) == IF Live(s) THEN index[s] ELSE Rehydrated(log[s])

Fetch(s) ==
  /\ Idle /\ Fetched(s) # index[s]
  /\ index' = [index EXCEPT ![s] = Fetched(s)]
  /\ UNCHANGED <<diskVars, up, keys, default, view, handlerVars, envVars, late>>

(* POST .../tasks of a live session, deleted or not.  The projection does  *)
(* not have the task yet.                                                  *)
Enqueue(s) ==
  /\ Idle /\ Live(s) /\ s \in Tasked
  /\ Emit(s, Plain, index[s])
  /\ queued' = queued \cup {s} /\ fresh' = fresh \cup {s}
  /\ late' = IF index[s].status = "deleted" THEN late \cup {s} ELSE late
  /\ UNCHANGED <<workspaces, defaultLog, up, keys, default, shows, handlerVars, envVars>>

(* The loop applies what is buffered of s.                                 *)
Applies(s) ==
  /\ Idle
  /\ fresh' = fresh \ {s}
  /\ shows' = IF s \in queued THEN shows \cup {s} ELSE shows \ {s}
  /\ UNCHANGED <<diskVars, up, index, keys, default, handlerVars, envVars, late>>

(* The event of a run, of the last waiting task or another one; a task is  *)
(* claimed from the projection.                                            *)
RunReports(s, status) ==
  /\ Idle /\ Live(s)
  /\ Emit(s, Event("status", status), [index[s] EXCEPT !.status = status])
  /\ queued' \in {queued, queued \ ((shows \ fresh) \cap {s})}
  /\ late' = late \cap queued'
  /\ UNCHANGED <<workspaces, defaultLog, up, keys, default, view, handlerVars, envVars>>

SetPriority(s, p) ==
  /\ Idle /\ Live(s)
  /\ Emit(s, Event("dispatch_priority.updated", p), [index[s] EXCEPT !.priority = p])
  /\ UNCHANGED <<workspaces, defaultLog, queued, up, keys, default, view, handlerVars,
                 envVars, late>>

(* workflow.created and the other events of a workflow.                    *)
WorkflowEvent(w) ==
  /\ Idle
  /\ w \in used => log[w] # Absent
  /\ Emit(w, Plain, index[w])
  /\ used' = used \cup {w}
  /\ UNCHANGED <<workspaces, defaultLog, queued, up, keys, default, view, handlerVars,
                 now, crashes, retention, late>>

unchangedByDefaults ==
  <<log, workspaces, queued, up, index, keys, view, handlerVars, envVars, late>>

(* PUT /v1/model and /v1/effort.                                           *)
SetDefault(knob, v) ==
  /\ Idle
  /\ default' = [default EXCEPT ![knob] = v]
  /\ defaultLog' = [defaultLog EXCEPT ![knob] = v]
  /\ UNCHANGED unchangedByDefaults

(* DELETE of one.                                                          *)
ClearDefault(knob) ==
  /\ Idle
  /\ default' = [default EXCEPT ![knob] = None]
  /\ defaultLog' = [defaultLog EXCEPT ![knob] = None]
  /\ UNCHANGED unchangedByDefaults

-----------------------------------------------------------------------------
(* Time, crashes and restarts.                                             *)

Tick ==
  /\ Idle \/ ~up
  /\ now < MaxTime /\ now' = now + 1
  /\ UNCHANGED <<diskVars, up, memoryVars, handlerVars, crashes, used, retention, late>>

Crash ==
  /\ up /\ crashes < MaxCrashes
  /\ crashes' = crashes + 1
  /\ up' = FALSE
  /\ index' = [s \in Streams |-> Absent]
  /\ keys' = [k \in Keys |-> None]
  /\ default' = NoDefaults
  /\ shows' = {} /\ fresh' = queued
  /\ script' = <<>> /\ subject' = Nobody /\ doomed' = {}
  /\ UNCHANGED <<diskVars, now, used, retention, late>>

(* purge_expired_logs.                                                     *)
Expired(s) ==
  retention > 0 /\ log[s] # Absent /\ log[s].updated + retention < now

(* bootstrap_deployment_model_config and its twin for the effort.          *)
Bootstrapped == defaultLog

(* The lifespan: purge, fold the log, load the sessions with tasks, fold   *)
(* the reserved logs.  Workspaces of purged sessions stay.                 *)
Restart ==
  /\ ~up
  /\ up' = TRUE
  /\ log' = [s \in Streams |-> IF Expired(s) THEN Absent ELSE log[s]]
  /\ queued' = {s \in queued : ~Expired(s)}
  /\ shows' = queued' /\ fresh' = {}
  /\ index' = [s \in Streams |-> IF s \in queued' THEN Rehydrated(log'[s]) ELSE Absent]
  /\ default' = Bootstrapped
  /\ late' = late \cap queued'
  /\ UNCHANGED <<workspaces, defaultLog, keys, handlerVars, envVars>>

-----------------------------------------------------------------------------
Init ==
  /\ log = [s \in Streams |-> Absent] /\ index = [s \in Streams |-> Absent]
  /\ workspaces = {} /\ queued = {} /\ late = {} /\ used = {}
  /\ shows = {} /\ fresh = {}
  /\ defaultLog = NoDefaults /\ default = NoDefaults
  /\ up = TRUE
  /\ keys = [k \in Keys |-> None]
  /\ script = <<>> /\ subject = Nobody /\ doomed = {}
  /\ now = 0 /\ crashes = 0
  /\ retention \in {0, 1}

Next ==
  \/ \E s \in Sessions, k \in Keys \cup {None} : CreateBegins(s, k)
  \/ MakeWorkspace \/ EmitCreated \/ Mount \/ Register \/ RecordKey
  \/ CancelQueued \/ DestroyWorkspace \/ EmitDeleted
  \/ \E s \in Streams :
       \/ DeleteBegins(s) \/ CleanupNext(s) \/ Fetch(s) \/ Enqueue(s) \/ Applies(s)
       \/ \E st \in Reports : RunReports(s, st)
       \/ \E p \in Priorities : SetPriority(s, p)
  \/ \E cutoff \in 0 .. now : CleanupBegins(cutoff)
  \/ \E w \in Workflows : WorkflowEvent(w)
  \/ \E knob \in Knobs : ClearDefault(knob) \/ \E v \in Values : SetDefault(knob, v)
  \/ Tick \/ Crash \/ Restart

Spec == Init /\ [][Next]_vars

-----------------------------------------------------------------------------
(* What the process answers from memory is what a replay of the logs gives:*)
(* status, times and priority of every live session, and the deployment    *)
(* defaults, so that a restart changes nothing a client can see.           *)
MemoryIsReplay ==
  /\ \A s \in Sessions : Live(s) => index[s] = Rehydrated(log[s])
  /\ up => default = defaultLog

(* A cleanup destroys every listed stream that is not deleted and whose    *)
(* last event is older than the cutoff, loaded or not, and no other.       *)
CleanupIsExact ==
  [][\A cutoff \in Times : CleanupBegins(cutoff) =>
       doomed' = {s \in Streams : /\ log[s] # Absent /\ log[s].status # "deleted"
                                  /\ log[s].updated < cutoff}]_vars

(* A deleted session has no workspace, and no waiting task that its last   *)
(* DELETE could have found in the projection: nothing is left, whatever    *)
(* was cut short by a crash, unless a client gave it a task afterwards, or *)
(* so shortly before that the loop had not applied task.queued: then the   *)
(* task outlives the session (task_queue.queued in destroy_session).       *)
DeletedLeaveNothing ==
  \A s \in Sessions : log[s].status = "deleted" =>
    s \notin workspaces /\ s \notin queued \ late
=============================================================================
