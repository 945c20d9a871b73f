------------------------------ MODULE TaskRun ------------------------------
(***************************************************************************)
(* One queued task of one session against the clock: the claim, the        *)
(* dispatch and _run_task of core/orchestration/use_cases/dispatcher.py    *)
(* with the delays of its rate-limit retries, the deferrals to the next    *)
(* opening of the work window, the settings an agent is launched with and  *)
(* the git result of a finished run.  Dispatcher has the same steps for    *)
(* many tasks and leaves out time, settings and git.                       *)
(*                                                                         *)
(* The session's repository is a sequence of commits.  A /messages run may *)
(* commit to it beside the task, for nothing keeps a task from being       *)
(* dispatched while one is going on.                                       *)
(***************************************************************************)
EXTENDS WorkWindow, SequencesExt

CONSTANTS Base, Cap,    \* _BASE_S, _CAP_S
          Ceiling,      \* CUMULATIVE_CEILING_S
          Jitters,      \* tenths of an interval that jitter may add
          Floors,       \* retry_after_floor_s that an agent may report
          Policies,     \* window lists a client may set; <<>> is immediate
          Asked,        \* settings that a task and its session may have
          MaxTime, MaxCommits, MaxChanges, MaxDispatches,
          None          \* a model value

Models == {None, "of task", "of session", "default", "other default"}
LaunchRecords == [at : Int, attempt : Nat, model : Models, resumes : BOOLEAN]

ASSUME RunAssumption ==
  /\ Base \in Nat \ {0} /\ Cap \in Nat \ {0} /\ Ceiling \in Nat \ {0}
  /\ Jitters \subseteq -1 .. 1 /\ Floors \subseteq Nat \cup {None}
  /\ Policies \subseteq Seq(Windows)
  /\ Asked \subseteq [task : {None, "of task"}, session : {None, "of session"},
                      resumes : BOOLEAN]
  /\ MaxTime \in Nat /\ MaxCommits \in Nat /\ MaxChanges \in Nat /\ MaxDispatches \in Nat
  /\ None \notin Int /\ None \notin LaunchRecords
  /\ None \notin {"completed", "failed", "exhausted"}

VARIABLES
  now,
  windows,   \* of the effective policy
  default,   \* the deployment's model, or None
  (* The task. *)
  phase,     \* "queued", "claimed", "running", "sleeping", "inspecting", "ended"
  outcome,   \* "completed", "failed", "exhausted", or None
  attempt, waited, wake,
  scheduled, \* scheduled_for of the last deferral, [at, for], or None
  launch,    \* the last launch of this dispatch, or None
  dispatches,\* observation only, like the numbers in commits
  (* Git. *)
  head,      \* the commits of the repository
  base,      \* base_sha: the head when the task was dispatched
  seen,      \* head_sha, read by the inspector
  result,    \* task.git_result: [head, commits], or None; "read" is observation
  (* The environment. *)
  message,   \* a /messages run goes on
  made,      \* commits made so far
  beside,    \* observation only: commits made during the inspection
  changes,   \* of the policy and the default
  asked      \* the models of the task and of its session; whether the task's
             \* conversation_mode is "resume"

clockVars == <<now, windows, default, changes>>
taskVars == <<phase, outcome, attempt, waited, wake, scheduled, launch, dispatches>>
gitVars == <<head, base, seen, result, message, made, beside>>
vars == <<clockVars, taskVars, gitVars, asked>>

-----------------------------------------------------------------------------
(* The settings and the schedule.                                          *)

(* resolve_effective_model; resolve_effective_effort is the same.          *)
EffectiveModel(ofTask, ofSession, ofDeployment) ==
  IF ofTask # None THEN ofTask
  ELSE IF ofSession # None THEN ofSession ELSE ofDeployment

(* backoff_s, before jitter.                                               *)
Interval(n) == IF Base * 2 ^ n < Cap THEN Base * 2 ^ n ELSE Cap

(* backoff_s, at least one second; a longer floor of the agent wins.       *)
Delays(n, floor) ==
  LET jittered == {(Interval(n) * (10 + j)) \div 10 : j \in Jitters}
      backoffs == {IF d < 1 THEN 1 ELSE d : d \in jittered}
  IN {IF floor # None /\ floor > d THEN floor ELSE d : d \in backoffs}

(* Wrong variant of ExceedsCeiling: the ceiling may be met.                *)
ExceedsCeilingStrictly(wait) == wait > Ceiling

(* exceeds_ceiling.                                                        *)
ExceedsCeiling(wait) == wait >= Ceiling

(* can_dispatch and _window_closed, with the clock of the dispatcher.      *)
CanDispatch == windows = <<>> \/ IsOpen(windows, now)
WindowClosed == windows # <<>> /\ ~IsOpen(windows, now)

-----------------------------------------------------------------------------
(* Git.                                                                    *)

(* git log base..HEAD: the commits of HEAD that base does not have.        *)
Listed(from, to) == {c \in Range(to) : c \notin Range(from)}

(* A commit, or a reset to the commit before.                              *)
Works(author) ==
  \/ /\ made < MaxCommits
     /\ made' = made + 1
     /\ head' = Append(head, [by |-> author, dispatch |-> dispatches, number |-> made + 1])
  \/ /\ head # <<>> /\ head' = Front(head) /\ UNCHANGED made

TaskWorks ==
  /\ phase = "running" /\ Works("task")
  /\ UNCHANGED <<clockVars, taskVars, base, seen, result, message, beside, asked>>

MessageWorks ==
  /\ message /\ Works("message")
  /\ beside' = (beside \/ phase = "inspecting")
  /\ UNCHANGED <<clockVars, taskVars, base, seen, result, message, asked>>

(* POST /messages is refused while a task of the session is in flight.     *)
MessageStarts ==
  /\ ~message /\ phase = "queued" /\ message' = TRUE
  /\ UNCHANGED <<clockVars, taskVars, head, base, seen, result, made, beside, asked>>

MessageEnds ==
  /\ message /\ message' = FALSE
  /\ UNCHANGED <<clockVars, taskVars, head, base, seen, result, made, beside, asked>>

-----------------------------------------------------------------------------
(* The dispatcher.                                                         *)

(* _maybe_dispatch_next: the policy is looked at before git is.            *)
Claim ==
  /\ phase = "queued" /\ CanDispatch /\ dispatches < MaxDispatches
  /\ phase' = "claimed"
  /\ UNCHANGED <<clockVars, outcome, attempt, waited, wake, scheduled, launch, dispatches,
                 gitVars, asked>>

Launches(n, resumes) ==
  launch' = [at |-> now, attempt |-> n, resumes |-> resumes,
             model |-> EffectiveModel(asked.task, asked.session, default)]

(* Wrong variant of ReadBase: only the first dispatch reads it.            *)
ReadBaseOnce == base' = IF dispatches = 0 THEN head ELSE base

(* _read_base_sha.                                                         *)
ReadBase == base' = head

(* The base is read, task.dispatched emitted and the agent launched.       *)
Dispatch ==
  /\ phase = "claimed"
  /\ phase' = "running" /\ dispatches' = dispatches + 1
  /\ attempt' = 0 /\ waited' = 0 /\ scheduled' = None
  /\ ReadBase
  /\ Launches(0, asked.resumes)
  /\ UNCHANGED <<clockVars, outcome, wake, head, seen, result, message, made,
                 beside, asked>>

(* _defer_to_window: task.deferred; the projection queues the task again.  *)
Defer ==
  /\ phase' = "queued"
  /\ scheduled' = [at |-> now, for |-> NextOpening(windows, now)]
  /\ attempt' = 0 /\ waited' = 0 /\ wake' = 0 /\ launch' = None
  /\ UNCHANGED outcome

Ends(how) ==
  /\ phase' = "ended" /\ outcome' = how
  /\ UNCHANGED <<attempt, wake, scheduled, launch>>

(* The agent is rate-limited: the task is deferred, gives up or sleeps.    *)
RateLimited ==
  /\ phase = "running"
  /\ \E floor \in Floors : \E delay \in Delays(attempt, floor) :
       IF WindowClosed THEN Defer
       ELSE /\ waited' = waited + delay
            /\ IF ExceedsCeiling(waited') THEN Ends("exhausted")
               ELSE /\ phase' = "sleeping" /\ attempt' = attempt + 1
                    /\ wake' = now + delay
                    /\ UNCHANGED <<outcome, scheduled, launch>>
  /\ UNCHANGED <<clockVars, dispatches, gitVars, asked>>

(* Wrong variant of Wakes: the window is not looked at again.              *)
WakesRegardless ==
  /\ phase = "sleeping" /\ now >= wake
  /\ phase' = "running"
  /\ launch' = [launch EXCEPT !.at = now, !.attempt = attempt, !.resumes = TRUE]
  /\ UNCHANGED <<clockVars, outcome, attempt, waited, wake, scheduled, dispatches,
                 gitVars, asked>>

(* The sleep is over: the agent resumes, unless the window has closed.     *)
Wakes ==
  /\ phase = "sleeping" /\ now >= wake
  /\ IF WindowClosed THEN Defer
     ELSE /\ phase' = "running"
          /\ launch' = [launch EXCEPT !.at = now, !.attempt = attempt, !.resumes = TRUE]
          /\ UNCHANGED <<outcome, attempt, waited, wake, scheduled>>
  /\ UNCHANGED <<clockVars, dispatches, gitVars, asked>>

(* The launcher returns, also when it reported session.error: completed,   *)
(* and the inspector reads the head.                                       *)
Completes ==
  /\ phase = "running"
  /\ phase' = "inspecting" /\ outcome' = "completed"
  /\ seen' = head /\ beside' = FALSE
  /\ UNCHANGED <<clockVars, attempt, waited, wake, scheduled, launch, dispatches,
                 head, base, result, message, made, asked>>

GitResult(commits, read) == [head |-> seen, commits |-> commits, read |-> read]

(* Then it reads the log.  Without a base or a head there is no            *)
(* task.git_result; a git log that fails counts as a run without commits.  *)
Inspected ==
  /\ phase = "inspecting"
  /\ phase' = "ended"
  /\ result' \in {None, GitResult(Listed(base, head), TRUE), GitResult({}, FALSE)}
  /\ UNCHANGED <<clockVars, outcome, attempt, waited, wake, scheduled, launch,
                 dispatches, head, base, seen, message, made, beside, asked>>

(* The launcher raises; or the process dies, and recovery fails the task.  *)
Fails ==
  /\ phase \in {"running", "sleeping"}
  /\ Ends("failed")
  /\ UNCHANGED <<clockVars, waited, dispatches, gitVars, asked>>

(* The process dies during a claim: the task is still queued.              *)
Forgets ==
  /\ phase = "claimed" /\ phase' = "queued" /\ message' = FALSE
  /\ UNCHANGED <<clockVars, outcome, attempt, waited, wake, scheduled, launch,
                 dispatches, head, base, seen, result, made, beside, asked>>

-----------------------------------------------------------------------------
(* The clock and the clients.                                              *)

Tick ==
  /\ now < MaxTime /\ now' = now + 1
  /\ UNCHANGED <<windows, default, changes, taskVars, gitVars, asked>>

(* PUT of a policy: what was scheduled under the old one is void.          *)
SetPolicy ==
  /\ changes < MaxChanges /\ changes' = changes + 1
  /\ windows' \in Policies \ {windows}
  /\ scheduled' = None
  /\ UNCHANGED <<now, default, phase, outcome, attempt, waited, wake, launch,
                 dispatches, gitVars, asked>>

(* PUT and DELETE /v1/model.                                               *)
SetDefault ==
  /\ changes < MaxChanges /\ changes' = changes + 1
  /\ default' \in {None, "default", "other default"} \ {default}
  /\ UNCHANGED <<now, windows, taskVars, gitVars, asked>>

Init ==
  /\ now = 0 /\ windows \in Policies /\ default = None /\ changes = 0
  /\ asked \in Asked
  /\ phase = "queued" /\ outcome = None
  /\ attempt = 0 /\ waited = 0 /\ wake = 0
  /\ scheduled = None /\ launch = None /\ dispatches = 0
  /\ head = <<>> /\ base = <<>> /\ seen = <<>> /\ result = None
  /\ message = FALSE /\ made = 0 /\ beside = FALSE

(* A behaviour ends with its task.                                         *)
Next ==
  /\ phase # "ended"
  /\ \/ TaskWorks \/ MessageWorks \/ MessageStarts \/ MessageEnds
     \/ Claim \/ Dispatch \/ RateLimited \/ Wakes \/ Completes \/ Inspected
     \/ Fails \/ Forgets
     \/ Tick \/ SetPolicy \/ SetDefault

Spec == Init /\ [][Next]_vars

-----------------------------------------------------------------------------
(* While a task is deferred, scheduled_for is an instant at which its      *)
(* window is open, and the window opens less than a minute before it, not  *)
(* earlier; every policy that a client can set opens within the 14 days of *)
(* the search, also when the clocks skip one of its windows.               *)
ScheduledIsTheOpening ==
  scheduled # None =>
    /\ scheduled.for # Never
    /\ IsOpen(windows, scheduled.for)
    /\ \A t \in scheduled.at .. scheduled.for - Minute : ~IsOpen(windows, t)

(* Least that the first n sleeps of a dispatch take together, in tenths.   *)
LeastWait[n \in Nat] == IF n = 0 THEN 0 ELSE LeastWait[n - 1] + 9 * (Interval(n - 1) - 1)

(* The sleeps of one dispatch stay below the ceiling together, and the     *)
(* n-th retry comes after n intervals of the schedule at least, so that    *)
(* the ceiling bounds the number of launches; a task is given up only when *)
(* its next sleep would meet the ceiling.  A deferral starts afresh.       *)
RetriesFitTheCeiling ==
  /\ phase = "sleeping" => waited < Ceiling /\ 10 * waited >= LeastWait[attempt]
  /\ outcome = "exhausted" <=> phase = "ended" /\ waited >= Ceiling

(* Every launch of a dispatch uses the model of the first one, which is    *)
(* the task's, or the session's, or else the deployment's at the time of   *)
(* the dispatch, whatever the deployment's becomes while the task sleeps.  *)
(* The first launch resumes a conversation only if the task asks for it,   *)
(* also when the dispatch before was deferred after retries that resumed;  *)
(* an agent that is relaunched resumes, and never before its backoff is    *)
(* over or while the window is closed.                                     *)
LaunchesKeepTheirTerms ==
  [][launch' # launch /\ launch' # None =>
       IF launch = None
       THEN /\ launch'.attempt = 0 /\ launch'.resumes = asked.resumes
            /\ asked.task # None => launch'.model = asked.task
            /\ asked.task = None /\ asked.session # None => launch'.model = asked.session
            /\ asked.task = None /\ asked.session = None => launch'.model = default
       ELSE /\ launch'.model = launch.model /\ launch'.resumes
            /\ launch'.attempt = launch.attempt + 1
            /\ 10 * (launch'.at - launch.at) >= 9 * (Interval(launch.attempt) - 1)
            /\ ~WindowClosed]_vars

(* task.git_result lists the commits that its head has and the task's last *)
(* dispatch has brought: all of the task's own, and of others only those   *)
(* of a /messages run beside it; commits of a dispatch that was deferred   *)
(* are in no result.  A list that does not go with the head it names was   *)
(* read while a /messages run committed, or is empty because git log       *)
(* failed, which the event does not tell from a run that made no commit.   *)
ResultListsTheRun ==
  result # None =>
    /\ \A c \in result.commits : c.by = "task" => c.dispatch = dispatches
    /\ IF result.read
       THEN /\ ~beside => result.commits = Range(result.head) \ Range(base)
            /\ \A c \in Range(result.head) :
                 c.by = "task" /\ c.dispatch = dispatches => c \in result.commits \/ beside
       ELSE result.commits = {}
=============================================================================
