---------------------------- MODULE SessionRuns ----------------------------
(***************************************************************************)
(* The agent runs of one session (core/sessions/use_cases/                 *)
(* send_user_message.py, _run_launcher): its status, in memory and in the  *)
(* log, the conversation a later run resumes, and the auto-sync run behind *)
(* the primary one.  Runs belong to /messages or to queued tasks, whose    *)
(* rate-limit retries the dispatcher drives, and they can overlap.         *)
(*                                                                         *)
(* A run suspends only while its agent process is alive and in backoff, so *)
(* one action takes it from one of these points to the next.               *)
(***************************************************************************)
EXTENDS Naturals, Sequences

CONSTANTS Tasks, Messages, \* the runs
          MaxAttempts,     \* launches of one task
          MaxCrashes,
          NoRun            \* a model value

Runs == Tasks \cup Messages

ASSUME SessionAssumption ==
  /\ Tasks \cap Messages = {}
  /\ MaxAttempts \in Nat \ {0} /\ MaxCrashes \in Nat
  /\ NoRun \notin Runs

(* Two launchers, and any name the factory does not know.                  *)
Providers == {"claude_cli", "opencode", "unknown"}

(* auto_sync as a task, the session or the environment may set it.         *)
Settings == {"unset", "on", "off"}

(* A conversation of the agent CLI: the launch that opened it.             *)
NoConversation == [of |-> NoRun, at |-> 0, job |-> "none"]

VARIABLES
  logged,     \* the status that the session's events fold to
  (* The process. *)
  indexed,    \* the session is in the live index
  status,     \* Session.status
  lastConv,   \* Session.last_conversation_id
  run,        \* run -> where it is, and what its coroutine remembers
  (* Fixed for a behaviour. *)
  provider,   \* whose launcher runs the session's agents
  autoSync,   \* run -> its resolved auto_sync
  (* The environment, and observation only. *)
  crashes,
  overlapped, \* two runs were once active together
  silent      \* the last run to stop left no status behind

fixedVars == <<provider, autoSync>>
vars == <<logged, indexed, status, lastConv, run, fixedVars, crashes, overlapped,
          silent>>

(* waiting: a task in the queue again.  conv: the conversation of the      *)
(* running process; known: its id was on stdout; hooked: its SessionStart  *)
(* hook has fired; saved: the id to restore after auto-sync; earlier: the  *)
(* conversation the previous attempt is known to have had.                 *)
NotRun == [pc |-> "none", attempt |-> 0, mode |-> "new", conv |-> NoConversation,
           known |-> FALSE, hooked |-> FALSE, saved |-> NoConversation,
           earlier |-> NoConversation]

(* A coroutine that has ended remembers nothing.                           *)
Ended == [NotRun EXCEPT !.pc = "done"]

ActivePcs == {"begin", "primary", "backoff", "sync"}
Active == {r \in Runs : run[r].pc \in ActivePcs}
Up == indexed
TaskInFlight == Active \cap Tasks # {}

Launch(r, attempt, job) == [of |-> r, at |-> attempt, job |-> job]

(* resolve_effective_auto_sync: the most specific level that is set; off   *)
(* when none is.                                                           *)
Resolved(ofTask, ofSession, ofEnv) ==
  LET set == SelectSeq(<<ofTask, ofSession, ofEnv>>, LAMBDA level : level # "unset")
  IN set # <<>> /\ Head(set) = "on"

-----------------------------------------------------------------------------
(* What becomes of an agent process.                                       *)

(* How it ends, and whether a rate limit showed: as a structured signal on *)
(* stdout, or as a phrase in the tail of its output.                       *)
Ends == [exit : {"zero", "nonzero", "timeout", "no binary"},
         signal : BOOLEAN, phrase : BOOLEAN]

(* Only the Claude CLI gives signals, and only a retriable one counts.     *)
LimitSeen(e) == e.phrase \/ (provider = "claude_cli" /\ e.signal)

(* The launcher reports idle or an error, or it raises RateLimitError and  *)
(* reports nothing.  A timeout hides a limit.                              *)
Outcome(e) ==
  IF e.exit = "zero" THEN "idle"
  ELSE IF e.exit = "nonzero" /\ LimitSeen(e) THEN "limited"
  ELSE "error"

Outcomes == {Outcome(e) : e \in Ends}
LauncherReports == Outcomes \ {"limited"}

-----------------------------------------------------------------------------
(* Events and the entity.                                                  *)

(* emit of session.status_idle or session.error by the launcher, or by     *)
(* _run_launcher itself: logged, then marked.                              *)
Report(s) == logged' = s /\ status' = s

NoReport == UNCHANGED <<logged, status>>

(* Wrong variant of ReportErrorIfRunning: the entity is not marked.        *)
ReportErrorUnmarked ==
  IF status = "running" THEN logged' = "error" /\ UNCHANGED status ELSE NoReport

(* Wrong variant of ReportErrorIfRunning: nothing is reported.             *)
ReportNothing == NoReport

(* The guard of both error paths that do not come from the launcher.       *)
ReportErrorIfRunning ==
  IF status = "running" THEN Report("error") ELSE NoReport

Observe(stopped) ==
  /\ silent' = stopped
  /\ overlapped' = (overlapped \/ \E r, q \in Runs :
       r # q /\ run'[r].pc \in ActivePcs /\ run'[q].pc \in ActivePcs)

-----------------------------------------------------------------------------
(* Starting a run.                                                         *)

(* POST /messages: 409 while a task is in flight; a run of another message *)
(* is no obstacle, nor is a deleted session that is still in the index.    *)
SendMessage(m) ==
  /\ Up /\ run[m].pc = "none"
  /\ ~TaskInFlight
  /\ run' = [run EXCEPT ![m].pc = "begin", ![m].attempt = 1]
  /\ Observe(silent)
  /\ UNCHANGED <<logged, indexed, status, lastConv, fixedVars, crashes>>

(* The dispatcher starts a task: one at a time, whatever the session's     *)
(* status.                                                                 *)
StartTask(t) ==
  /\ Up /\ run[t].pc \in {"none", "waiting"}
  /\ ~TaskInFlight
  /\ run[t].attempt < MaxAttempts
  /\ \E m \in IF run[t].pc = "none" THEN {"new", "resume"} ELSE {run[t].mode} :
       run' = [run EXCEPT ![t].pc = "begin", ![t].attempt = @ + 1, ![t].mode = m]
  /\ Observe(silent)
  /\ UNCHANGED <<logged, indexed, status, lastConv, fixedVars, crashes>>

(* _run_launcher up to the agent process.  A resume without a known id     *)
(* starts a fresh conversation; an unknown provider raises outside the try:*)
(* the coroutine ends and the status stays.                                *)
BeginWith(r, attempt, resume) ==
  /\ Report("running")
  /\ IF provider = "unknown"
     THEN run' = [run EXCEPT ![r] = Ended] /\ Observe(TRUE)
     ELSE /\ run' = [run EXCEPT ![r].pc = "primary", ![r].attempt = attempt,
                       ![r].known = FALSE, ![r].hooked = FALSE,
                       ![r].conv = IF resume /\ lastConv # NoConversation
                                   THEN lastConv ELSE Launch(r, attempt, "work")]
          /\ Observe(silent)
  /\ UNCHANGED <<indexed, lastConv, fixedVars, crashes>>

Begin(r) ==
  /\ Up /\ run[r].pc = "begin"
  /\ BeginWith(r, run[r].attempt, run[r].mode = "resume")

-----------------------------------------------------------------------------
(* While the agent process lives.                                          *)

(* A line of stdout tells the launcher the conversation id.                *)
Capture(r) ==
  /\ Up /\ run[r].pc \in {"primary", "sync"} /\ ~run[r].known
  /\ run' = [run EXCEPT ![r].known = TRUE]
  /\ UNCHANGED <<logged, indexed, status, lastConv, fixedVars, crashes, overlapped,
                 silent>>

(* The SessionStart hook of the Claude CLI reaches the emitter, whose      *)
(* on_emit stores the id.                                                  *)
SessionStartHook(r) ==
  /\ provider = "claude_cli"
  /\ Up /\ run[r].pc \in {"primary", "sync"} /\ ~run[r].hooked
  /\ run' = [run EXCEPT ![r].hooked = TRUE]
  /\ lastConv' = run[r].conv
  /\ UNCHANGED <<logged, indexed, status, fixedVars, crashes, overlapped, silent>>

-----------------------------------------------------------------------------
(* The end of the primary run.                                             *)

(* Wrong variant of KeepId: the id is thrown away.                         *)
KeepNoId(r) == UNCHANGED lastConv

KeepId(r) == lastConv' = IF run[r].known THEN run[r].conv ELSE lastConv

(* Behind the primary run: auto-sync in a conversation of its own, or the  *)
(* end.                                                                    *)
AfterPrimary(r) ==
  /\ run' = IF autoSync[r]
            THEN [run EXCEPT ![r].pc = "sync", ![r].saved = lastConv',
                    ![r].conv = Launch(r, run[r].attempt, "sync"),
                    ![r].known = FALSE, ![r].hooked = FALSE]
            ELSE [run EXCEPT ![r] = Ended]
  /\ Observe(FALSE)

(* The launcher has reported, and returned.                                *)
PrimaryReturns(r) ==
  /\ Up /\ run[r].pc = "primary"
  /\ \E s \in LauncherReports : Report(s)
  /\ KeepId(r)
  /\ AfterPrimary(r)
  /\ UNCHANGED <<indexed, fixedVars, crashes>>

(* The launcher raised; a rate limit of a message is no different.         *)
PrimaryRaises(r) ==
  /\ Up /\ run[r].pc = "primary"
  /\ ReportErrorIfRunning
  /\ UNCHANGED lastConv
  /\ AfterPrimary(r)
  /\ UNCHANGED <<indexed, fixedVars, crashes>>

(* What _run_task knows between two launches of a task; nothing of it is   *)
(* kept for a task that is back in the queue.                              *)
Between(t, next) ==
  IF next = "done" THEN Ended
  ELSE [NotRun EXCEPT !.pc = next, !.attempt = run[t].attempt, !.mode = run[t].mode,
          !.earlier = IF next = "waiting" THEN NoConversation
                      ELSE IF run[t].known THEN run[t].conv ELSE run[t].earlier]

(* A rate limit of a task: the dispatcher returns it to the queue, gives   *)
(* it up or backs off, and reports nothing of the session.                 *)
TaskLimited(t) ==
  /\ Up /\ run[t].pc = "primary"
  /\ "limited" \in Outcomes
  /\ KeepId(t)
  /\ \E next \in {"waiting", "done"} \cup
                 IF run[t].attempt < MaxAttempts THEN {"backoff"} ELSE {} :
       /\ run' = [run EXCEPT ![t] = Between(t, next)]
       /\ Observe(silent \/ next # "backoff")
  /\ NoReport
  /\ UNCHANGED <<indexed, fixedVars, crashes>>

(* The backoff is over: back to the queue when the work window has closed, *)
(* else the next launch, which resumes.                                    *)
BackoffEnds(t) ==
  /\ Up /\ run[t].pc = "backoff"
  /\ \/ /\ run' = [run EXCEPT ![t] = Between(t, "waiting")]
        /\ Observe(TRUE)
        /\ NoReport
        /\ UNCHANGED <<indexed, lastConv, fixedVars, crashes>>
     \/ BeginWith(t, run[t].attempt + 1, TRUE)

-----------------------------------------------------------------------------
(* The end of the auto-sync run.                                           *)

(* Wrong variant of SyncEnds: the id is not restored.                      *)
SyncEndsUnrestored(r) ==
  /\ Up /\ run[r].pc = "sync"
  /\ run' = [run EXCEPT ![r] = Ended]
  /\ \/ \E s \in LauncherReports : Report(s) /\ Observe(FALSE)
     \/ NoReport /\ Observe(silent)
  /\ UNCHANGED <<indexed, lastConv, fixedVars, crashes>>

(* Its launcher reports idle or an error, its exception is reported as an  *)
(* error, its rate limit as nothing; the id is restored in every case.     *)
SyncEnds(r) ==
  /\ Up /\ run[r].pc = "sync"
  /\ run' = [run EXCEPT ![r] = Ended]
  /\ \/ \E s \in LauncherReports : Report(s) /\ Observe(FALSE)
     \/ NoReport /\ Observe(silent)
  /\ lastConv' = run[r].saved
  /\ UNCHANGED <<indexed, fixedVars, crashes>>

-----------------------------------------------------------------------------
(* DELETE /sessions/{id}: waiting tasks are cancelled, runs go on, and the *)
(* session stays in the index.                                             *)
Delete ==
  /\ Up
  /\ Report("deleted")
  /\ run' = [r \in Runs |-> IF run[r].pc = "waiting" THEN Ended
                            ELSE run[r]]
  /\ Observe(silent)
  /\ UNCHANGED <<indexed, lastConv, fixedVars, crashes>>

(* The process dies; orphan recovery will fail the task it had in flight.  *)
Crash ==
  /\ Up /\ crashes < MaxCrashes
  /\ crashes' = crashes + 1
  /\ indexed' = FALSE
  /\ status' = "created" /\ lastConv' = NoConversation
  /\ run' = [r \in Runs |-> IF r \in Active THEN Ended
                            ELSE run[r]]
  /\ silent' = (silent \/ Active # {})
  /\ UNCHANGED <<logged, fixedVars, overlapped>>

(* rehydrate_from_events, at the restart or when the session is fetched.   *)
Rehydrate ==
  /\ ~indexed
  /\ indexed' = TRUE
  /\ status' = logged
  /\ UNCHANGED <<logged, lastConv, run, fixedVars, crashes, overlapped, silent>>

-----------------------------------------------------------------------------
Init ==
  /\ logged = "created" /\ status = "created" /\ indexed = TRUE
  /\ lastConv = NoConversation
  /\ run = [r \in Runs |-> NotRun]
  /\ provider \in Providers
  /\ \E ofTask \in [Tasks -> Settings], ofSession, ofEnv \in Settings :
       autoSync = [r \in Runs |-> Resolved(IF r \in Tasks THEN ofTask[r] ELSE "unset",
                                          ofSession, ofEnv)]
  /\ crashes = 0 /\ overlapped = FALSE /\ silent = FALSE

Next ==
  \/ \E m \in Messages : SendMessage(m)
  \/ \E t \in Tasks : StartTask(t) \/ TaskLimited(t) \/ BackoffEnds(t)
  \/ \E r \in Runs :
       \/ Begin(r) \/ Capture(r) \/ SessionStartHook(r)
       \/ PrimaryReturns(r) \/ PrimaryRaises(r) \/ SyncEnds(r)
  \/ Delete
  \/ Crash
  \/ Rehydrate

Spec == Init /\ [][Next]_vars

-----------------------------------------------------------------------------
(* GET /sessions/{id} answers the same from the live entity and from a     *)
(* replay, however runs, deletes and restarts interleave.                  *)
StatusMatchesLog == indexed => status = logged

(* A session shown as running has a live run, unless the last run to stop  *)
(* was a rate-limited task, was refused by the provider factory or died    *)
(* with the process: no other end is lost, even when runs overlap.         *)
RunningIsExplained == status = "running" /\ Active = {} => silent

(* Unless runs overlapped, what a later task resumes is never the          *)
(* conversation of an auto-sync run.                                       *)
AutoSyncIsNotResumed ==
  ~overlapped =>
    /\ indexed /\ Active = {} => lastConv.job # "sync"
    /\ \A r \in Runs : run[r].pc = "primary" => run[r].conv.job = "work"

NextLaunch(t) ==
  /\ run[t].pc = "backoff" /\ run'[t].pc = "primary"
  /\ run[t].earlier # NoConversation
  /\ ~overlapped'

(* A retry after a backoff resumes the conversation of the attempt before  *)
(* it, if its id was known and no other run overlapped.                    *)
RetryResumes ==
  [][\A t \in Tasks : NextLaunch(t) => run'[t].conv = run[t].earlier]_vars
=============================================================================
