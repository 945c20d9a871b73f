# A TLA+ model of mad-edge

Mad is a single asyncio process that runs coding agents (Claude CLI, OpenCode)
in per-session workspaces.  Everything it knows is in an append-only JSONL log of
events; what it keeps in memory is a fold of that log.  This directory models
the parts of `src/src/mad` whose correctness depends on interleaving, ordering,
crashes and time, checks them with TLC and proves the most important invariants
with TLAPS.  Paths below are relative to `src/src/mad` (code) and `src/docs`.

## Inventory

| component | state | operations | interacts with |
|---|---|---|---|
| event emitter and log (`core/events/emitter.py`, `adapters/outbound/persistence/jsonl_session_repository.py`) | one JSONL file per session | append + publish, read, delete | called by every use case; publishes on the bus |
| event bus (`adapters/outbound/events/in_memory_event_bus.py`) | subscriptions, each a bounded queue | publish, subscribe, consume | dispatcher, coordinator, SSE streams |
| task projection (`adapters/outbound/orchestration/projection.py`) | per session: waiting tasks, task in flight, retry info | apply one event, replay the log | folded by the dispatcher's loop; read by HTTP handlers |
| dispatcher (`core/orchestration/use_cases/dispatcher.py`) | `_in_flight`, launch/loop/tick tasks, announced tasks | start, stop, loop, tick, claim, run, retry, defer | bus, projection, sessions index, launcher, git inspector |
| queue use cases (`enqueue_task`, `cancel_task`, `trigger_manual_dispatch`, `update_dispatch_*`, `clear_dispatch_policy`, `deployment_dispatch_policy`, `get_global_queue`) | session fields | one handler each | emitter, projection |
| dispatch policies (`core/orchestration/domain/dispatch_policy.py`, `deployment_policy.py`, `ordering.py`, `retry_schedule.py`) | none | pure functions of policy, time, priority, attempt | dispatcher, queue view |
| workflow coordinator (`core/orchestration/use_cases/workflow_coordinator.py`, `domain/workflow.py`) | workflows, task → step map | handle events, advance, start step, resume | bus, emitter, task queue, create session |
| sessions (`core/sessions/**`) | live index, session entity, workspaces | create, message, delete, fetch, list, clean up | emitter, provisioner, launcher |
| event stream and history (`core/events/use_cases/*.py`, `adapters/outbound/events/jsonl_event_log_query.py`, `routes/events.py`) | cursor | history query, history then live SSE | log, bus |
| launchers (`adapters/outbound/agents/*.py`) | subprocess | run, classify the outcome | emitter |
| workspace provisioner (`adapters/outbound/persistence/local_workspace_provisioner.py`) | directories, clones, hook files | make, mount, install hooks, destroy | create session, coordinator |
| git inspector (`adapters/outbound/orchestration/git_inspector.py`) | none | read head, branch, log, status, remote | dispatcher |
| model catalogue | cache of a listing | list, refresh | sessions, tasks |
| HTTP and MCP adapters, CLI, settings, credentials | none of their own | translate requests | use cases |

What makes these correct, and what is hard:

* **Dispatcher.**  One task in flight; no orphan after a restart; no task lost or
  run twice; FIFO per session and priority across sessions; queued work
  eventually runs.  Hard: three coroutines claim, each claim suspends in the
  middle, the projection it reads lags the log, the bus may drop it, the process
  may die anywhere, windows close while a run backs off.
* **Event bus.**  What is published reaches every subscription in order, or the
  subscription is visibly cut.  Hard: a burst of agent output fills it.
* **Projection.**  The incremental fold and the replay agree.
* **Queue use cases.**  They act on a projection that may lag; their effect must
  still be one the dispatcher can absorb.
* **Workflow coordinator.**  A step starts once, after its dependencies; a
  failure halts the workflow; a crash between its emits is repaired by `_resume`.
* **Sessions.**  Memory and log agree on every session; a deleted session leaves
  nothing behind; a key finds its session; a cleanup spares what is in use; the
  conversation that is resumed is the right one.  Hard: runs of one session
  overlap and share its status, handlers can be cut short between two effects,
  live and unloaded sessions are judged by different code.
* **Event stream.**  History then live, no gap, no duplicate, in order.  Hard:
  the log grows while it is replayed, ids of one millisecond are in random order.
* **Provisioning.**  A session that is answered has what it asked for.  Hard: paths
  nest and lead out of the workspace by way of `..`, clones empty their mount point,
  projects bring hook files of their own, resources are mounted over hook files, any
  effect can be the last.
* **Answers.**  What a route or a tool says is what the log says, up to events that
  are on their way, and two answers do not contradict each other.  Hard: they are made
  from projections that lag, an index a restart empties, and records of old answers.
* **Policies and graphs.**  Windows are open when the operator said; only graphs
  that can be executed are accepted.

## Modules

| module | models | extends / uses |
|---|---|---|
| `TaskProjection` | the fold of `task.*` events, shared by replay and dispatcher (pure) | |
| `Dispatcher` | dispatcher, its subscription, runs, client requests, clock, crash and restart | `TaskProjection`, instance of `TaskLifecycle` |
| `QueueView` | `GET /v1/queue`: what projection and index look like to an operator | `Dispatcher` |
| `TaskApi` | the answers of the task, policy and queue routes and of their MCP tools | `QueueView` |
| `TaskLifecycle` | what the queue promises: the abstract specification `Dispatcher` implements | |
| `WorkflowCoordinator` | graph validation, coordinator, its handlers emit by emit, the read model, resume | instance of `WorkflowLifecycle` |
| `WorkflowLifecycle` | what a workflow promises: the abstract specification `WorkflowCoordinator` implements | |
| `WorkflowApi` | the answers of the workflow routes and tools | `WorkflowCoordinator` |
| `SessionRuns` | status and conversations of the overlapping runs of one session | |
| `SessionCatalogue` | which sessions exist: create, fetch, delete, clean up, retention, restart | |
| `SessionApi` | the answers of the session and deployment-default routes and tools | `SessionCatalogue` |
| `Provisioning` | what creating a session does to its workspace: mounts, clones, hook files | |
| `EventStream` | SSE catch-up and live tail, page walks, the writer | |
| `WorkWindow` | which instants a work window contains, and when it opens next (pure) | |
| `TaskRun` | one task against the clock: backoffs, ceiling, deferrals, launch settings, git result | `WorkWindow` |
| `MC*` | constant values for TLC | the module they are named after, with its `*Api` where there is one |
| `DispatcherProofs`, `ConvergenceProofs` | lemmas and theorems about the fold, the dispatcher, its projection, the queue views and the answers about them | `Dispatcher`; `DispatcherProofs`, `TaskApi` |
| `WorkflowProofs`, `SessionProofs`, `CatalogueProofs` | lemmas and theorems about the component | `WorkflowApi`, `SessionRuns`, `SessionApi` |
| `ProvisioningProofs`, `TaskRunProofs`, `StreamProofs` | lemmas and theorems about the component | `Provisioning`, `TaskRun`, `EventStream` |

The component modules meet at the log: each models what it appends and what it
reads, and takes the others' appends as actions of its environment, with the
order and the delays the real component has (for instance
`WorkflowCoordinator!TaskCompletes` and `GitInspected` are `Dispatcher!RunCompletes`
and `RunInspected` seen from outside).

A definition whose comment says "Wrong variant of X" is not part of the model: it
is X with a plausible slip, kept to show that the property named in
`PROJECT.json` ("mutants") would notice it.

### How a module corresponds to the code

**One action per stretch between two suspensions.**  Everything runs on one event
loop, and `EventEmitter.emit` is `async` but never suspends (append, publish with
`put_nowait`, hook).  So an action is the stretch of a coroutine from one
point where it really suspends to the next, emits included.  A crash can hit
between two emits; where that matters (`Dispatcher!DeleteCancels`, all of
`WorkflowCoordinator` and `SessionCatalogue`) the handler is a script of effects,
with nothing but `Crash` between them.

*`Dispatcher`.*  `slot` is `_in_flight` with the place its run has reached:
`claiming` (the await of the git baseline in `_maybe_dispatch_next`), `running`
(the launcher), `backoff`, `inspecting` (the git subprocesses after
`task.completed`), `abandoned` (a claim whose coroutine `stop()` cancelled).
`LoopStart`/`LoopApply`/`LoopClosed` are `_loop`, `Tick` is `_tick_loop`,
`Dispatch` is the part of a claim after the await, `RunCompletes`, `RunFails`,
`RunRateLimited`, `BackoffEnds`, `RunInspected` are the exits of `_run_task`, each
with the `finally` that frees the slot and claims again.  `logged` is what a replay
of the log gives, `view` the projection in memory; they differ by what is in
`busq`.  `Restart` is the lifespan: replay, rehydrate, `_recover_orphans`, start.
The client operations a run enables are in its constant `Ops`.

*`QueueView`.*  Pure: `Renders`, `InFlight`, `DispatchOrder` and `Scheduled` are the
fields of `GetGlobalQueueUseCase.execute`'s answer, its failures included, for
any projection.

*`WorkflowCoordinator`.*  `script` is what the running handler has still to emit,
`memory` its sets and maps.  `Handle` is one event of `_loop`, `AdvanceStarts` and
`AdvanceEnds` one pass of `_advance`, `StartQueued`/`StartUnresolved`/
`StartUnprovisioned` the three ways through `_start_step`, `Restart`,
`ResumeReconciles`, `ResumeAdvances` are `bootstrap_from_log` and `_resume`.
`Explored` is the depth-first search of `_reject_cycles`, colours and all.
`Inspected` is `SubprocessGitInspector.inspect` over what git may answer, and
`Inheritable` is `_resolve_ref`.

*`SessionRuns`.*  `run[r].pc` is where `_run_launcher` (and `_run_task` around it)
waits: `primary` and `sync` agent processes, `backoff`, `waiting` in the queue.
`provider` is the launcher: only the Claude CLI has the SessionStart hook.
`Report` is `mark_*` plus the `session.status_*` event.  `Outcome` turns the end
of an agent process (exit, timeout, limit signal or phrase) into what its launcher
reports or raises; `Resolved` is the precedence of `auto_sync` over its three levels,
all of whose settings are initial states.

*`SessionCatalogue`.*  `log` is what each stream's file folds to, `index`, `keys`,
`default` (one value for each of `Knobs`) what the process holds, `script` the effects of the create or destroy
handler under way, `doomed` what a cleanup has still to destroy.  `queued` is what the
log has waiting, `shows` what the task projection shows of it, `fresh` the sessions with
a task whose `task.queued` the loop has still to apply (`Applies`): `CancelQueued`
cancels what the projection shows, as `destroy_session` does.

*`Provisioning`.*  A place is a sequence of names below the base directory, the
workspace being `<<"mad">>`; `Walk` follows a mount path, `..` included, `ValidMount` is
`MountPath` and `Resolve` `_resolve_mount`.  `disk` is what lies at each place: files,
clones with what their project tracks and whether Mad's files are excluded from git, and
at places of their own the `settings.local.json` and `forward.sh` of each clone, which
later mounts can replace.  `request`, `at` and `phase` are where
`CreateSessionUseCase.execute` is; `MakeRoom`, `GitClone` and `Install` are
`materialize_github_repo` up to the removal of the mount point, the clone, and the
checkout with `_install_claude_hooks`; `answer` is the status the client gets.
`OtherMounts` is the handler of another session, whose paths lead beside its workspace;
`others` records what it mounted.

*`TaskRun`.*  `phase` is where `_maybe_dispatch_next` and `_run_task` are, `attempt`,
`waited` their locals `attempt` and `cumulative_wait_s`, `launch` the arguments of the
last `_run_launcher`, `base`, `seen` and `head` what git has been and would be asked.
`asked` is what the task and its session ask for, the task's `conversation_mode`
included (`asked.resumes`).  Of a `result`, `read` is an observation: whether `git log`
succeeded.
`Delays`, `ExceedsCeiling`, `EffectiveModel`, `NextOpening` are the pure functions
they are named after.

*`TaskApi`, `SessionApi`, `WorkflowApi`.*  Pure: an answer is a function of the state, a
record with the status code that the exception handlers of `app.py` give; `Told`
makes it the answer of a tool.

*`EventStream`.*  `page`, `cursor`, `full`, `dedup` are the locals of
`StreamEventsUseCase`; `queue` and `subscribed` its subscription; `last` the
client's `Last-Event-ID`; `walk` a client that follows `next` cursors; `Heartbeat` is
a timeout of `_with_heartbeat` over a fetch that goes on.

## Runs

| run | question | bounds | size |
|---|---|---|---|
| `core` | is the queue safe, whoever claims and wherever the process dies? | 2 sessions, 3 tasks, 1 crash, 1 retry, 2 priorities | 753 k states |
| `clients` | do cancel, delete, fetch, messages and bus overflow leave log, projection and index consistent, and is what clients are told true? | 1 session, 2 tasks, a subscription of 3 | 1.49 M states |
| `liveness` | does queued and triggered work run, does every run end? | 2 sessions, 2 tasks, 1 crash | 94 k states |
| `workflow` | are graphs validated exactly, does the coordinator implement the abstract workflow and tell its clients the truth, and does the workflow end, across a crash between any two emits? | all 512 graphs of 3 steps with every choice of inherited mounts | 834 k states |
| `sessions` | are status and conversations right when runs overlap? | 2 tasks, 1 message, 3 attempts, every setting of auto-sync, 1 crash | 3.94 M states |
| `catalogue` | do memory, disk, log and answers agree on which sessions exist? | 1 session, with tasks, 1 workflow, 3 instants, 1 crash, 2 deployment defaults, retention on or off | 4.16 M states |
| `stream` | what can a client of the live stream or of the history miss or see twice? | 4 events, 2 ids a millisecond, pages of 2, limits below, at and above the cap | 503 k states |
| `provisioning` | does a session that is answered have its resources, hooks and working directory? | 2 resources on 6 nested paths, over hook files and by way of `..`, 2 refused paths, 2 paths of other sessions, 2 hook events, 4 choices of what is tracked, crashes | 632 k states |
| `timed` | do deferrals, backoffs, the ceiling, launch settings and git results follow their rules? | 12 instants, days of 4 minutes, one clock change each way, 2 dispatches, 1 commit, 1 change of policy or default, tasks that ask to resume or not | 4.90 M states |
| `messages` | (violation) can a queued task and a /messages run share a session? | 1 session | |
| `workflow_mounts` | (violation) is a step failed for a mount only if its predecessor pushed nothing? | 2 steps | |
| `workflow_stalls` | (violation) does a workflow always end? | 2 steps, 1 crash | |

What each property says is in the comment above it, and what each run shows in
`PROJECT.json`.

**Why the bounds are enough.**  Two sessions and three tasks are the least at
which priority, FIFO order inside a session and age between sessions can
disagree; sessions are symmetric (the symmetry set is used in safety runs only).
`Capacity` 20 is never reached by the events of three tasks, so overflow is absent
from `core` and `liveness` and is provoked in `clients`, where the buffer is 3.
`Backlog` bounds by how many events a request may find the loop behind.  One crash
is enough to reach any state between two emits, and everything a restart reads is
in the log; two crashes differ only in a crash during recovery, whose steps are
idempotent.  Three steps give chains, forks, joins, two failures and cycles
that are entered from outside.  In `EventStream` two ids to a millisecond give both
orders of a tie, and pages of two give full, partial and empty last pages.
Sessions of the catalogue share nothing but the directory, the set of candidates
of a cleanup and the key map; one session beside one workflow shows each of these
with a stream that is not a session.
In `SessionRuns` three attempts are the least at which a retry follows a retry, or a
deferral a retry, so that the conversation to resume is not simply the first one.
In `Provisioning` two resources are the least that can nest, coincide or lie apart;
a third only repeats one of these against either.  Its paths are the workspace,
one place in it, the places of its hooks, and the same name beside the workspace; another session mounts at that place or inside it.  The log and the
projection of the catalogue differ by the tasks of one session at most, which is where
DELETE looks.  In `TaskRun` a minute is two ticks,
so that an opening can fall between two steps of the search; the interval doubles once
before its cap; the ceiling is met after some but not all schedules; and the summer
ends and begins inside the horizon of 14 days.

**Fairness.**  `Dispatcher`: weak fairness of the loop, the tick, a claim, a run
and the restart: asyncio resumes every ready coroutine, the launcher's
wall-clock timeout ends every run, git calls and backoffs are bounded, and a
supervisor restarts the process.  Nothing is assumed of clients, windows or
crashes.  `WorkflowCoordinator`: of the coordinator's steps, the dispatcher's
(justified by `DispatchedTasksEnd` and `QueuedTasksLeave`) and the restart.
`EventStream`: of the stream's steps and of a client that reads and reconnects,
which is an assumption about the environment.  The other modules are checked for
safety only.

## Proofs

TLAPS proves these for every value of the constants that satisfies the named
assumptions: every number of sessions, tasks, steps, resources and crashes, every
graph that is accepted, every buffer size and every set of client operations.

| theorem | says |
|---|---|
| `DispatcherProofs!TypeCorrect` | `Spec => []TypeOK` |
| `DispatcherProofs!OneInFlight` | the log never has two tasks in flight |
| `DispatcherProofs!NoOrphan` | while the process is up, what the log has in flight is the task whose run is alive |
| `DispatcherProofs!ClaimsAlone` | nothing is in flight while a claim reads its git baseline |
| `WorkflowProofs!InvHolds` | memory, subscription and script of the coordinator agree with the log |
| `WorkflowProofs!WorkflowImplementsLifecycle` | `Spec => ImplementsWorkflow`: the coordinator implements `WorkflowLifecycle` |
| `WorkflowProofs!NothingIsWrittenTwice` | nothing about a workflow is written twice |
| `WorkflowProofs!AcceptedAreOrdered` | the graphs accepted are the ones whose steps can be put in order |
| `WorkflowProofs!ReadModelFollowsTheLog` | what clients read of a workflow is what its log says, once the buffer is handled |
| `ConvergenceProofs!LogAndProjectionAgree` | the projection is the replay of the log, once it has folded what waits in the buffer |
| `ConvergenceProofs!NothingReturns` | a task that has left the log's queue and is not in flight never waits again |
| `ConvergenceProofs!NothingEndedRunsAgain` | `Spec => EndedIsNotRerun`: only a queued task is dispatched, or one cancelled after its claim |
| `ConvergenceProofs!LogKeepsAccounts` | a replay resumes exactly the tasks the log leaves waiting or running, if `NothingCancels` and `[]Subscribed` |
| `ConvergenceProofs!DispatcherImplementsLifecycle` | the dispatcher implements `TaskLifecycle`, under the same two premises |
| `ConvergenceProofs!SessionsAreFifo` | each session's tasks are dispatched in the order in which they were given, under these premises and `Settable = {}` |
| `ConvergenceProofs!ClaimsFollowTheQueue` | a claim takes the first task of the queue that `GET /v1/queue` shows, under the premises of `SessionsAreFifo` and `IsFiniteSet(Sessions)` |
| `ConvergenceProofs!AnswersAreExplained` | `Spec => []AnswersHold`: no answer of the queue is a 500, `GET /v1/queue` shows every task once, and an answer the log contradicts is explained by a buffered event of its own task, session or queue; if `IsFiniteSet(Sessions)` |
| `ProvisioningProofs!MountsAreSafe` | a session that is answered has its resources in place, but where a later one, or beside the workspace another session, was mounted over them |
| `ProvisioningProofs!HooksAreForwarded` | its clones forward each hook event once (or as often as the project does), after the project's own groups, unless something was mounted over the hook files |
| `ProvisioningProofs!ClonesStartClean` | Mad's own files do not show in the git status of a clone, unless the project tracks `settings.local.json` or another `forward.sh` |
| `ProvisioningProofs!AgentHasItsDirectory` | the agent of a session that named no directory starts in one that is there, but for a clone beside the workspace that another session mounted over |
| `SessionProofs!LiveIsReplayed` | the status in memory is the one the log gives |
| `SessionProofs!RunningHasARun` | a session shown as running has a run, or the last one ended without a word |
| `SessionProofs!SyncStaysApart` | no run resumes the conversation of an auto-sync follow-up, while runs do not overlap |
| `SessionProofs!RetryKeepsItsConversation` | a relaunch resumes the conversation of the attempt before it |
| `CatalogueProofs!AnswersAreReplayed` | memory answers what a replay of the logs would |
| `CatalogueProofs!DeletionIsComplete` | a deleted session leaves no workspace and no waiting task that its DELETE could find in the projection |
| `CatalogueProofs!CleanupFindsAll` | the candidates of a cleanup are those the logs say, loaded or not |
| `CatalogueProofs!AnswersAreConsistent` | the answers of the session routes and tools agree with each other and with the logs |
| `StreamProofs!WalksAreExact` | a walk over the pages shows no event twice and every event of the log it began with |
| `StreamProofs!StreamsFollowTime` | what the stream sends never goes back in time |
| `StreamProofs!StreamFlawsAreTies` | an event passed over or delivered twice shares its millisecond with a delivered one |
| `TaskRunProofs!LaunchTermsHold` | model, mode, pause and window of every launch of a dispatch |
| `TaskRunProofs!RetriesFit` | the sleeps of a dispatch stay below the ceiling together and follow the schedule of backoffs |
| `TaskRunProofs!ScheduledFits` | `scheduled_for` lies in an open window, less than a minute after it opened |
| `TaskRunProofs!ResultIsOfTheRun` | `task.git_result` lists the commits of its dispatch, or none when `git log` failed |

**Dispatcher.**  None of the three safety properties is inductive alone.
`LogHasOneInFlight` survives a dispatch only because nothing is in flight during a
claim (`NoRunBeforeDispatch`); that survives the start of a claim only because an
idle slot means that nothing is in flight (`NoOrphanWhileUp`); and that survives the
end of a run only because it ended the one task in flight.  `InFlightInv` is their
conjunction and inductive together with `TypeOK`.  There is one lemma per group of
actions, all resting on two facts: with nothing in flight the invariant holds
(`NothingSuffices`), and a step that only takes tasks out of flight and leaves the
slot alone keeps it (`ShrinkSuffices`).  The interesting step is `Restart`, where
recovery fails every task in flight before the process is up.  What is needed of the
fold comes first in `DispatcherProofs`: it maps views to views, only `dispatched` puts a
task in flight, an end takes it out.

**Coordinator.**  A handler emits one event after the other and a crash may lose the
rest, so the log alone satisfies no invariant worth having.  `Inv` says, for each
script that can be left to perform, that the coordinator's memory is the log as it
will be once the script is performed (`Synced`), with what must hold before its
first event (`ToStart`, `ToQueue`, `ToFailBoth`, ...).  `NextInv` shows it inductive,
one lemma per action.  From it every emit is one of the abstract workflow's actions
(`NextMaps`): the stage of a step is read off the log, and `forgot`, what a crash made
the process forget, is the number of crashes.  `NothingRepeated` reads "not yet
written" off the head of the script.  `ReadModelFollowsTheLog` folds the events of the
log: what the read model lacks is in the script or in its buffer, in the log's order.

`AcceptedAreOrdered` is about a depth-first search (`Explored`, which calls itself and
folds over the dependencies of a step), whatever order its fold takes them in.  That
such definitions have a value and that it satisfies their equation is proved from least
natural numbers (`LeastNatural`, `Recursion`, `Iterates`), the measure of a call being
twice the steps still white.  The search then finishes a step only after its
dependencies (`VisitFinishes`), so the finishing order is the order of an accepted graph;
and it rejects only on an edge into a step it is still visiting, from which the calls
under way lead back (`VisitStep`).

**Provisioning.**  `Tree` is what holds of the disk from the request to the answer and
after: what lies at a place belongs to the resource mounted there, and nothing that
replaces it came later (`Owned`); conversely every resource mounted so far is in place
unless replaced (`Surviving`); the hook files of a clone are as the install left them
unless something covers them (`Hooked`), they are excluded from git (`Hidden`), and what
else lies inside a clone was mounted there later (`Explained`).  None is inductive
alone: `MakeRoom` empties a subtree, and what that spares is known only from who owns
what.  A step that mounts something at a place leaves all else alone but for directories
it makes (`MountsAt`), from which `HookedStays` and `ExplainedStays` follow once for all
kinds of mounts, the ones of other sessions included: these cover nothing in the
workspace, which is not below a place that lies beside it (`Outside`).  All rests on a
few facts about prefixes of places.  That the install adds a group only where none
forwards yet is `ForwardsOnce`, a fact about the number of such groups.

**Projection.**  `LogAndProjectionAgree` follows the chain of views: `Replays` is a
sequence that begins with the projection, ends with the replay of the log, and in which
each view is the one before with the next buffered event folded in.  An emit lengthens
it, `LoopApply` drops its head, a restart leaves one view.  `NothingReturns` needs only
what one event can add to a queue (`WaitingAfter`).  `NothingEndedRunsAgain` needs no
premise: with cancels the projection may hold a task that the log has cancelled, so
`RerunInv` says of every task the projection has waiting that the log has it queued or
cancelled or that its dispatch is still in the buffer (`Holds`), and that no event of
the buffer adds a task a second time (`AddsOnce`).

**Accounts.**  `LogAccountsForTasks` and the refinement are false once a cancel reaches
a task that is being claimed (divergence 1) or the projection has lost its
subscription (3), so both theorems have two premises: `NothingCancels` (a fact about the
constant `Ops`) and `[]Subscribed`.  `DispatcherCore`, whose `Ops` and `Capacity` meet
them, is the instance TLC checks.  `AccountsInv` has three parts: `PlacesInv`, status
and place in the log agree; `SlotInv`, what is claimed waits in the log, what runs is in
flight, and the only dispatch the loop may not have applied is that of the task that
runs; `Follows`, a task the projection has waiting waits in the log too or has its
dispatch in the buffer, and the buffer adds no task the projection has.  What one event
does to a view is one lemma, `EventMoves`; what the process emits is described by
`Fits`, and every emit that fits keeps `PlacesInv` (`PlacesKept`) and `Follows`
(`EmitFollowed`, `ApplyFollowed`).

**Order.**  `SessionsAreFifo` has a third premise, that clients set no policy
(`Settable = {}`, as in `DispatcherCore`): a deferral puts its task back at the head of
the queue only when the loop applies it, and until then the closed window alone keeps
the session's next task from being claimed; a client that opens the window in between
lets it pass.  `FifoInv` says so: the log's queues ascend and what is in flight is older
(`LogAscends`); a claim has the oldest task of its session (`ClaimIsFirst`); every view
between projection and log ascends (`InOrder`), so that its head is the oldest task left
(`HeadIsFirst`); and while a deferral is in the buffer its session's window is closed,
or a claim or dispatch follows (`DeferredWait`).

`ClaimsFollowTheQueue` compares the claim with the order that `queue.py` computes, by
taking the winner of the heads out until no session is left.  Each turn frees a place
of `Seats`, the tasks that wait in a session that may be served, so that the recursion
has a solution (`Recursion`, by induction over the numbers) and can be
unfolded (`OrderUnfolds`).  By induction over the seats the order has every ready task
once (`OrderCovers`) and, queues that ascend given, in rank (`OrderRanks`), and `_pick`
takes the head it begins with.  The premise on `Sessions` is the code's: sessions are
the entries of an in-memory dictionary.

**Answers.**  `AnswersAreExplained` rests on `RenderInv`: every view between projection
and log is in `Shown` (each task once, in the session it was queued on; one in flight;
no session that the live index lacks), and every event there is `Calm`, that is, it adds
no task that waits and dispatches with nothing in flight.  It is not inductive alone: an
event that is published extends the views by the log, which is in `Shown` by the
invariants about the log and by `IndexInv` (what the log leaves pending is loaded).  A
view in `Shown` is shown whole (`ShownRenders`): the order lists the tasks that may run,
`Scheduled` sorts the gated ones, by a rank (`SortedExists`), and in flight there is one
at most.  What no calm event of the buffer changes is the same in projection and log
(`PacedKeeps`, by induction over the buffer), once for the place of a task, once for
what a session has, once for the whole view.

**Runs.**  `LoggedInv` is stronger than the two properties about the status: a logged
"running" has a run that will still replace it, unless the last end was silent, and a
run in auto-sync does not count, for it may report nothing more.  The two about
conversations need `AloneInv`: while no two runs of the session have overlapped there
is one active run; auto-sync holds the id it will restore; and a retry finds, as the
session's last conversation, the one of the attempt before it.

**Catalogue.**  `StreamInv` relates disk and memory of one stream, `ScriptInv` says what
holds before each effect of a handler: a session being created has a log but no entity
until `Register`, which is why `NewSession` must have the timestamp of its event; one
being deleted has no task that the projection showed before its workspace goes and
no workspace before `session.deleted`.  `ViewInv` says that every task that waits is
shown or still to be applied, so that what a DELETE misses is `late`.  A crash keeps both since the disk of every prefix of the effects
satisfies `StreamInv`.  All emits go through one lemma (`EmitKeeps`): folding an event
into the log, and changing then touching the live entity, commute.  `AnswersAgree`
needs `KeysInv` as well: a recorded key names a session that is loaded, and a loaded
session stays so until the process ends (`LiveStays`), since a deletion leaves the
entity in memory.

**Stream.**  A page is defined by the k-th smallest of a set of ids, so the proofs count
(`RankIsOnto`, `QueryFacts`).  `StreamInv` follows a client over all its connections.
What it received follows the clock, and between its first and its last event no
millisecond that has events was passed over (`ClientHolds`).  While a replay goes on,
the page has whatever follows the client's last event, up to the page's own end, and
behind a short page only what the subscription has (`ReplayHolds`); in the live tail,
what the subscription does not have is behind the client (`LiveHolds`).  In each, what
is lost to an overflow is behind the end mark, from which the client resumes.

**Timed run.**  `LaunchInv` ties the locals of `_run_task` (attempt, wake-up) to the
last launch through a sleep, which lasts a backoff's length whatever the jitter and the
floor (`DelayIsLong`).  `GitInv`: the commits of the base are older than the dispatch,
and the task's commits that the head has beyond the base are of this dispatch.
`RetriesFit` compares two recursions over the attempts (`Interval`, `LeastWait`), by the
least attempt at which they would part.  `ScheduledFits` is about the search of
`next_window_opening`, minute by minute over two weeks.  It always ends at an opening
under `SearchAssumption`: the search is no shorter than the 14 days of the code, clock
changes are whole minutes at whole minutes, as those of every time zone, and the summer
is one stretch, since no two changes of the same direction fall within two weeks.

Only model-checked: liveness and the fairness behind it (out of the prover's reach;
`QueuedTasksLeave`, `TriggeredTasksLeave`, `DispatchedTasksEnd`, `OtherWorkflowsEnd`,
`EveryEventArrives`), and what the three violation runs refute.  A hypothesis that a
theorem has and its run meets by its constants is named in the table.

## Modelling notes

* *Time.*  Windows open and close at any moment the loop has caught up or is
  blocked (`Toggle`); which moments these are is in `WorkWindow`.  Backoffs and
  timeouts end eventually.  The 5 h ceiling may be met on any attempt.  Clocks are
  monotone.
* *Dispatcher.*  Task ids are numbered in queue order, which is the order of
  `created_at`.  Bursts of agent output are one kind of event.  The loop is woken
  before a run that its event started (asyncio's ready queue is FIFO), which is
  `DispatchApplied`.  Between `stop()` and the end of the process only a claim can
  still act.  The log is replayed in the order written; ties within a millisecond
  are modelled in `EventStream` only.  Starvation by priority is
  deliberate in the code (ADR-0009) and cannot occur with `MaxTasks` arrivals.
* *Coordinator.*  One workflow, since workflows share no state.  A git result that
  is missing, detached or not pushed is "none".  Other tasks a client puts on a
  step's session are left out.  `OtherWorkflowsEnd` excludes cancelled tasks and the
  two crash gaps (4 and `workflow_stalls`).
* *Runs.*  The SessionStart hook fires at most once for a launch, while its process
  lives.  Outcomes of tasks are in `Dispatcher`.
* *Catalogue.*  A session's tasks are one: they wait or they do not, and the buffer
  between log and projection, which `Dispatcher` has event by event, is whether the
  session has a task the loop has not applied.  Clones block the event loop, so a create does not interleave with
  other requests.  A disk that fails, `rmtree` raising included, is left out.
* *Stream.*  A frame that is yielded but not received counts as not yielded.
  Events without an id (older logs) and filters are left out.
* *Answers.*  Every answer is given at once, in the state in which the handler looks:
  no handler suspends between its last look and its answer.  Bodies that Pydantic or
  a parser refuses (422) are refused before any state is read and are left out, but for
  a model the catalogue does not know, which is refused before the key is looked up.
* *Provisioning.*  One session, with the mounts of others as environment: two workspaces
  share nothing, but a path by way of `..` leads beside them, to a directory that all
  sessions share (divergence 37).  Others mount between the requests of the session, since
  a request is one synchronous stretch; their clones track nothing at the hooks' places.
  Left out: `.` and doubled slashes in paths, paths that return above their end,
  resources mounted as a clone's `.git`, projects that track `.claude` as a file, the
  directories that a failing `mkdir` has made, and a full disk.  `base_branch` exists or
  not; the checkout of a branch changes no file that the properties look at.  The working
  directory is named by the place where its path leads.
* *Timed runs.*  An instant is enough for any await but the backoff.  Jitter takes the
  values of minus a tenth and none; a tenth more only lengthens a sleep.  A commit, or a reset to the commit before, is all an agent
  does to its branch; other branches and rewritten histories are left out.

## Not modelled

* *Inherited mounts beyond their outcome*: which commits a next step clones
  (divergence 19) needs remotes and branches that nothing else looks at; the
  coordinator has the decision (`Inheritable`), the commits stay out.
* *Settings* (`core/config/settings.py`): each setting is parsed from the environment
  when it is read, without state; precedence is in `TaskRun!EffectiveModel` and
  `SessionRuns!Resolved`, of which effort and timeout are further instances.
* *Command lines, environment and redaction* of the launchers: text that no other
  part reads back.
* *Model catalogue, credentials, CLI, `GET /v1/config`, the listing of models*: I/O and
  configuration without state of their own; that a model may be unknown is in
  `SessionApi`.
* *Filters of events* (`?agent=`, `?kind=`, `?since=`): a stream or a walk with filters
  is one over a smaller log; divergence 8 is the exception.
* *Other hooks* of the hook endpoint: they append an event.

## Divergences met while modelling

The first list has a run each, with the doc line it contradicts quoted in
`PROJECT.json` ("findings"): `messages`, `workflow_mounts`, `workflow_stalls`.
The others are in the model as the code has them; the properties exclude or
describe exactly these cases.

1. A DELETE while a claim awaits its git baseline cancels the task, which is then
   dispatched all the same (`dispatcher.py:266`; `delete_session.py:18-24`).
2. `stop()` while the `finally` of a finished run claims: that claim has no handle
   and dispatches after the stop (`dispatcher.py:563`).
3. Overflow of the dispatcher's subscription ends its loop for good; until a
   restart ticks act on a stale projection and can run an ended task again
   (`dispatcher.py:205`).
4. `manual_drain_remaining` counts: when a task of the snapshot is cancelled the
   drain serves one queued later (`trigger_manual_dispatch.py:82`; ADR-0009:138).
5. A crash between `workflow.step.failed` and `workflow.failed`: after the restart
   further steps start and the workflow may never end
   (`workflow_coordinator.py:246`).
6. The replay of the workflow read model is ordered by ids that are random within
   a millisecond; `workflow.created` after a root step's start erases it
   (`workflow_projection.py:110`).
7. Gaps and repeats of the event stream within one millisecond
   (`stream_events.py:72`; `routes/events.py:14-16`).
8. The sessions of `?agent=` are fixed when the stream opens
   (`stream_events.py:42`; ADR-0004:53).
9. A deleted session accepts tasks and messages, and a run brings its status back
   (`enqueue_task.py:56`, `send_user_message.py:194`).
10. `task.completed` is recorded for runs that ended in `session.error`
    (`claude_cli.py:254-261,321`; ADR-0009:55,58).
11. A retry resumes the session's last conversation, another task's if the limited
    run showed no id (`dispatcher.py:545`, `send_user_message.py:204`).
12. A task deferred to its window starts a fresh conversation when the window opens,
    unless it was given with `conversation_mode` "resume" (`dispatcher.py:451`; README.md:5 promises the same conversation).
13. A crash inside `destroy_session` after the removal of the workspace leaves a
    session that looks alive and has none (`delete_session.py:65`).
14. Idempotency keys, `base_branch` and the workspace path are in memory only and
    lost at a restart (`rehydrate.py:106-120`).
15. A failed create leaves `session.created` in the log and a workspace, and is
    listed as a session (`create_session.py:109`;
    docs/03-contracts/events-published.md:75).
16. A workflow's stream, loaded as a session, shows a creation time that moves with
    its last event (`rehydrate.py:99-100`).
17. Retention purges quiet sessions with tasks still waiting, and quiet workflows,
    and leaves their workspaces (`jsonl_session_repository.py:148-156`;
    `dispatch_policy.py:10`).
18. `ready` of `GET /v1/queue` lists every waiting task of a manual session under
    drain, the ones past the drain's count included, which will not be dispatched
    (`get_global_queue.py:122`; `get_global_queue.py:10-11`).
19. `pushed` says that origin has a branch of that name, not that it has `head_sha`:
    commits made after the push, or on a branch cloned from origin, are "pushed", and
    the next step clones the branch without them or fails to check out the sha
    (`git_inspector.py:137`; `workflow_coordinator.py:430-434`).
20. A limit signal early in a run that later exits non-zero for another reason
    makes the run a rate-limited one, and a timeout after a limit an error
    (`claude_cli.py:254,293`).
21. After a restart messages, tasks, policies, triggers and DELETE answer 404 until a
    GET has loaded the session, for they ask the live index only; the table of errors
    says that the log is asked, too (`send_user_message.py:78`, `enqueue_task.py:56`;
    04-conventions/error-handling.md:54).
22. A task in flight is shown as `retrying` until it ends or is deferred, also while the
    relaunched agent runs (`projection.py:128`, `routes/orchestration.py:172`).
23. A project that tracks its own `settings.local.json` or `.claude/hooks/forward.sh`
    shows it as changed by Mad's merge or copy: the exclude file has no effect on tracked
    files (`local_workspace_provisioner.py:152-168`).
24. A repository mounted at or above an earlier resource wipes it, and the answer still
    lists the earlier one as cloned or written (`local_workspace_provisioner.py:109`,
    `create_session.py:141`).
25. An explicit `working_directory` is not checked to exist; every run of such a
    session fails (`create_session.py:223`).
26. `scheduled_for` may be up to a minute after the opening
    (`dispatch_policy.py:227`).
27. A wrapping window is open on the whole of its hours of the day before a configured
    one: 22:00-06:00 for Saturday is open on Friday from 00:00 to 06:00, too
    (`dispatch_policy.py:89`; the comment at 83-86).
28. Streams of workflows are listed among the sessions and can be loaded, "deleted" and
    cleaned up as such (`jsonl_session_repository.py:204`; its docstring at 197-199).
29. The HTTP route refuses an events limit the MCP tool clamps
    (`routes/events.py:166`, `query_events.py:53`).
30. A repeated Idempotency-Key is answered "created" for ever, for a deleted session too;
    an unknown model is refused even when the key is known (`routes/sessions.py:210`).
31. `task.git_result` omits the commits of a dispatch that was deferred, names those of
    a concurrent /messages run as the task's, and its head and commits may be read
    around one (`dispatcher.py:266`, `git_inspector.py:42`).
32. A limit whose reset lies beyond the ceiling fails the task at once
    (`dispatcher.py:512`).
33. A stream client that leaves during the replay leaves its subscription behind until
    it overflows (`in_memory_event_bus.py:66`).
34. A workflow is 404 between the 202 of its creation and the coordinator's handling of
    `workflow.created` (`routes/workflows.py:174`).
35. `mad_list_tasks` omits the `auto_sync` its route shows (`mcp/server.py:434`).
36. A task given so shortly before a DELETE that the loop has not applied `task.queued`
    is not cancelled and outlives the session (`delete_session.py:59`; the comment at
    55-56 says that queued tasks never do).
37. A mount path by way of `..`, as in `/workspace/../workspace/r`, is accepted for where
    it would end and joined as it is given: it leads to `workspace/r` beside the
    workspaces, which all sessions share and no DELETE removes (`mount_path.py:42-51`,
    `local_workspace_provisioner.py:66-74`).
38. A resource mounted over the hook files of a clone replaces them; the session is
    answered 200 and the clone forwards no hooks (`local_workspace_provisioner.py:109`,
    `191-200`).
39. `task.git_result` after a `git log` that failed lists no commits, as after a run that
    made none (`git_inspector.py:115-119`).

## The plan, done and left

The core, the composition with clients and their answers, the workflow coordinator
with its abstract specification, runs, catalogue, provisioning, stream and the timed run
are done, each with its theorems.  Left, most important first: an abstract log reader for
`EventStream`; inherited mounts as commits.
