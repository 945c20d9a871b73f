---------------------------- MODULE Dispatcher ----------------------------
(***************************************************************************)
(* The orchestration dispatcher (core/orchestration/use_cases/             *)
(* dispatcher.py) with what it interleaves with on the event loop: its bus *)
(* subscription, the 30 s tick, the run of the task in flight, the HTTP    *)
(* handlers that queue, cancel, trigger and reconfigure, the clock that    *)
(* opens and closes work windows, and crashes and restarts of the process. *)
(*                                                                         *)
(* One action is one stretch of a coroutine between two points where it    *)
(* really suspends.  EventEmitter.emit never suspends, so an emit (append  *)
(* to the log, then publish) belongs to the action that performs it.       *)
(***************************************************************************)
EXTENDS TaskProjection

CONSTANTS Capacity,      \* events a bus subscription buffers (256 in the code)
          Backlog,       \* bound: requests are served while the loop is behind by
                         \* fewer events than this
          MaxAttempts,   \* retries before the 5 h ceiling fails the task
          MaxCrashes,    \* crashes in one behaviour
          MaxPriority,   \* highest session priority (10 in the code)
          StartPolicies, \* session policies a behaviour may start with
          Settable,      \* policies that clients set
          Ops            \* client operations the environment performs

Policies == {"immediate", "manual", "window"}
Inherit == "inherit"

AllOps == {"cancel", "delete", "trigger", "priority", "message",
           "fetch", "output", "stop", "ratelimit"}

ASSUME DispatcherAssumption ==
  /\ Capacity \in Nat \ {0}
  /\ Backlog \in Nat
  /\ MaxAttempts \in Nat
  /\ MaxCrashes \in Nat
  /\ MaxPriority \in Nat \ {0}
  /\ StartPolicies \cup Settable \subseteq Policies \cup {Inherit}
  /\ Ops \subseteq AllOps

VARIABLES
  (* What the JSONL log says: it survives a crash. *)
  logged,     \* the projection a replay of the whole log would build
  status,     \* task -> its last lifecycle event in the log
  owner,      \* task -> the session it was queued on
  override,   \* session -> dispatch_policy, or Inherit
  default,    \* the deployment-wide policy
  priority,   \* session -> priority
  deleted,    \* sessions whose session.deleted is in the log
  (* The process. *)
  mode,       \* "up", "stopping" or "down"
  index,      \* sessions in the live index
  view,       \* the dispatcher's projection
  busq,       \* what the loop's subscription has buffered
  subscribed, \* FALSE once the bus has dropped the subscription
  loop,       \* "starting", "idle", "claiming", "closed"
  slot,       \* the dispatcher's _in_flight and where its run is
  drain,      \* session -> manual_drain_remaining
  announced,  \* tasks with a task.queued_for_window (_deferred_tasks)
  adhoc,      \* sessions with a /messages run
  destroying, \* the delete handler between two of its emits
  (* The environment. *)
  open,       \* the work window is open now
  crashes,
  (* Observation only. *)
  promised    \* tasks in the snapshot of a manual trigger still in force

logVars   == <<logged, status, owner, override, default, priority, deleted>>
busVars   == <<busq, subscribed>>
claimVars == <<slot, drain, announced>>
envVars   == <<open, crashes>>
vars == <<logVars, mode, index, view, busVars, loop, claimVars, adhoc,
          destroying, envVars, promised>>

Statuses == {"absent", "queued", "dispatched"} \cup TerminalTypes

FreeSlot == [phase |-> "free", sess |-> "none", task |-> NoTask,
             by |-> "none", attempt |-> 0]

(* claiming: _in_flight is set and the git baseline is being read;         *)
(* abandoned: the coroutine doing that was cancelled by stop().            *)
Slots == {FreeSlot} \cup
  [phase   : {"claiming", "abandoned", "running", "backoff", "inspecting"},
   sess    : Sessions,
   task    : Tasks,
   by      : {"loop", "tick", "run"},
   attempt : 0 .. MaxAttempts]

NotDestroying == [sess |-> "none", todo |-> <<>>]

CloseMark == [type |-> "close"]
OutputMark == [type |-> "output"]

(* Handlers and coroutines run while the process is up; a delete between   *)
(* two of its emits does not suspend, so nothing runs in between.          *)
Up == mode = "up" /\ destroying = NotDestroying

-----------------------------------------------------------------------------
(* The event bus and the emitter.                                          *)

(* A full subscription gets the disconnect sentinel in its reserved slot   *)
(* and is removed; nothing is delivered to it any more.                    *)
Publish(e) ==
  \/ /\ ~subscribed
     /\ UNCHANGED busVars
  \/ /\ subscribed
     /\ Len(busq) < Capacity
     /\ busq' = Append(busq, e)
     /\ UNCHANGED subscribed
  \/ /\ subscribed
     /\ Len(busq) >= Capacity
     /\ busq' = Append(busq, CloseMark)
     /\ subscribed' = FALSE

StatusAfter(e) ==
  CASE e.type \in TerminalTypes \cup {"queued", "dispatched"} ->
         [status EXCEPT ![e.task] = e.type]
    [] e.type = "deferred" -> [status EXCEPT ![e.task] = "queued"]
    [] OTHER -> status

Emit(e) ==
  /\ logged' = Apply(logged, e)
  /\ status' = StatusAfter(e)
  /\ Publish(e)

Event(type, s, t) == [type |-> type, sess |-> s, task |-> t]

-----------------------------------------------------------------------------
(* Choosing the next task.                                                 *)

EffectivePolicy(s) == IF override[s] = Inherit THEN default ELSE override[s]

CanDispatch(s) ==
  \/ EffectivePolicy(s) = "immediate"
  \/ EffectivePolicy(s) = "manual" /\ drain[s] > 0
  \/ EffectivePolicy(s) = "window" /\ open

WindowClosed(s) == EffectivePolicy(s) = "window" /\ ~open

(* The sessions that compete: eligible, with a waiting task.               *)
Candidates(v) == {s \in index : CanDispatch(s) /\ v.queued[s] # <<>>}

(* Wrong variant of Before: the lowest priority first.                     *)
BeforeLowestFirst(v, s, r) ==
  \/ priority[s] < priority[r]
  \/ priority[s] = priority[r] /\ Head(v.queued[s]) < Head(v.queued[r])

(* The key (-priority, head.created_at) of order_ready_candidates.         *)
Before(v, s, r) ==
  \/ priority[s] > priority[r]
  \/ priority[s] = priority[r] /\ Head(v.queued[s]) < Head(v.queued[r])

Winner(v, s) ==
  s \in Candidates(v) /\ \A r \in Candidates(v) \ {s} : Before(v, s, r)

(* Wrong variant of Claim: the drain counter is decremented unguarded.     *)
ClaimDrainsBelowZero(caller, v) ==
  \/ /\ mode # "up" \/ Candidates(v) = {}
     /\ slot' = FreeSlot
     /\ UNCHANGED <<drain, announced>>
  \/ \E s \in Sessions :
       /\ mode = "up"
       /\ Winner(v, s)
       /\ slot' = [phase |-> "claiming", sess |-> s, task |-> Head(v.queued[s]),
                   by |-> caller, attempt |-> 0]
       /\ drain' = [drain EXCEPT ![s] = @ - 1]
       /\ announced' = announced \ {Head(v.queued[s])}

(* _maybe_dispatch_next from a caller that sees no task in flight, up to   *)
(* the await of the git baseline: claim the winner, or leave the slot free.*)
Claim(caller, v) ==
  \/ /\ mode # "up" \/ Candidates(v) = {}
     /\ slot' = FreeSlot
     /\ UNCHANGED <<drain, announced>>
  \/ \E s \in Sessions :
       /\ mode = "up"
       /\ Winner(v, s)
       /\ slot' = [phase |-> "claiming", sess |-> s, task |-> Head(v.queued[s]),
                   by |-> caller, attempt |-> 0]
       /\ drain' = [drain EXCEPT ![s] = IF @ > 0 THEN @ - 1 ELSE 0]
       /\ announced' = announced \ {Head(v.queued[s])}

-----------------------------------------------------------------------------
(* The dispatch loop.                                                      *)

(* The loop suspends inside a claim of its own, else on its queue.         *)
LoopAfterClaim ==
  loop' = IF slot'.phase = "claiming" THEN "claiming" ELSE "idle"

(* Wrong variant of MaybeDispatchInLoop: _in_flight is not looked at.      *)
MaybeDispatchUnguarded(v) == Claim("loop", v) /\ LoopAfterClaim

MaybeDispatchInLoop(v) ==
  \/ /\ slot.phase = "free"
     /\ Claim("loop", v)
     /\ LoopAfterClaim
  \/ /\ slot.phase # "free"
     /\ loop' = "idle"
     /\ UNCHANGED claimVars

(* Wrong variant of LoopStart: the loop subscribes when it first runs and  *)
(* misses what was published since start().                                *)
LoopStartSubscribesLate ==
  /\ Up /\ loop = "starting"
  /\ MaybeDispatchInLoop(view)
  /\ busq' = <<>>
  /\ UNCHANGED <<logVars, mode, index, view, subscribed, adhoc, destroying,
                 envVars, promised>>

(* _loop before its first event: bootstrap may have left queued tasks.     *)
LoopStart ==
  /\ Up /\ loop = "starting"
  /\ MaybeDispatchInLoop(view)
  /\ UNCHANGED <<logVars, mode, index, view, busVars, adhoc, destroying,
                 envVars, promised>>

(* One event: apply it; a task.queued of a known session dispatches now or *)
(* is announced as waiting for its window.  The announcement itself is an  *)
(* event the projection ignores.                                           *)
LoopApply ==
  /\ Up /\ loop = "idle"
  /\ busq # <<>> /\ Head(busq) # CloseMark
  /\ LET e == Head(busq)
         v == Apply(view, e)
     IN /\ view' = v
        /\ \/ /\ e.type = "queued" /\ e.sess \in index /\ CanDispatch(e.sess)
              /\ MaybeDispatchInLoop(v)
           \/ /\ e.type = "queued" /\ e.sess \in index /\ ~CanDispatch(e.sess)
              /\ announced' = announced \cup {e.task}
              /\ UNCHANGED <<loop, slot, drain>>
           \/ /\ ~(e.type = "queued" /\ e.sess \in index)
              /\ UNCHANGED <<loop, claimVars>>
  /\ busq' = Tail(busq)
  /\ UNCHANGED <<logVars, mode, index, subscribed, adhoc, destroying,
                 envVars, promised>>

(* The sentinel ends the iterator and with it the loop, for good.          *)
LoopClosed ==
  /\ Up /\ loop = "idle"
  /\ busq # <<>> /\ Head(busq) = CloseMark
  /\ busq' = Tail(busq)
  /\ loop' = "closed"
  /\ UNCHANGED <<logVars, mode, index, view, subscribed, claimVars, adhoc,
                 destroying, envVars, promised>>

(* The periodic evaluation.                                                *)
Tick ==
  /\ Up
  /\ slot.phase = "free"
  /\ Claim("tick", view)
  /\ UNCHANGED <<logVars, mode, index, view, busVars, loop, adhoc, destroying,
                 envVars, promised>>

(* The git baseline is known: task.dispatched, and the run is created.  A  *)
(* claim made by a finished run is not cancelled by stop().                *)
Dispatch ==
  /\ destroying = NotDestroying
  /\ mode = "up" \/ (mode = "stopping" /\ slot.by = "run")
  /\ slot.phase = "claiming"
  /\ Emit(Event("dispatched", slot.sess, slot.task))
  /\ slot' = [slot EXCEPT !.phase = "running"]
  /\ loop' = IF slot.by = "loop" THEN "idle" ELSE loop
  /\ UNCHANGED <<owner, override, default, priority, deleted, mode, index, view,
                 drain, announced, adhoc, destroying, envVars, promised>>

-----------------------------------------------------------------------------
(* The run of the task in flight (_run_task).                              *)

unchangedByRun == <<owner, override, default, priority, deleted, mode, index,
                    view, loop, adhoc, destroying, envVars, promised>>

(* The run is a task created after task.dispatched was published: the loop *)
(* is woken first, so it has applied that event before the launcher, a     *)
(* subprocess, can end.                                                    *)
DispatchApplied ==
  \/ loop \notin {"idle", "starting"}
  \/ \A i \in 1 .. Len(busq) :
       busq[i] # Event("dispatched", slot.sess, slot.task)

Running(phase) == Up /\ slot.phase = phase /\ DispatchApplied

(* The finally block: free the slot, and claim for the next task at once.  *)
Finish(type) ==
  /\ Emit(Event(type, slot.sess, slot.task))
  /\ Claim("run", view)

(* The launcher returned: task.completed, then the git state is read.      *)
RunCompletes ==
  /\ Running("running")
  /\ Emit(Event("completed", slot.sess, slot.task))
  /\ slot' = [slot EXCEPT !.phase = "inspecting"]
  /\ UNCHANGED <<unchangedByRun, drain, announced>>

(* Wrong variant of RunInspected: a failing git inspection fails the task. *)
RunInspectedRaises ==
  /\ Running("inspecting")
  /\ Finish("failed")
  /\ UNCHANGED unchangedByRun

(* Wrong variant of RunInspected: the slot is not freed.                   *)
RunInspectedKeepsSlot ==
  /\ Running("inspecting")
  /\ UNCHANGED vars

(* The git result is known (its event is not one the projection applies).  *)
RunInspected ==
  /\ Running("inspecting")
  /\ Claim("run", view)
  /\ UNCHANGED <<unchangedByRun, logged, status, busVars>>

RunFails ==
  /\ Running("running")
  /\ Finish("failed")
  /\ UNCHANGED unchangedByRun

(* RateLimitError: defer out of a closed window, give up at the ceiling,   *)
(* else back off while the slot stays taken.  A limit may announce a reset *)
(* hours away, so the ceiling can be met on any attempt.                   *)
RunRateLimited ==
  /\ "ratelimit" \in Ops
  /\ Running("running")
  /\ \/ /\ WindowClosed(slot.sess)
        /\ Finish("deferred")
     \/ /\ ~WindowClosed(slot.sess)
        /\ Finish("failed")
     \/ /\ ~WindowClosed(slot.sess)
        /\ slot.attempt < MaxAttempts
        /\ Emit(Event("retrying", slot.sess, slot.task))
        /\ slot' = [slot EXCEPT !.phase = "backoff", !.attempt = @ + 1]
        /\ UNCHANGED <<drain, announced>>
  /\ UNCHANGED unchangedByRun

(* The backoff is over: relaunch, unless the window closed meanwhile.      *)
BackoffEnds ==
  /\ Running("backoff")
  /\ \/ /\ WindowClosed(slot.sess)
        /\ Finish("deferred")
     \/ /\ ~WindowClosed(slot.sess)
        /\ slot' = [slot EXCEPT !.phase = "running"]
        /\ UNCHANGED <<drain, announced, logged, status, busVars>>
  /\ UNCHANGED unchangedByRun

(* The launcher emits one line of agent output; lines that are already in  *)
(* the pipe buffer are emitted without a suspension between them.          *)
AgentOutput ==
  /\ "output" \in Ops
  /\ Up /\ slot.phase = "running"
  /\ subscribed
  /\ Publish(OutputMark)
  /\ UNCHANGED <<unchangedByRun, logged, status, claimVars>>

RunStep == RunCompletes \/ RunInspected \/ RunFails \/ RunRateLimited \/ BackoffEnds

-----------------------------------------------------------------------------
(* Client requests.  A handler runs to completion; only DELETE is split    *)
(* between its emits, because the process may die there.                   *)

unchangedByClient == <<mode, index, view, loop, destroying, envVars>>

Enqueue(s) ==
  /\ Up /\ s \in index
  /\ Len(busq) < Backlog
  /\ \E t \in Tasks :
       /\ status[t] = "absent"
       /\ \A u \in Tasks : u < t => status[u] # "absent"
       /\ owner' = [owner EXCEPT ![t] = s]
       /\ Emit(Event("queued", s, t))
  /\ UNCHANGED <<unchangedByClient, override, default, priority, deleted,
                 claimVars, adhoc, promised>>

(* 404 unless the projection has it waiting; 409 when it has it running.   *)
Cancel(s, t) ==
  /\ "cancel" \in Ops
  /\ Up /\ s \in index
  /\ Len(busq) < Backlog
  /\ view.running[s] # t
  /\ t \in Waiting(view, s)
  /\ Emit(Event("cancelled", s, t))
  /\ UNCHANGED <<unchangedByClient, owner, override, default, priority, deleted,
                 claimVars, adhoc, promised>>

(* Wrong variant of Trigger: the drain misses the last waiting task.       *)
TriggerOneShort(s) ==
  /\ "trigger" \in Ops
  /\ Up /\ s \in index
  /\ EffectivePolicy(s) = "manual"
  /\ drain' = [drain EXCEPT ![s] = IF view.queued[s] = <<>> THEN 0 ELSE Len(view.queued[s]) - 1]
  /\ promised' = {t \in promised : owner[t] # s} \cup Waiting(view, s)
  /\ UNCHANGED <<unchangedByClient, logVars, busVars, slot, announced, adhoc>>

(* POST /trigger sets the drain counter to the tasks waiting now.          *)
Trigger(s) ==
  /\ "trigger" \in Ops
  /\ Up /\ s \in index
  /\ EffectivePolicy(s) = "manual"
  /\ drain' = [drain EXCEPT ![s] = Len(view.queued[s])]
  /\ promised' = {t \in promised : owner[t] # s} \cup Waiting(view, s)
  /\ UNCHANGED <<unchangedByClient, logVars, busVars, slot, announced, adhoc>>

(* PATCH of a session's policy: it withdraws a pending drain.              *)
SetPolicy(s, p) ==
  /\ p \in Settable
  /\ Up /\ s \in index
  /\ override' = [override EXCEPT ![s] = p]
  /\ drain' = [drain EXCEPT ![s] = 0]
  /\ promised' = {t \in promised : owner[t] # s}
  /\ UNCHANGED <<unchangedByClient, logged, status, owner, default, priority,
                 deleted, busVars, slot, announced, adhoc>>

(* DELETE of a session's policy: the session inherits the default again.   *)
ClearPolicy(s) == SetPolicy(s, Inherit)

SetDefaultPolicy(p) ==
  /\ p \in Settable
  /\ Up
  /\ default' = p
  /\ UNCHANGED <<unchangedByClient, logged, status, owner, override, priority,
                 deleted, busVars, claimVars, adhoc, promised>>

SetPriority(s, p) ==
  /\ "priority" \in Ops
  /\ Up /\ s \in index
  /\ priority' = [priority EXCEPT ![s] = p]
  /\ UNCHANGED <<unchangedByClient, logged, status, owner, override, default,
                 deleted, busVars, claimVars, adhoc, promised>>

(* POST /messages: 409 while the projection shows a task in flight.        *)
SendMessage(s) ==
  /\ "message" \in Ops
  /\ Up /\ s \in index
  /\ view.running[s] = NoTask
  /\ adhoc' = adhoc \cup {s}
  /\ UNCHANGED <<unchangedByClient, logVars, busVars, claimVars, promised>>

MessageEnds(s) ==
  /\ Up /\ s \in adhoc
  /\ adhoc' = adhoc \ {s}
  /\ UNCHANGED <<unchangedByClient, logVars, busVars, claimVars, promised>>

(* GET /sessions/{id} puts a session known only to the log in the index.   *)
FetchSession(s) ==
  /\ "fetch" \in Ops
  /\ Up /\ s \notin index
  /\ index' = index \cup {s}
  /\ UNCHANGED <<logVars, mode, view, busVars, loop, claimVars, adhoc,
                 destroying, envVars, promised>>

(* DELETE cancels what the projection has waiting, destroys the workspace  *)
(* and marks the session deleted; the session stays in the index.          *)
DeleteBegins(s) ==
  /\ "delete" \in Ops
  /\ Up /\ s \in index
  /\ Len(busq) < Backlog
  /\ destroying' = [sess |-> s, todo |-> view.queued[s]]
  /\ UNCHANGED <<logVars, mode, index, view, busVars, loop, claimVars, adhoc,
                 envVars, promised>>

DeleteCancels ==
  /\ destroying.todo # <<>>
  /\ Emit(Event("cancelled", destroying.sess, Head(destroying.todo)))
  /\ destroying' = [destroying EXCEPT !.todo = Tail(@)]
  /\ UNCHANGED <<owner, override, default, priority, deleted, mode, index, view,
                 loop, claimVars, adhoc, envVars, promised>>

(* Wrong variant of DeleteEnds: the session leaves the live index although *)
(* its task may be in flight.                                              *)
DeleteEndsForgets ==
  /\ destroying # NotDestroying /\ destroying.todo = <<>>
  /\ deleted' = deleted \cup {destroying.sess}
  /\ index' = index \ {destroying.sess}
  /\ destroying' = NotDestroying
  /\ UNCHANGED <<logged, status, owner, override, default, priority, mode,
                 view, busVars, loop, claimVars, adhoc, envVars, promised>>

DeleteEnds ==
  /\ destroying # NotDestroying /\ destroying.todo = <<>>
  /\ deleted' = deleted \cup {destroying.sess}
  /\ destroying' = NotDestroying
  /\ UNCHANGED <<logged, status, owner, override, default, priority, mode, index,
                 view, busVars, loop, claimVars, adhoc, envVars, promised>>

-----------------------------------------------------------------------------
(* Shutdown, crash, restart, time.                                         *)

(* stop() cancels the run, the loop and the tick.  The cancelled run frees *)
(* the slot; a claim by the loop or the tick dies where it is; a claim by  *)
(* the finally block of a finished run is in a task stop() does not know.  *)
Stop ==
  /\ "stop" \in Ops
  /\ Up
  /\ mode' = "stopping"
  /\ loop' = "closed"
  /\ subscribed' = FALSE
  /\ busq' = <<>>
  /\ slot' = IF slot.phase \in {"running", "backoff", "inspecting"} THEN FreeSlot
             ELSE IF slot.phase = "claiming" /\ slot.by # "run"
                  THEN [slot EXCEPT !.phase = "abandoned"]
                  ELSE slot
  /\ UNCHANGED <<logVars, index, view, drain, announced, adhoc, destroying,
                 envVars, promised>>

(* The process dies, at any point, or exits after stop(): only the log     *)
(* survives.                                                               *)
Crash ==
  /\ \/ mode = "up" /\ crashes < MaxCrashes /\ crashes' = crashes + 1
     \/ mode = "stopping" /\ UNCHANGED crashes
  /\ mode' = "down"
  /\ index' = {} /\ view' = EmptyView
  /\ busq' = <<>> /\ subscribed' = FALSE /\ loop' = "closed"
  /\ slot' = FreeSlot /\ drain' = [s \in Sessions |-> 0] /\ announced' = {}
  /\ adhoc' = {} /\ destroying' = NotDestroying /\ promised' = {}
  /\ UNCHANGED <<logVars, open>>

(* Orphan recovery: task.failed for the task each indexed session has in   *)
(* flight, applied to the projection at once.                              *)
Recovered(v, orphaned) ==
  [v EXCEPT !.running  = [s \in Sessions |-> IF s \in orphaned THEN NoTask ELSE v.running[s]],
            !.retrying = [s \in Sessions |-> IF s \in orphaned THEN FALSE ELSE v.retrying[s]]]

(* Wrong variant of Restart: no orphan recovery.                           *)
RestartWithoutRecovery ==
  /\ mode = "down"
  /\ index' = Pending(logged)
  /\ view' = logged
  /\ mode' = "up" /\ loop' = "starting"
  /\ subscribed' = TRUE /\ busq' = <<>>
  /\ UNCHANGED <<logVars, claimVars, adhoc, destroying, envVars, promised>>

(* The lifespan start-up, which does not suspend: replay the log, index    *)
(* the sessions with pending work, fail the orphans, subscribe, start.     *)
Restart ==
  /\ mode = "down"
  /\ LET indexed  == Pending(logged)
         orphaned == {s \in indexed : logged.running[s] # NoTask}
     IN /\ index' = indexed
        /\ logged' = Recovered(logged, orphaned)
        /\ view' = Recovered(logged, orphaned)
        /\ status' = [t \in Tasks |-> IF \E s \in orphaned : logged.running[s] = t
                                      THEN "failed" ELSE status[t]]
  /\ mode' = "up" /\ loop' = "starting"
  /\ subscribed' = TRUE /\ busq' = <<>>
  /\ UNCHANGED <<owner, override, default, priority, deleted, claimVars, adhoc,
                 destroying, envVars, promised>>

(* Time passes between two iterations of the event loop, when whatever was *)
(* ready has run.                                                          *)
Toggle ==
  /\ Up
  /\ busq = <<>> \/ loop \in {"claiming", "closed"}
  /\ "window" \in {EffectivePolicy(s) : s \in Sessions}
  /\ open' = ~open
  /\ UNCHANGED <<logVars, mode, index, view, busVars, loop, claimVars, adhoc,
                 destroying, crashes, promised>>

-----------------------------------------------------------------------------
Init ==
  /\ logged = EmptyView
  /\ status = [t \in Tasks |-> "absent"]
  /\ owner = [t \in Tasks |-> "none"]
  /\ override \in [Sessions -> StartPolicies]
  /\ default = "immediate"
  /\ priority = [s \in Sessions |-> 1]
  /\ deleted = {}
  /\ mode = "up"
  /\ index = Sessions
  /\ view = EmptyView
  /\ busq = <<>> /\ subscribed = TRUE /\ loop = "starting"
  /\ slot = FreeSlot
  /\ drain = [s \in Sessions |-> 0]
  /\ announced = {}
  /\ adhoc = {}
  /\ destroying = NotDestroying
  /\ open \in BOOLEAN
  /\ crashes = 0
  /\ promised = {}

LoopStep == LoopStart \/ LoopApply \/ LoopClosed

ClientStep ==
  \/ \E s \in Sessions :
       \/ Enqueue(s)
       \/ \E t \in Tasks : Cancel(s, t)
       \/ Trigger(s)
       \/ \E p \in Policies : SetPolicy(s, p)
       \/ ClearPolicy(s)
       \/ \E p \in 1 .. MaxPriority : SetPriority(s, p)
       \/ SendMessage(s)
       \/ MessageEnds(s)
       \/ FetchSession(s)
       \/ DeleteBegins(s)
  \/ \E p \in Policies : SetDefaultPolicy(p)

Next ==
  \/ LoopStep
  \/ Tick
  \/ Dispatch
  \/ RunStep
  \/ AgentOutput
  \/ ClientStep
  \/ DeleteCancels
  \/ DeleteEnds
  \/ Stop
  \/ Crash
  \/ Restart
  \/ Toggle

Spec == Init /\ [][Next]_vars

(* asyncio resumes what can be resumed, the launcher's wall-clock timeout  *)
(* ends every run, backoffs and git calls are bounded, the tick recurs and *)
(* a supervisor restarts the process.  Clients and crashes owe nothing.    *)
Fairness ==
  /\ WF_vars(LoopStep)
  /\ WF_vars(Tick)
  /\ WF_vars(Dispatch)
  /\ WF_vars(RunStep)
  /\ WF_vars(Restart)

FairSpec == Spec /\ Fairness

-----------------------------------------------------------------------------
(* Every variable holds a value of its kind.                               *)
TypeOK ==
  /\ logged \in View /\ view \in View
  /\ status \in [Tasks -> Statuses]
  /\ owner \in [Tasks -> Sessions \cup {"none"}]
  /\ override \in [Sessions -> Policies \cup {Inherit}]
  /\ default \in Policies
  /\ priority \in [Sessions -> 1 .. MaxPriority]
  /\ deleted \subseteq Sessions
  /\ mode \in {"up", "stopping", "down"}
  /\ index \subseteq Sessions
  /\ busq \in Seq(TaskEvent \cup {CloseMark, OutputMark})
  /\ subscribed \in BOOLEAN
  /\ loop \in {"starting", "idle", "claiming", "closed"}
  /\ slot \in Slots
  /\ drain \in [Sessions -> Nat]
  /\ announced \subseteq Tasks
  /\ adhoc \subseteq Sessions
  /\ destroying \in {NotDestroying} \cup [sess : Sessions, todo : Seq(Tasks)]
  /\ open \in BOOLEAN
  /\ crashes \in 0 .. MaxCrashes
  /\ promised \subseteq Tasks

-----------------------------------------------------------------------------
(* The log never shows two tasks in flight, whichever coroutine claimed    *)
(* them and wherever the process died in between (ADR-0009, decision 4).   *)
LogHasOneInFlight ==
  \A s, r \in Sessions :
    logged.running[s] # NoTask /\ logged.running[r] # NoTask => s = r

(* While a claim still reads its git baseline, the log has nothing in      *)
(* flight, even when the claim outlives stop().                            *)
NoRunBeforeDispatch ==
  slot.phase = "claiming" => \A s \in Sessions : logged.running[s] = NoTask

(* Once the loop has drained its subscription, the projection says what a  *)
(* replay of the log would say, orphan recovery included.                  *)
ProjectionConverges ==
  mode = "up" /\ subscribed /\ busq = <<>> => view = logged

(* Where v has t waiting: sessions and places in their queues.             *)
Places(v, t) ==
  UNION {{s} \X {i \in DOMAIN v.queued[s] : v.queued[s][i] = t} : s \in Sessions}

(* A replay resumes exactly the tasks the log leaves waiting or running:   *)
(* none is lost or doubled by a defer, a crash or a recovery, and none     *)
(* comes back.                                                             *)
LogAccountsForTasks ==
  \A t \in Tasks :
    /\ Cardinality(Places(logged, t)) = (IF status[t] = "queued" THEN 1 ELSE 0)
    /\ status[t] = "dispatched" <=> \E s \in Sessions : logged.running[s] = t

(* A task the log has in flight is the one whose run is alive: a restart   *)
(* leaves no orphan open (ADR-0009, decision 5), and no other coroutine    *)
(* claims a task while one runs.                                           *)
NoOrphanWhileUp ==
  mode = "up" =>
    \A s \in Sessions : logged.running[s] # NoTask =>
      /\ slot.phase \in {"running", "backoff"}
      /\ slot.sess = s /\ slot.task = logged.running[s]

(* A task that has left the log's queue and is not in flight never returns *)
(* to it, even when a cancelled task was dispatched and deferred after all.*)
GoneStaysGone ==
  [][\A s \in Sessions : \A t \in Waiting(logged', s) :
       status[t] = "absent" \/ t \in Waiting(logged, s) \cup {logged.running[s]}]_vars

Dispatches(t) == status[t] # "dispatched" /\ status'[t] = "dispatched"

(* Tasks of one session are dispatched in the order they were queued; a    *)
(* deferred task keeps its place.                                          *)
SessionIsFifo ==
  [][\A t \in Tasks : Dispatches(t) =>
       \A u \in Tasks : u < t /\ owner[u] = owner[t] => status[u] # "queued"]_vars

(* Unless the subscription was dropped, a task that completed or failed is *)
(* never dispatched again, and a cancelled one only if it was being        *)
(* claimed when it was cancelled.                                          *)
EndedIsNotRerun ==
  [][\A t \in Tasks : Dispatches(t) /\ subscribed =>
       status[t] = "queued" \/ (status[t] = "cancelled" /\ slot.task = t)]_vars

(* The dispatcher implements the task lifecycle.                           *)
Lifecycle == INSTANCE TaskLifecycle WITH Tasks <- Tasks, status <- status
ImplementsLifecycle == Lifecycle!Spec

(* A run of a queued task and a /messages run never share a session        *)
(* (ADR-0009, decision 6).                                                 *)
OneAgentPerSession ==
  ~(slot.phase = "running" /\ slot.sess \in adhoc)

(* Every queued task of a session that stays immediate is eventually       *)
(* dispatched or ends.                                                     *)
QueuedTasksLeave ==
  \A t \in Tasks :
    status[t] = "queued" /\ EffectivePolicy(owner[t]) = "immediate"
      ~> status[t] # "queued" \/ EffectivePolicy(owner[t]) # "immediate"

(* Every task a trigger counted is eventually dispatched, unless the drain *)
(* is lost with the process.                                               *)
TriggeredTasksLeave ==
  \A t \in Tasks :
    t \in promised /\ status[t] = "queued" ~> t \notin promised \/ status[t] # "queued"

(* Every dispatched task eventually ends or returns to the queue.          *)
DispatchedTasksEnd ==
  \A t \in Tasks : status[t] = "dispatched" ~> status[t] # "dispatched"
=============================================================================
