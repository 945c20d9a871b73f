-------------------------- MODULE TaskProjection --------------------------
(***************************************************************************)
(* The queue state Mad folds out of the task.* events of its log           *)
(* (adapters/outbound/orchestration/projection.py): per session the FIFO   *)
(* of waiting tasks, the task in flight and whether it is waiting for a    *)
(* retry.  The same fold runs at start-up over the whole log and, event by *)
(* event, in the dispatcher's loop.                                        *)
(*                                                                         *)
(* A task is a number: the order of the numbers is the order of the        *)
(* task.queued timestamps (Task.created_at).                               *)
(***************************************************************************)
EXTENDS Naturals, SequencesExt

CONSTANTS Sessions,  \* ids of the sessions that can own tasks
          MaxTasks   \* how many tasks a behaviour creates

ASSUME ProjectionAssumption == MaxTasks \in Nat

NoTask == 0
Tasks == 1 .. MaxTasks

TerminalTypes == {"completed", "failed", "cancelled"}

EventTypes == TerminalTypes \cup {"queued", "dispatched", "retrying", "deferred"}

(* Every event the projection looks at, without its payload. *)
TaskEvent == [type : EventTypes, sess : Sessions, task : Tasks]

View == [queued   : [Sessions -> Seq(Tasks)],
         running  : [Sessions -> Tasks \cup {NoTask}],
         retrying : [Sessions -> BOOLEAN]]

EmptyView == [queued   |-> [s \in Sessions |-> <<>>],
              running  |-> [s \in Sessions |-> NoTask],
              retrying |-> [s \in Sessions |-> FALSE]]

Waiting(view, s) == {view.queued[s][i] : i \in 1 .. Len(view.queued[s])}

(* Removes the one occurrence of t, if there is one: queue.pop(index) of   *)
(* _on_dispatched, and the filter of _on_terminal, which removes every     *)
(* match; the invariant LogAccountsForTasks makes the two the same.        *)
Without(queue, t) ==
  IF \E i \in 1 .. Len(queue) : queue[i] = t
  THEN RemoveAt(queue, CHOOSE i \in 1 .. Len(queue) : queue[i] = t)
  ELSE queue

OnQueued(view, e) ==
  [view EXCEPT !.queued[e.sess] = Append(@, e.task)]

(* Wrong variant of OnDispatched: the task stays in the queue.             *)
OnDispatchedKeeps(view, e) ==
  IF e.task \in Waiting(view, e.sess)
  THEN [view EXCEPT !.running[e.sess]  = e.task,
                    !.retrying[e.sess] = FALSE]
  ELSE view

(* A dispatch of a task that is not waiting is ignored.                    *)
OnDispatched(view, e) ==
  IF e.task \in Waiting(view, e.sess)
  THEN [view EXCEPT !.queued[e.sess]   = Without(@, e.task),
                    !.running[e.sess]  = e.task,
                    !.retrying[e.sess] = FALSE]
  ELSE view

OnRetrying(view, e) ==
  [view EXCEPT !.retrying[e.sess] = TRUE]

(* Wrong variants of OnDeferred: the task goes to the tail; it is dropped; *)
(* the event is applied to a task that is not in flight.                   *)
OnDeferredToTail(view, e) ==
  IF view.running[e.sess] = e.task
  THEN [view EXCEPT !.queued[e.sess]   = Append(@, e.task),
                    !.running[e.sess]  = NoTask,
                    !.retrying[e.sess] = FALSE]
  ELSE view

OnDeferredDrops(view, e) ==
  IF view.running[e.sess] = e.task
  THEN [view EXCEPT !.running[e.sess]  = NoTask,
                    !.retrying[e.sess] = FALSE]
  ELSE view

OnDeferredAlways(view, e) ==
  [view EXCEPT !.queued[e.sess]   = <<e.task>> \o @,
               !.running[e.sess]  = NoTask,
               !.retrying[e.sess] = FALSE]

(* A deferred task goes back to the head of its queue.                     *)
OnDeferred(view, e) ==
  IF view.running[e.sess] = e.task
  THEN [view EXCEPT !.queued[e.sess]   = <<e.task>> \o @,
                    !.running[e.sess]  = NoTask,
                    !.retrying[e.sess] = FALSE]
  ELSE view

OnTerminal(view, e) ==
  IF view.running[e.sess] = e.task
  THEN [view EXCEPT !.running[e.sess]  = NoTask,
                    !.retrying[e.sess] = FALSE]
  ELSE [view EXCEPT !.queued[e.sess] = Without(@, e.task)]

Apply(view, e) ==
  CASE e.type = "queued"          -> OnQueued(view, e)
    [] e.type = "dispatched"      -> OnDispatched(view, e)
    [] e.type = "retrying"        -> OnRetrying(view, e)
    [] e.type = "deferred"        -> OnDeferred(view, e)
    [] e.type \in TerminalTypes   -> OnTerminal(view, e)
    [] OTHER                      -> view

(* Sessions with a waiting task or a task in flight.                       *)
Pending(view) ==
  {s \in Sessions : view.queued[s] # <<>> \/ view.running[s] # NoTask}
=============================================================================
