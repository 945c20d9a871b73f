----------------------------- MODULE QueueView -----------------------------
(***************************************************************************)
(* GET /v1/queue (core/orchestration/use_cases/get_global_queue.py): what  *)
(* the dispatcher's projection and the live index look like to an operator.*)
(* The task in flight, the waiting tasks that may run now in the order in  *)
(* which they will, and the gated ones with the reason.                    *)
(***************************************************************************)
EXTENDS Dispatcher

InFlight(v) == {v.running[s] : s \in Sessions} \ {NoTask}

(* execute raises for a pending session that is not in the live index, and *)
(* for two tasks in flight.                                                *)
Renders(v) == Pending(v) \subseteq index /\ Cardinality(InFlight(v)) <= 1

(* order_ready_candidates: the best session yields its head, and competes  *)
(* again with its next task.                                               *)
DispatchOrder(v) ==
  LET order[u \in View] ==
        LET left == Candidates(u)
            best == CHOOSE s \in left : \A r \in left : ~Before(u, r, s)
        IN IF left = {} THEN <<>>
           ELSE <<Head(u.queued[best])>> \o order[[u EXCEPT !.queued[best] = Tail(@)]]
  IN order[v]

(* Waiting tasks of sessions that cannot dispatch, with the session.       *)
Gated(v) ==
  UNION {{[sess |-> s, task |-> t] : t \in Waiting(v, s)} :
           s \in {r \in Pending(v) : ~CanDispatch(r)}}

Reason(e) == IF EffectivePolicy(e.sess) = "window" THEN "window" ELSE "manual"

(* The sort key of _scheduled: the next opening first (the windows of all  *)
(* sessions open together here), never-opening last, then priority, then   *)
(* arrival.                                                                *)
ScheduledBefore(e, f) ==
  \/ Reason(e) = "window" /\ Reason(f) = "manual"
  \/ Reason(e) = Reason(f) /\
       (\/ priority[e.sess] > priority[f.sess]
        \/ priority[e.sess] = priority[f.sess] /\ e.task < f.task)

Scheduled(v) ==
  CHOOSE entries \in [1 .. Cardinality(Gated(v)) -> Gated(v)] :
    \A i, j \in DOMAIN entries : i < j => ScheduledBefore(entries[i], entries[j])

-----------------------------------------------------------------------------
Occurrences(t, sequence) == Cardinality({i \in DOMAIN sequence : sequence[i] = t})

(* GET /v1/queue never fails, however sessions are deleted, fetched and    *)
(* replayed, and shows every task the projection has exactly once: in      *)
(* flight, ready or scheduled.                                             *)
GlobalQueueRenders ==
  mode = "up" =>
    /\ Renders(view)
    /\ LET ready == DispatchOrder(view)
           scheduled == Scheduled(view)
           tasks == [i \in DOMAIN scheduled |-> scheduled[i].task]
           shown == SetToSeq(InFlight(view)) \o ready \o tasks
       IN \A t \in Tasks :
            Occurrences(t, shown) =
              IF \E s \in Sessions : t \in Waiting(view, s) \cup {view.running[s]} THEN 1 ELSE 0

Outranks(t, u) ==
  \/ priority[owner[t]] > priority[owner[u]]
  \/ priority[owner[t]] = priority[owner[u]] /\ t < u

(* The claim goes to the task GET /v1/queue lists first, computed from the *)
(* log, whenever the projection is not behind; and the whole list, merged  *)
(* from the sessions' queues, is in the order of priority and arrival, even*)
(* when deferred tasks went back to the head of their queues.              *)
ClaimsInOrder ==
  [][slot'.phase = "claiming" /\ slot.phase # "claiming"
       /\ (busq = <<>> \/ busq' = <<>>)
     => LET ready == DispatchOrder(logged)
        IN /\ ready # <<>>
           /\ ready[1] = slot'.task
           /\ \A i, j \in DOMAIN ready : i < j => Outranks(ready[i], ready[j])]_vars
=============================================================================
