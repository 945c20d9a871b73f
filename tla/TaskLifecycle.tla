--------------------------- MODULE TaskLifecycle ---------------------------
(***************************************************************************)
(* What Mad promises about its queue, with no process, no bus and no       *)
(* projection: tasks are queued, one at a time is dispatched, a dispatched *)
(* task ends once or goes back to the queue, and an ended task never comes *)
(* back.                                                                   *)
(***************************************************************************)
EXTENDS Naturals

CONSTANT Tasks

VARIABLE status   \* task -> its last lifecycle event

Dispatched == {t \in Tasks : status[t] = "dispatched"}

Init == status = [t \in Tasks |-> "absent"]

Move(t, from, to) ==
  /\ status[t] = from
  /\ status' = [status EXCEPT ![t] = to]

Queue(t) == Move(t, "absent", "queued")

Dispatch(t) == Dispatched = {} /\ Move(t, "queued", "dispatched")

Defer(t) == Move(t, "dispatched", "queued")

End(t) == \E result \in {"completed", "failed"} : Move(t, "dispatched", result)

Cancel(t) == Move(t, "queued", "cancelled")

Next == \E t \in Tasks : Queue(t) \/ Dispatch(t) \/ Defer(t) \/ End(t) \/ Cancel(t)

Spec == Init /\ [][Next]_status
=============================================================================
