------------------------------ MODULE MCTaskRun ------------------------------
(***************************************************************************)
(* Model checking of TaskRun: days of four minutes, a minute of two ticks, *)
(* clocks that go forward on the second day and back on the fourth.        *)
(***************************************************************************)
EXTENDS TaskRun

Window(start, end, days) == [start |-> start, end |-> end, days |-> days]

MCJitters == {-1, 0}
MCDaySets == {Weekdays, {2}}
MCSummer == 6 .. 25
(* Any time; a daily window; one that wraps, on one weekday; one that the  *)
(* clocks skip in the first week; two together.                            *)
MCPolicies ==
  {<<>>, <<Window(1, 2, Weekdays)>>, <<Window(3, 1, {2})>>, <<Window(1, 2, {2})>>,
   <<Window(2, 3, {2}), Window(0, 1, Weekdays)>>}
MCAsked ==
  {[task |-> None, session |-> None, resumes |-> FALSE],
   [task |-> "of task", session |-> "of session", resumes |-> TRUE]}
=============================================================================
