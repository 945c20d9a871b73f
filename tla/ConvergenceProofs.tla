-------------------------- MODULE ConvergenceProofs --------------------------
(***************************************************************************)
(* The dispatcher's projection and its log, for any sessions, tasks,       *)
(* buffer capacity and client operations: while the subscription lasts,    *)
(* the projection needs only the buffered events to say what a replay of   *)
(* the whole log says, the log's queue takes no task back, and what has    *)
(* ended is not run again.  While nothing is cancelled either, the log     *)
(* accounts for every task, the dispatcher implements the lifecycle of     *)
(* TaskLifecycle, and, policies being left alone, each session's tasks     *)
(* run in the order in which they were given and claims follow the queue   *)
(* that GET /v1/queue shows.  What clients are told of tasks and queues is *)
(* at most an event of theirs behind the log.                              *)
(***************************************************************************)
EXTENDS DispatcherProofs, TaskApi, FiniteSetTheorems, WellFoundedInduction

(* The events of q, applied to v one after the other, give w, and all the  *)
(* projections on the way are in G.                                        *)
ReplaysIn(G, v, q, w) ==
  \E h \in [Nat -> G] :
    /\ h[1] = v /\ h[Len(q) + 1] = w
    /\ \A i \in 1 .. Len(q) : h[i + 1] = Apply(h[i], q[i])

Replays(v, q, w) == ReplaysIn(View, v, q, w)

ConvergenceInv == mode = "up" /\ subscribed => Replays(view, busq, logged)

-----------------------------------------------------------------------------
(* Replays.                                                                *)

LEMMA ApplyBus ==
  ASSUME NEW v \in View, NEW e \in BusEvents
  PROVE  Apply(v, e) \in View /\ (e \in {CloseMark, OutputMark} => Apply(v, e) = v)
<1>1. CASE e \in TaskEvent
  <2>1. e \notin {CloseMark, OutputMark}
    BY <1>1 DEF TaskEvent, EventTypes, TerminalTypes, CloseMark, OutputMark
  <2> QED  BY <1>1, <2>1, ApplyType
<1>2. CASE e \in {CloseMark, OutputMark}
  BY <1>2 DEF Apply, CloseMark, OutputMark, TerminalTypes
<1> QED  BY <1>1, <1>2 DEF BusEvents

LEMMA ReplaysNothing ==
  ASSUME NEW G, NEW v \in G
  PROVE  ReplaysIn(G, v, <<>>, v)
<1> DEFINE h == [i \in Nat |-> v]
<1>1. h \in [Nat -> G] /\ h[1] = v /\ Len(<<>>) + 1 = 1
  OBVIOUS
<1>2. 1 .. Len(<<>>) = {}
  OBVIOUS
<1> HIDE DEF h
<1> QED  BY <1>1, <1>2 DEF ReplaysIn

LEMMA NothingReplayed == \A v, w : Replays(v, <<>>, w) => v = w
  BY DEF Replays, ReplaysIn

LEMMA ReplaysOneMore ==
  ASSUME NEW G, NEW v, NEW w, NEW q \in Seq(BusEvents), NEW e \in BusEvents,
         ReplaysIn(G, v, q, w), Apply(w, e) \in G
  PROVE  ReplaysIn(G, v, Append(q, e), Apply(w, e))
<1> DEFINE n == Len(q)
<1>1. PICK h \in [Nat -> G] :
        /\ h[1] = v /\ h[n + 1] = w
        /\ \A i \in 1 .. n : h[i + 1] = Apply(h[i], q[i])
  BY DEF ReplaysIn
<1>2. /\ n \in Nat /\ Len(Append(q, e)) = n + 1 /\ Append(q, e)[n + 1] = e
      /\ \A i \in 1 .. n : Append(q, e)[i] = q[i]
  OBVIOUS
<1> DEFINE g == [h EXCEPT ![n + 2] = Apply(w, e)]
<1> HIDE DEF n
<1>4. n + 2 \in Nat
  BY <1>2
<1>5. g \in [Nat -> G]
  BY <1>1, <1>4
<1>6. \A i \in Nat : g[i] = IF i = n + 2 THEN Apply(w, e) ELSE h[i]
  BY <1>1, <1>4
<1> HIDE DEF g
<1>7. g[1] = v /\ g[n + 1 + 1] = Apply(w, e)
  BY <1>1, <1>2, <1>6
<1>8. \A i \in 1 .. n + 1 : g[i + 1] = Apply(g[i], Append(q, e)[i])
  <2> SUFFICES ASSUME NEW i \in 1 .. n + 1  PROVE g[i + 1] = Apply(g[i], Append(q, e)[i])
    OBVIOUS
  <2>1. CASE i = n + 1
    <3>1. g[i] = w /\ g[i + 1] = Apply(w, e)
      BY <1>1, <1>2, <1>6, <2>1
    <3> QED  BY <1>2, <2>1, <3>1
  <2>2. CASE i \in 1 .. n
    <3>1. g[i] = h[i] /\ g[i + 1] = h[i + 1]
      BY <1>2, <1>6, <2>2
    <3> QED  BY <1>1, <1>2, <2>2, <3>1
  <2> QED  BY <1>2, <2>1, <2>2
<1> QED  BY <1>2, <1>5, <1>7, <1>8 DEF ReplaysIn

LEMMA ReplaysOneLess ==
  ASSUME NEW G, NEW v, NEW w, NEW q \in Seq(BusEvents), q # <<>>, ReplaysIn(G, v, q, w)
  PROVE  ReplaysIn(G, Apply(v, Head(q)), Tail(q), w)
<1> DEFINE n == Len(q)
<1>1. PICK h \in [Nat -> G] :
        /\ h[1] = v /\ h[n + 1] = w
        /\ \A i \in 1 .. n : h[i + 1] = Apply(h[i], q[i])
  BY DEF ReplaysIn
<1>2. /\ n \in Nat \ {0} /\ Len(Tail(q)) = n - 1 /\ Head(q) = q[1]
      /\ \A i \in 1 .. n - 1 : Tail(q)[i] = q[i + 1]
  OBVIOUS
<1> HIDE DEF n
<1> DEFINE g == [i \in Nat |-> h[i + 1]]
<1>3. g \in [Nat -> G] /\ \A i \in Nat : g[i] = h[i + 1]
  BY <1>1
<1> HIDE DEF g
<1>4. g[1] = Apply(v, Head(q)) /\ g[n - 1 + 1] = w
  BY <1>1, <1>2, <1>3
<1>5. ASSUME NEW i \in 1 .. n - 1  PROVE g[i + 1] = Apply(g[i], Tail(q)[i])
  <2>1. i + 1 \in 1 .. n /\ i \in Nat /\ i + 1 \in Nat
    BY <1>2
  <2>2. g[i] = h[i + 1] /\ g[i + 1] = h[i + 1 + 1]
    BY <1>3, <2>1
  <2> QED  BY <1>1, <1>2, <2>1, <2>2
<1> QED  BY <1>2, <1>3, <1>4, <1>5 DEF ReplaysIn

-----------------------------------------------------------------------------
(* What a step does to the log.                                            *)

EmitsOne(e) ==
  /\ Emit(e) /\ UNCHANGED <<mode, view>>
  /\ e.type = "queued" => status[e.task] = "absent"

LEMMA RunLogs ==
  ASSUME TypeOK, Dispatch \/ RunStep
  PROVE  \/ UNCHANGED <<mode, view, logged, busq, subscribed>>
         \/ \E e \in TaskEvent : EmitsOne(e)
<1>1. slot.phase # "free" /\ UNCHANGED <<mode, view>>
  BY DEF Dispatch, RunStep, RunCompletes, RunInspected, RunFails, RunRateLimited, BackoffEnds,
         Running, unchangedByRun
<1>2. ASSUME NEW type \in EventTypes \ {"queued"}, Emit(Event(type, slot.sess, slot.task))
      PROVE  \E e \in TaskEvent : EmitsOne(e)
  <2> DEFINE e == Event(type, slot.sess, slot.task)
  <2>1. e \in TaskEvent /\ e.type # "queued"
    BY <1>1, RunEvent DEF TypeOK, Event
  <2> QED  BY <1>1, <1>2, <2>1 DEF EmitsOne
<1>3. /\ "dispatched" \in EventTypes \ {"queued"} /\ "completed" \in EventTypes \ {"queued"}
      /\ "failed" \in EventTypes \ {"queued"} /\ "deferred" \in EventTypes \ {"queued"}
      /\ "retrying" \in EventTypes \ {"queued"}
  BY DEF EventTypes, TerminalTypes
<1>4. CASE Dispatch
  BY <1>2, <1>3, <1>4 DEF Dispatch
<1>5. CASE RunCompletes
  BY <1>2, <1>3, <1>5 DEF RunCompletes
<1>6. CASE RunInspected
  BY <1>1, <1>6 DEF RunInspected, busVars
<1>7. CASE RunFails
  BY <1>2, <1>3, <1>7 DEF RunFails, Finish
<1>8. CASE RunRateLimited
  BY <1>2, <1>3, <1>8 DEF RunRateLimited, Finish
<1>9. CASE BackoffEnds
  BY <1>1, <1>2, <1>3, <1>9 DEF BackoffEnds, Finish, busVars
<1> QED  BY <1>4, <1>5, <1>6, <1>7, <1>8, <1>9 DEF RunStep

LEMMA ClientLogs ==
  ASSUME TypeOK, ClientStep \/ DeleteCancels \/ DeleteEnds
  PROVE  \/ UNCHANGED <<mode, view, logged, busq, subscribed>>
         \/ \E e \in TaskEvent : EmitsOne(e)
<1>1. UNCHANGED <<mode, view>>
  BY DEF ClientStep, Enqueue, Cancel, Trigger, SetPolicy, ClearPolicy, SetDefaultPolicy,
         SetPriority, SendMessage, MessageEnds, FetchSession, DeleteBegins, DeleteCancels,
         DeleteEnds, unchangedByClient
<1>2. ASSUME NEW s \in Sessions, NEW t \in Tasks, NEW type \in {"queued", "cancelled"},
             Emit(Event(type, s, t)), type = "queued" => status[t] = "absent"
      PROVE  \E e \in TaskEvent : EmitsOne(e)
  <2> DEFINE e == Event(type, s, t)
  <2>1. e \in TaskEvent /\ e.type = type /\ e.task = t
    BY DEF Event, TaskEvent, EventTypes, TerminalTypes
  <2> QED  BY <1>1, <1>2, <2>1 DEF EmitsOne
<1>3. ASSUME NEW s \in Sessions, Enqueue(s)  PROVE \E e \in TaskEvent : EmitsOne(e)
  BY <1>2, <1>3 DEF Enqueue
<1>4. ASSUME NEW s \in Sessions, NEW t \in Tasks, Cancel(s, t)
      PROVE  \E e \in TaskEvent : EmitsOne(e)
  BY <1>2, <1>4 DEF Cancel
<1>5. CASE DeleteCancels
  <2>1. /\ destroying \in [sess : Sessions, todo : Seq(Tasks)] /\ destroying.todo # <<>>
    BY <1>5 DEF DeleteCancels, TypeOK, NotDestroying
  <2>2. destroying.sess \in Sessions /\ Head(destroying.todo) \in Tasks
    BY <2>1
  <2> QED  BY <1>2, <1>5, <2>2 DEF DeleteCancels
<1>6. CASE DeleteEnds
  BY <1>1, <1>6 DEF DeleteEnds, busVars
<1>7. CASE ClientStep
  <2>1. ASSUME NEW s \in Sessions,
               Trigger(s) \/ (\E p \in Policies : SetPolicy(s, p)) \/ ClearPolicy(s)
                 \/ (\E p \in 1 .. MaxPriority : SetPriority(s, p)) \/ SendMessage(s)
                 \/ MessageEnds(s) \/ FetchSession(s) \/ DeleteBegins(s)
        PROVE  UNCHANGED <<logged, busq, subscribed>>
    BY <2>1 DEF Trigger, SetPolicy, ClearPolicy, SetPriority, SendMessage, MessageEnds,
                FetchSession, DeleteBegins, logVars, busVars
  <2>2. ASSUME NEW p \in Policies, SetDefaultPolicy(p)
        PROVE  UNCHANGED <<logged, busq, subscribed>>
    BY <2>2 DEF SetDefaultPolicy, busVars
  <2> QED  BY <1>1, <1>3, <1>4, <1>7, <2>1, <2>2 DEF ClientStep
<1> QED  BY <1>5, <1>6, <1>7

-----------------------------------------------------------------------------
(* The projection converges.                                               *)

LEMMA PublishConverges ==
  ASSUME TypeOK, ConvergenceInv, NEW e \in BusEvents, Publish(e), UNCHANGED <<mode, view>>,
         logged' = Apply(logged, e)
  PROVE  ConvergenceInv'
<1> SUFFICES ASSUME mode' = "up", subscribed'  PROVE Replays(view', busq', logged')
  BY DEF ConvergenceInv
<1>1. subscribed /\ busq' = Append(busq, e)
  BY DEF Publish, busVars
<1>2. Replays(view, busq, logged)
  BY <1>1 DEF ConvergenceInv
<1>3. logged \in View /\ busq \in Seq(BusEvents) /\ Apply(logged, e) \in View
  BY ApplyBus DEF TypeOK, BusEvents
<1> QED  BY <1>1, <1>2, <1>3, ReplaysOneMore DEF Replays

LEMMA ConvergenceInit == Init => ConvergenceInv
<1>1. EmptyView \in View
  BY DEF EmptyView, View, NoTask
<1> QED  BY <1>1, ReplaysNothing DEF Init, ConvergenceInv, Replays

LEMMA ConvergenceStep == TypeOK /\ ConvergenceInv /\ [Next]_vars => ConvergenceInv'
<1> SUFFICES ASSUME TypeOK, ConvergenceInv, [Next]_vars  PROVE ConvergenceInv'
  OBVIOUS
<1>0. view \in View /\ logged \in View /\ busq \in Seq(BusEvents)
  BY DEF TypeOK, BusEvents
<1>1. CASE UNCHANGED <<mode, view, logged, busq, subscribed>>
  BY <1>1 DEF ConvergenceInv
<1>2. ASSUME NEW e \in TaskEvent, EmitsOne(e)  PROVE ConvergenceInv'
  BY <1>2, PublishConverges DEF EmitsOne, Emit, BusEvents
<1>3. CASE AgentOutput
  <2>1. OutputMark \in BusEvents /\ Publish(OutputMark) /\ UNCHANGED <<mode, view, logged>>
    BY <1>3 DEF AgentOutput, BusEvents, unchangedByRun
  <2>2. logged' = Apply(logged, OutputMark)
    BY <1>0, <2>1, ApplyBus
  <2> QED  BY <2>1, <2>2, PublishConverges
<1>4. CASE LoopApply \/ LoopClosed
  <2>1. /\ busq # <<>> /\ busq' = Tail(busq) /\ UNCHANGED <<mode, logged, subscribed>>
    BY <1>4 DEF LoopApply, LoopClosed, logVars
  <2>2. Head(busq) \in BusEvents
    BY <1>0, <2>1
  <2>3. view' = Apply(view, Head(busq))
    BY <1>0, <1>4, <2>2, ApplyBus DEF LoopApply, LoopClosed
  <2> QED  BY <1>0, <2>1, <2>3, ReplaysOneLess DEF ConvergenceInv, Replays
<1>5. CASE LoopStart \/ Tick \/ Toggle
  BY <1>1, <1>5 DEF LoopStart, Tick, Toggle, logVars, busVars
<1>6. CASE Stop \/ Crash
  BY <1>6 DEF Stop, Crash, ConvergenceInv
<1>7. CASE Restart
  <2>1. view' = logged' /\ busq' = <<>>
    BY <1>7 DEF Restart
  <2>2. view' \in View
    BY TypeInductive DEF TypeOK
  <2> QED  BY <2>1, <2>2, ReplaysNothing DEF ConvergenceInv, Replays
<1>8. CASE UNCHANGED vars
  BY <1>1, <1>8 DEF vars, logVars, busVars
<1> QED  BY <1>1, <1>2, <1>3, <1>4, <1>5, <1>6, <1>7, <1>8, RunLogs, ClientLogs DEF Next, LoopStep

(* Once the loop has drained its subscription, the projection says what a  *)
(* replay of the log would say, for any capacity of the buffer, any        *)
(* clients, crashes and orphan recoveries.                                 *)
THEOREM LogAndProjectionAgree == Spec => []ProjectionConverges
<1>1. ConvergenceInv => ProjectionConverges
  BY NothingReplayed DEF ConvergenceInv, ProjectionConverges
<1> QED  BY TypeCorrect, ConvergenceInit, ConvergenceStep, <1>1, PTL DEF Spec

-----------------------------------------------------------------------------
(* Nothing comes back.                                                     *)

LEMMA WithoutAdds ==
  ASSUME NEW q \in Seq(Tasks), NEW t, NEW i \in 1 .. Len(Without(q, t))
  PROVE  \E j \in 1 .. Len(q) : Without(q, t)[i] = q[j]
<1>1. CASE t \in Elements(q)
  <2>1. Len(q) \in Nat
    OBVIOUS
  <2>2. PICK k \in 1 .. Len(q) :
          /\ q[k] = t
          /\ Len(Without(q, t)) = Len(q) - 1
          /\ \A j \in 1 .. Len(q) - 1 : Without(q, t)[j] = IF j < k THEN q[j] ELSE q[j + 1]
    BY <1>1, WithoutAt
  <2>3. i \in 1 .. Len(q) - 1
    BY <2>2
  <2>4. Without(q, t)[i] \in {q[i], q[i + 1]}
    BY <2>2, <2>3
  <2>5. i \in 1 .. Len(q) /\ i + 1 \in 1 .. Len(q)
    BY <2>1, <2>3
  <2> QED  BY <2>4, <2>5
<1>2. CASE t \notin Elements(q)
  BY <1>2 DEF Without, Elements
<1> QED  BY <1>1, <1>2

(* Only task.queued and task.deferred bring a task into a queue, the       *)
(* latter one that was in flight.                                          *)
LEMMA WaitingAfter ==
  ASSUME NEW v \in View, NEW e \in TaskEvent, NEW s \in Sessions,
         NEW t \in Waiting(Apply(v, e), s)
  PROVE  \/ t \in Waiting(v, s)
         \/ t = v.running[s]
         \/ e.type = "queued" /\ t = e.task
<1>0. /\ e.sess \in Sessions /\ e.task \in Tasks /\ e.type \in EventTypes
      /\ v.queued[s] \in Seq(Tasks) /\ v.queued[e.sess] \in Seq(Tasks)
      /\ v.queued \in [Sessions -> Seq(Tasks)]
  BY DEF TaskEvent, View
<1> DEFINE q == Apply(v, e).queued[s]
<1>1. \/ q = v.queued[s]
      \/ s = e.sess /\ e.type = "queued" /\ q = Append(v.queued[s], e.task)
      \/ s = e.sess /\ q = Without(v.queued[s], e.task)
      \/ s = e.sess /\ v.running[s] = e.task /\ q = <<e.task>> \o v.queued[s]
  BY <1>0 DEF Apply, OnQueued, OnDispatched, OnRetrying, OnDeferred, OnTerminal, View, EventTypes,
              TerminalTypes
<1>2. PICK i \in 1 .. Len(q) : t = q[i]
  BY DEF Waiting
<1> HIDE DEF q
<1>3. CASE q = v.queued[s]
  BY <1>2, <1>3 DEF Waiting
<1>4. CASE s = e.sess /\ e.type = "queued" /\ q = Append(v.queued[s], e.task)
  BY <1>0, <1>2, <1>4 DEF Waiting
<1>5. CASE q = Without(v.queued[s], e.task)
  BY <1>0, <1>2, <1>5, WithoutAdds DEF Waiting
<1>6. CASE v.running[s] = e.task /\ q = <<e.task>> \o v.queued[s]
  <2>1. i = 1 => t = e.task
    BY <1>0, <1>2, <1>6
  <2>2. i # 1 => i - 1 \in 1 .. Len(v.queued[s]) /\ t = v.queued[s][i - 1]
    BY <1>0, <1>2, <1>6
  <2> QED  BY <1>6, <2>1, <2>2 DEF Waiting
<1> QED  BY <1>1, <1>3, <1>4, <1>5, <1>6

(* A task that has left the log's queue and is not in flight never returns *)
(* to it, whatever is cancelled, deferred, recovered or dropped.           *)
THEOREM NothingReturns == Spec => GoneStaysGone
<1> DEFINE Stays == \A s \in Sessions : \A t \in Waiting(logged', s) :
                      status[t] = "absent" \/ t \in Waiting(logged, s) \cup {logged.running[s]}
<1>1. TypeOK /\ [Next]_vars => [Stays]_vars
  <2> SUFFICES ASSUME TypeOK, Next  PROVE Stays
    OBVIOUS
  <2>1. CASE logged' = logged
    BY <2>1
  <2>2. ASSUME NEW e \in TaskEvent, EmitsOne(e)  PROVE Stays
    BY <2>2, WaitingAfter DEF EmitsOne, Emit, TypeOK
  <2>3. CASE Restart
    <3>1. logged'.queued = logged.queued
      BY <2>3 DEF Restart, Recovered, TypeOK, View
    <3> QED  BY <3>1 DEF Waiting
  <2>4. CASE LoopStep \/ Tick \/ AgentOutput \/ Stop \/ Crash \/ Toggle
    BY <2>1, <2>4 DEF LoopStep, LoopStart, LoopApply, LoopClosed, Tick, AgentOutput, Stop, Crash,
                      Toggle, logVars
  <2> HIDE DEF Stays
  <2> QED  BY <2>1, <2>2, <2>3, <2>4, RunLogs, ClientLogs DEF Next
<1> QED  BY TypeCorrect, <1>1, PTL DEF Spec, GoneStaysGone

-----------------------------------------------------------------------------
(* Every task is where the log says.  A cancellation can reach a task that *)
(* is being claimed, and a projection that lost its subscription claims    *)
(* what has ended: the log is exact without the two.                       *)

NothingCancels == Ops \cap {"cancel", "delete"} = {}

Subscribed == mode = "up" => subscribed

(* The status of a task and its place in the replay of the log agree.      *)
PlacesInv ==
  /\ AllDistinct(logged)
  /\ \A t \in Tasks, s \in Sessions :
       /\ t \in Waiting(logged, s) <=> status[t] = "queued" /\ owner[t] = s
       /\ logged.running[s] = t <=> status[t] = "dispatched" /\ owner[t] = s
  /\ \A t \in Tasks : status[t] \in {"queued", "dispatched"} => owner[t] \in Sessions

(* q holds what v still lacks of log: a task that v shows as waiting waits *)
(* in log or has its dispatch in q, and q adds no task that v has already. *)
Trails(log, v, q) ==
  /\ AllDistinct(v)
  /\ \A s \in Sessions : \A t \in Waiting(v, s) :
       t \in Waiting(log, s) \/ \E i \in 1 .. Len(q) : q[i] = Event("dispatched", s, t)
  /\ \A i \in 1 .. Len(q) : Adds(q[i]) =>
       /\ q[i].task \in Waiting(log, q[i].sess)
       /\ q[i].task \notin Waiting(v, q[i].sess)
       /\ \A j \in 1 .. Len(q) :
            Adds(q[j]) /\ q[j].sess = q[i].sess /\ q[j].task = q[i].task => i = j
  /\ \A i \in 1 .. Len(q) : q[i] # CloseMark

Follows(v, q) == Trails(logged, v, q)

(* What is claimed waits in the log and will not be added to the           *)
(* projection; what runs is in flight in the log; a dispatch that the loop *)
(* has not applied is that of the task that runs.                          *)
SlotInv ==
  /\ mode = "down" => slot.phase = "free"
  /\ destroying = NotDestroying
  /\ mode = "up" => loop # "closed"
  /\ mode = "up" /\ loop = "claiming" => slot.phase = "claiming" /\ slot.by = "loop"
  /\ slot.phase = "claiming" => slot.task \in Waiting(logged, slot.sess)
  /\ slot.phase \in {"running", "backoff"} => logged.running[slot.sess] = slot.task
  /\ mode = "up" => \A i \in 1 .. Len(busq) :
       /\ busq[i].type = "dispatched" =>
            slot.phase = "running" /\ slot.sess = busq[i].sess /\ slot.task = busq[i].task
       /\ Adds(busq[i]) /\ slot.phase = "claiming" =>
            ~(slot.sess = busq[i].sess /\ slot.task = busq[i].task)

AccountsInv == PlacesInv /\ SlotInv /\ (mode = "up" => Follows(view, busq))

(* The events that a process which cancels nothing emits.                  *)
Fits(e) ==
  /\ e.type # "cancelled"
  /\ e.type = "queued" =>
       status[e.task] = "absent" /\ owner' = [owner EXCEPT ![e.task] = e.sess]
  /\ e.type # "queued" => owner' = owner
  /\ e.type = "dispatched" => e.task \in Waiting(logged, e.sess) /\ NothingInFlight
  /\ e.type \in {"retrying", "deferred", "completed", "failed"} =>
       logged.running[e.sess] = e.task

LEMMA FitMoves ==
  ASSUME TypeOK, PlacesInv, NEW e \in TaskEvent, Emit(e), Fits(e)
  PROVE  /\ AllDistinct(logged')
         /\ \A s \in Sessions, t \in Tasks :
              t \in Waiting(logged', s) <=>
                \/ t \in Waiting(logged, s) /\ ~(e.type = "dispatched" /\ s = e.sess /\ t = e.task)
                \/ Adds(e) /\ s = e.sess /\ t = e.task
         /\ \A s \in Sessions :
              logged'.running[s] =
                IF s = e.sess /\ e.type = "dispatched" THEN e.task
                ELSE IF s = e.sess /\ e.type \in {"deferred", "completed", "failed"} THEN NoTask
                ELSE logged.running[s]
<1>1. /\ e.sess \in Sessions /\ e.task \in Tasks /\ e.type \in EventTypes
      /\ logged \in View /\ logged' = Apply(logged, e)
  BY DEF TaskEvent, TypeOK, Emit
<1>2. Adds(e) => e.task \notin Waiting(logged, e.sess)
  BY <1>1 DEF Adds, Fits, PlacesInv
<1>3. AllDistinct(logged)
  BY DEF PlacesInv
<1>4. /\ Enters(logged, e) <=> Adds(e)
      /\ Leaves(logged, e) <=> e.type = "dispatched"
      /\ Ends(logged, e) <=> e.type \in {"deferred", "completed", "failed"}
  BY <1>1 DEF Fits, Enters, Leaves, Ends, Adds, EventTypes, TerminalTypes
<1>5. e.type = "dispatched" => e.task \in Waiting(logged, e.sess)
  BY DEF Fits
<1> QED  BY <1>1, <1>2, <1>3, <1>4, <1>5, EventMoves

LEMMA FitStatus ==
  ASSUME TypeOK, NEW e \in TaskEvent, Emit(e), Fits(e)
  PROVE  /\ \A t \in Tasks \ {e.task} : status'[t] = status[t] /\ owner'[t] = owner[t]
         /\ status'[e.task] = CASE Adds(e) -> "queued"
                                [] e.type = "retrying" -> status[e.task]
                                [] OTHER -> e.type
         /\ owner'[e.task] = IF e.type = "queued" THEN e.sess ELSE owner[e.task]
<1>1. /\ e.sess \in Sessions /\ e.task \in Tasks /\ e.type \in EventTypes
      /\ status \in [Tasks -> Statuses] /\ owner \in [Tasks -> Sessions \cup {"none"}]
      /\ status' = StatusAfter(e)
  BY DEF TaskEvent, TypeOK, Emit
<1> QED  BY <1>1 DEF StatusAfter, Fits, Adds, EventTypes, TerminalTypes

LEMMA PlacesKept ==
  ASSUME TypeOK, PlacesInv, NEW e \in TaskEvent, Emit(e), Fits(e)
  PROVE  PlacesInv'
<1>1. e.sess \in Sessions /\ e.task \in Tasks /\ e.type \in EventTypes
  BY DEF TaskEvent
<1>2. ASSUME NEW t \in Tasks, NEW s \in Sessions
      PROVE  /\ t \in Waiting(logged', s) <=> status'[t] = "queued" /\ owner'[t] = s
             /\ logged'.running[s] = t <=> status'[t] = "dispatched" /\ owner'[t] = s
  <2>0. NoTask # t
    BY DEF NoTask, Tasks
  <2>1. CASE t # e.task
    <3>1. status'[t] = status[t] /\ owner'[t] = owner[t]
      BY <2>1, FitStatus
    <3>2. t \in Waiting(logged', s) <=> t \in Waiting(logged, s)
      BY <2>1, FitMoves
    <3>3. logged'.running[s] = t <=> logged.running[s] = t
      BY <1>1, <2>0, <2>1, FitMoves DEF Fits, NothingInFlight
    <3> QED  BY <3>1, <3>2, <3>3 DEF PlacesInv
  <2>2. CASE t = e.task
    <3>1. /\ t \in Waiting(logged, s) <=> status[t] = "queued" /\ owner[t] = s
          /\ logged.running[s] = t <=> status[t] = "dispatched" /\ owner[t] = s
          /\ t \in Waiting(logged, e.sess) <=> status[t] = "queued" /\ owner[t] = e.sess
          /\ logged.running[e.sess] = t <=> status[t] = "dispatched" /\ owner[t] = e.sess
      BY <1>1 DEF PlacesInv
    <3>2. CASE e.type = "queued"
      <4>1. status'[t] = "queued" /\ owner'[t] = e.sess /\ status[t] = "absent"
        BY <2>2, <3>2, FitStatus DEF Fits, Adds
      <4>2. t \in Waiting(logged', s) <=> t \in Waiting(logged, s) \/ s = e.sess
        BY <2>2, <3>2, FitMoves DEF Adds
      <4>3. logged'.running[s] = logged.running[s]
        BY <3>2, FitMoves
      <4> QED  BY <3>1, <4>1, <4>2, <4>3
    <3>3. CASE e.type = "dispatched"
      <4>1. status'[t] = "dispatched" /\ owner'[t] = owner[t] /\ t \in Waiting(logged, e.sess)
        BY <2>2, <3>3, FitStatus DEF Fits, Adds
      <4>2. t \in Waiting(logged', s) <=> t \in Waiting(logged, s) /\ s # e.sess
        BY <2>2, <3>3, FitMoves DEF Adds
      <4>3. logged'.running[s] = IF s = e.sess THEN t ELSE logged.running[s]
        BY <2>2, <3>3, FitMoves
      <4> QED  BY <3>1, <4>1, <4>2, <4>3
    <3>4. CASE e.type \in {"deferred", "completed", "failed"}
      <4>1. /\ status'[t] = IF e.type = "deferred" THEN "queued" ELSE e.type
            /\ owner'[t] = owner[t] /\ logged.running[e.sess] = t
        BY <2>2, <3>4, FitStatus DEF Fits, Adds
      <4>2. t \in Waiting(logged', s)
              <=> t \in Waiting(logged, s) \/ (e.type = "deferred" /\ s = e.sess)
        BY <2>2, <3>4, FitMoves DEF Adds
      <4>3. logged'.running[s] = IF s = e.sess THEN NoTask ELSE logged.running[s]
        BY <3>4, FitMoves
      <4> QED  BY <2>0, <3>1, <3>4, <4>1, <4>2, <4>3
    <3>5. CASE e.type = "retrying"
      <4>1. status'[t] = status[t] /\ owner'[t] = owner[t]
        BY <2>2, <3>5, FitStatus DEF Adds
      <4>2. t \in Waiting(logged', s) <=> t \in Waiting(logged, s)
        BY <3>5, FitMoves DEF Adds
      <4>3. logged'.running[s] = logged.running[s]
        BY <3>5, FitMoves
      <4> QED  BY <3>1, <4>1, <4>2, <4>3
    <3> QED  BY <1>1, <3>2, <3>3, <3>4, <3>5 DEF Fits, EventTypes, TerminalTypes
  <2> QED  BY <2>1, <2>2
<1>3. ASSUME NEW t \in Tasks, status'[t] \in {"queued", "dispatched"}
      PROVE  owner'[t] \in Sessions
  <2>1. CASE t # e.task
    BY <1>3, <2>1, FitStatus DEF PlacesInv
  <2>2. CASE t = e.task
    <3>1. e.type = "queued" \/ e.type = "dispatched" \/ e.type = "deferred" \/ e.type = "retrying"
      BY <1>1, <1>3, <2>2, FitStatus DEF Fits, EventTypes, TerminalTypes, Adds
    <3>2. e.type # "queued" => owner'[t] = owner[t] /\ owner[t] = e.sess
      BY <1>1, <2>2, <3>1, FitStatus DEF Fits, PlacesInv
    <3> QED  BY <1>1, <2>2, <3>2, FitStatus
  <2> QED  BY <2>1, <2>2
<1> QED  BY <1>2, <1>3, FitMoves DEF PlacesInv

LEMMA BusTask ==
  ASSUME TypeOK, NEW i \in 1 .. Len(busq), Adds(busq[i]) \/ busq[i].type = "dispatched"
  PROVE  busq[i] \in TaskEvent
<1>1. busq[i] \in BusEvents
  BY DEF TypeOK, BusEvents
<1> QED  BY <1>1 DEF BusEvents, CloseMark, OutputMark, Adds

(* An event that is emitted while the subscription lasts.                  *)
LEMMA EmitFollowed ==
  ASSUME TypeOK, AccountsInv, mode = "up", NEW e \in TaskEvent, Emit(e), Fits(e),
         view' = view, subscribed',
         Adds(e) => e.task \notin Waiting(view, e.sess),
         e.type = "dispatched" => \A i \in 1 .. Len(busq) :
           ~(Adds(busq[i]) /\ busq[i].sess = e.sess /\ busq[i].task = e.task)
  PROVE  busq' = Append(busq, e) /\ Follows(view, busq)'
<1> DEFINE n == Len(busq)
<1>1. busq' = Append(busq, e)
  BY DEF Emit, Publish, busVars
<1>2. n \in Nat /\ Len(busq') = n + 1 /\ busq'[n + 1] = e /\ \A i \in 1 .. n : busq'[i] = busq[i]
  BY <1>1 DEF TypeOK
<1> HIDE DEF n
<1>3. \A i \in 1 .. Len(busq') : i = n + 1 \/ (i \in 1 .. n /\ busq'[i] = busq[i])
  BY <1>2
<1>4. Follows(view, busq) /\ n = Len(busq)
  BY DEF AccountsInv, n
<1>5. e.sess \in Sessions /\ e.task \in Tasks /\ e.type \in EventTypes
  BY DEF TaskEvent
<1>6. Adds(e) => \A i \in 1 .. n :
        ~(Adds(busq[i]) /\ busq[i].sess = e.sess /\ busq[i].task = e.task)
  <2> SUFFICES ASSUME Adds(e), NEW i \in 1 .. n, Adds(busq[i]), busq[i].sess = e.sess,
                      busq[i].task = e.task
               PROVE  FALSE
    OBVIOUS
  <2>1. e.task \in Waiting(logged, e.sess)
    BY <1>4 DEF Follows, Trails
  <2>2. status[e.task] = "queued"
    BY <1>5, <2>1 DEF AccountsInv, PlacesInv
  <2>3. status[e.task] # "queued"
    BY <1>5 DEF Fits, Adds, AccountsInv, PlacesInv
  <2> QED  BY <2>2, <2>3
<1>7. ASSUME NEW s \in Sessions, NEW t \in Waiting(view, s)
      PROVE  \/ t \in Waiting(logged', s)
             \/ \E i \in 1 .. Len(busq') : busq'[i] = Event("dispatched", s, t)
  <2>0. t \in Tasks
    BY DEF Waiting, TypeOK, View
  <2>1. CASE \E i \in 1 .. n : busq[i] = Event("dispatched", s, t)
    <3>1. PICK i \in 1 .. n : busq[i] = Event("dispatched", s, t)
      BY <2>1
    <3>2. i \in 1 .. Len(busq') /\ busq'[i] = busq[i]
      BY <1>2
    <3> QED  BY <3>1, <3>2
  <2>2. CASE t \in Waiting(logged, s)
    <3>1. CASE e.type = "dispatched" /\ s = e.sess /\ t = e.task
      <4>1. e = Event("dispatched", s, t)
        BY <3>1 DEF Event, TaskEvent
      <4>2. n + 1 \in 1 .. Len(busq')
        BY <1>2
      <4> QED  BY <1>2, <4>1, <4>2
    <3>2. CASE ~(e.type = "dispatched" /\ s = e.sess /\ t = e.task)
      BY <2>0, <2>2, <3>2, FitMoves DEF AccountsInv
    <3> QED  BY <3>1, <3>2
  <2> QED  BY <1>4, <2>1, <2>2 DEF Follows, Trails
<1>8. ASSUME NEW i \in 1 .. Len(busq'), Adds(busq'[i])
      PROVE  /\ busq'[i].task \in Waiting(logged', busq'[i].sess)
             /\ busq'[i].task \notin Waiting(view, busq'[i].sess)
             /\ \A j \in 1 .. Len(busq') :
                  Adds(busq'[j]) /\ busq'[j].sess = busq'[i].sess /\ busq'[j].task = busq'[i].task
                  => i = j
  <2>1. CASE i = n + 1
    <3>1. busq'[i] = e
      BY <1>2, <2>1
    <3>2. e.task \in Waiting(logged', e.sess)
      BY <1>5, <1>8, <3>1, FitMoves DEF AccountsInv
    <3> QED  BY <1>3, <1>6, <1>8, <2>1, <3>1, <3>2
  <2>2. CASE i \in 1 .. n
    <3>1. busq'[i] = busq[i] /\ Adds(busq[i])
      BY <1>2, <1>8, <2>2
    <3>2. busq[i] \in TaskEvent
      BY <1>4, <2>2, <3>1, BusTask
    <3>3. busq[i].sess \in Sessions /\ busq[i].task \in Tasks
      BY <3>2 DEF TaskEvent
    <3>4. /\ busq[i].task \in Waiting(logged, busq[i].sess)
          /\ busq[i].task \notin Waiting(view, busq[i].sess)
          /\ \A j \in 1 .. n :
               Adds(busq[j]) /\ busq[j].sess = busq[i].sess /\ busq[j].task = busq[i].task => i = j
      BY <1>4, <2>2, <3>1 DEF Follows, Trails
    <3>5. busq[i].task \in Waiting(logged', busq[i].sess)
      BY <1>4, <2>2, <3>1, <3>3, <3>4, FitMoves DEF AccountsInv
    <3>6. Adds(e) => ~(e.sess = busq[i].sess /\ e.task = busq[i].task)
      BY <1>6, <2>2, <3>1
    <3> QED  BY <1>2, <1>3, <3>1, <3>4, <3>5, <3>6
  <2> QED  BY <1>3, <2>1, <2>2
<1>9. \A i \in 1 .. Len(busq') : busq'[i] # CloseMark
  BY <1>2, <1>3, <1>4, <1>5 DEF Follows, Trails, CloseMark, EventTypes, TerminalTypes
<1>10. AllDistinct(view)
  BY <1>4 DEF Follows, Trails
<1> QED  BY <1>1, <1>7, <1>8, <1>9, <1>10 DEF Follows, Trails

(* The loop applies the first event it has.                                *)
LEMMA ApplyFollowed ==
  ASSUME TypeOK, Follows(view, busq), busq # <<>>
  PROVE  Follows(Apply(view, Head(busq)), Tail(busq))
<1> DEFINE n == Len(busq)
           e == Head(busq)
           w == Apply(view, e)
<1>1. /\ n \in Nat \ {0} /\ Len(Tail(busq)) = n - 1 /\ e = busq[1]
      /\ \A i \in 1 .. n - 1 : Tail(busq)[i] = busq[i + 1]
      /\ e \in BusEvents
  BY DEF TypeOK, BusEvents
<1>2. \A i \in 1 .. n - 1 : i + 1 \in 1 .. n /\ i + 1 # 1
  BY <1>1
<1>3. /\ view \in View /\ AllDistinct(view) /\ 1 \in 1 .. n
  BY <1>1 DEF TypeOK, Follows, Trails
<1>4. /\ AllDistinct(w)
      /\ \A s \in Sessions : \A t \in Waiting(w, s) :
           \/ t \in Waiting(view, s) /\ e # Event("dispatched", s, t)
           \/ Adds(e) /\ s = e.sess /\ t = e.task
  <2>1. CASE e = OutputMark
    <3>1. w = view
      BY <1>1, <1>3, <2>1, ApplyBus
    <3>2. \A s, t : e # Event("dispatched", s, t)
      BY <2>1 DEF OutputMark, Event
    <3> QED  BY <1>3, <3>1, <3>2
  <2>2. CASE e \in TaskEvent
    <3>1. Adds(e) => e.task \notin Waiting(view, e.sess)
      BY <1>1, <1>3 DEF Follows, Trails
    <3>2. w \in View
      BY <1>3, <2>2, ApplyType
    <3>3. \A s \in Sessions : \A t \in Waiting(w, s) : t \in Tasks
      BY <3>2 DEF Waiting, View
    <3>4. \A s, t : e = Event("dispatched", s, t) => Leaves(view, e) /\ s = e.sess /\ t = e.task
      BY DEF Event, Leaves
    <3>5. Enters(view, e) => Adds(e)
      BY DEF Enters, Adds
    <3> HIDE DEF w, e
    <3>6. /\ AllDistinct(w)
          /\ \A s \in Sessions, t \in Tasks :
               t \in Waiting(w, s) <=>
                 \/ t \in Waiting(view, s) /\ ~(Leaves(view, e) /\ s = e.sess /\ t = e.task)
                 \/ Enters(view, e) /\ s = e.sess /\ t = e.task
      BY <1>3, <2>2, <3>1, EventMoves DEF w
    <3> QED  BY <3>3, <3>4, <3>5, <3>6
  <2>3. e # CloseMark
    BY <1>1, <1>3 DEF Follows, Trails
  <2> QED  BY <1>1, <2>1, <2>2, <2>3 DEF BusEvents
<1> HIDE DEF n, e, w
<1>5. n = Len(busq)
  BY DEF n
<1>6. ASSUME NEW s \in Sessions, NEW t \in Waiting(w, s)
      PROVE  \/ t \in Waiting(logged, s)
             \/ \E i \in 1 .. Len(Tail(busq)) : Tail(busq)[i] = Event("dispatched", s, t)
  <2>1. CASE t \in Waiting(view, s) /\ e # Event("dispatched", s, t)
    <3>1. ASSUME NEW i \in 1 .. n, busq[i] = Event("dispatched", s, t)
          PROVE  \E j \in 1 .. Len(Tail(busq)) : Tail(busq)[j] = Event("dispatched", s, t)
      <4>1. i # 1
        BY <1>1, <2>1, <3>1
      <4>2. i - 1 \in 1 .. n - 1 /\ i - 1 + 1 = i
        BY <1>1, <4>1
      <4> QED  BY <1>1, <3>1, <4>2
    <3> QED  BY <1>5, <2>1, <3>1 DEF Follows, Trails
  <2>2. CASE Adds(e) /\ s = e.sess /\ t = e.task
    BY <1>1, <1>3, <1>5, <2>2 DEF Follows, Trails
  <2> QED  BY <1>4, <2>1, <2>2
<1>7. ASSUME NEW i \in 1 .. n - 1, Adds(Tail(busq)[i])
      PROVE  /\ Tail(busq)[i].task \in Waiting(logged, Tail(busq)[i].sess)
             /\ Tail(busq)[i].task \notin Waiting(w, Tail(busq)[i].sess)
             /\ \A j \in 1 .. n - 1 :
                  /\ Adds(Tail(busq)[j]) /\ Tail(busq)[j].sess = Tail(busq)[i].sess
                  /\ Tail(busq)[j].task = Tail(busq)[i].task
                  => i = j
  <2> DEFINE f == busq[i + 1]
  <2>1. Tail(busq)[i] = f /\ Adds(f) /\ i + 1 \in 1 .. n /\ i + 1 # 1
    BY <1>1, <1>2, <1>7
  <2>2. f \in TaskEvent
    BY <1>5, <2>1, BusTask
  <2>3. f.sess \in Sessions
    BY <2>2 DEF TaskEvent
  <2> HIDE DEF f
  <2>4. /\ f.task \in Waiting(logged, f.sess) /\ f.task \notin Waiting(view, f.sess)
        /\ \A j \in 1 .. n :
             Adds(busq[j]) /\ busq[j].sess = f.sess /\ busq[j].task = f.task => i + 1 = j
    BY <1>5, <2>1 DEF Follows, Trails, f
  <2>5. ~(Adds(e) /\ e.sess = f.sess /\ e.task = f.task)
    BY <1>1, <1>3, <2>1, <2>4
  <2>6. f.task \notin Waiting(w, f.sess)
    BY <1>4, <2>3, <2>4, <2>5
  <2>7. ASSUME NEW j \in 1 .. n - 1, Adds(Tail(busq)[j]), Tail(busq)[j].sess = f.sess,
               Tail(busq)[j].task = f.task
        PROVE  i = j
    <3>1. i + 1 = j + 1
      BY <1>1, <1>2, <2>4, <2>7
    <3> QED  BY <1>1, <3>1
  <2> QED  BY <2>1, <2>4, <2>6, <2>7
<1>8. \A i \in 1 .. n - 1 : Tail(busq)[i] # CloseMark
  BY <1>1, <1>2, <1>5 DEF Follows, Trails
<1> QED  BY <1>1, <1>4, <1>6, <1>7, <1>8 DEF Follows, Trails, w, e

-----------------------------------------------------------------------------
(* A claim takes a task that waits in the projection it is given.          *)
LEMMA ClaimTakes ==
  ASSUME NEW v \in View, NEW caller, Claim(caller, v)
  PROVE  \/ slot'.phase = "free"
         \/ /\ slot'.phase = "claiming" /\ slot'.by = caller
            /\ slot'.sess \in Sessions /\ slot'.task \in Waiting(v, slot'.sess)
<1>1. CASE slot' = FreeSlot
  BY <1>1 DEF FreeSlot
<1>2. CASE slot' # FreeSlot
  <2>1. PICK s \in Sessions :
          /\ v.queued[s] # <<>>
          /\ slot' = [phase |-> "claiming", sess |-> s, task |-> Head(v.queued[s]),
                      by |-> caller, attempt |-> 0]
    BY <1>2 DEF Claim, Winner, Candidates
  <2>2. v.queued[s] \in Seq(Tasks)
    BY DEF View
  <2>3. 1 \in 1 .. Len(v.queued[s]) /\ Head(v.queued[s]) = v.queued[s][1]
    BY <2>1, <2>2
  <2> QED  BY <2>1, <2>3 DEF Waiting
<1> QED  BY <1>1, <1>2

LEMMA WaitingFits ==
  ASSUME NEW v, NEW q, Follows(v, q), NEW s \in Sessions, NEW t \in Waiting(v, s),
         \A i \in 1 .. Len(q) : q[i].type # "dispatched"
  PROVE  /\ t \in Waiting(logged, s)
         /\ \A i \in 1 .. Len(q) : Adds(q[i]) => ~(s = q[i].sess /\ t = q[i].task)
<1>1. Event("dispatched", s, t).type = "dispatched"
  BY DEF Event
<1>2. \A i \in 1 .. Len(q) : q[i] # Event("dispatched", s, t)
  BY <1>1
<1>3. \A i \in 1 .. Len(q) : Adds(q[i]) => q[i].task \notin Waiting(v, q[i].sess)
  BY DEF Follows, Trails
<1>4. t \in Waiting(logged, s)
  BY <1>2 DEF Follows, Trails
<1> QED  BY <1>3, <1>4

(* A claim from a projection that no dispatch waits for is of a task that  *)
(* waits in the log, and that the projection will not be given again.      *)
LEMMA ClaimFits ==
  ASSUME NEW v \in View, NEW q, NEW caller, Claim(caller, v), Follows(v, q),
         \A i \in 1 .. Len(q) : q[i].type # "dispatched"
  PROVE  \/ slot'.phase = "free"
         \/ /\ slot'.phase = "claiming" /\ slot'.by = caller
            /\ slot'.sess \in Sessions /\ slot'.task \in Waiting(logged, slot'.sess)
            /\ slot'.task \in Waiting(v, slot'.sess)
            /\ \A i \in 1 .. Len(q) :
                 Adds(q[i]) => ~(slot'.sess = q[i].sess /\ slot'.task = q[i].task)
<1>1. CASE slot'.phase = "free"
  BY <1>1
<1>2. CASE slot'.phase # "free"
  <2>1. /\ slot'.phase = "claiming" /\ slot'.by = caller
        /\ slot'.sess \in Sessions /\ slot'.task \in Waiting(v, slot'.sess)
    BY <1>2, ClaimTakes
  <2>2. /\ slot'.task \in Waiting(logged, slot'.sess)
        /\ \A i \in 1 .. Len(q) :
             Adds(q[i]) => ~(slot'.sess = q[i].sess /\ slot'.task = q[i].task)
    BY <2>1, WaitingFits
  <2> QED  BY <2>1, <2>2
<1> QED  BY <1>1, <1>2

(* While the process is up and no task runs, no dispatch waits in the bus. *)
LEMMA NoneDispatched ==
  ASSUME AccountsInv, mode = "up", slot.phase # "running"
  PROVE  \A i \in 1 .. Len(busq) : busq[i].type # "dispatched"
BY DEF AccountsInv, SlotInv

LEMMA PlacesSame == PlacesInv /\ UNCHANGED <<logged, status, owner>> => PlacesInv'
BY DEF PlacesInv, AllDistinct, Distinct, Waiting

LEMMA FollowsSame == Follows(view, busq) /\ UNCHANGED <<view, busq, logged>> => Follows(view, busq)'
BY DEF Follows

LEMMA AccountsSame ==
  AccountsInv /\ UNCHANGED <<logged, status, owner, mode, view, busq, slot, loop, destroying>>
    => AccountsInv'
BY PlacesSame, FollowsSame DEF AccountsInv, SlotInv, Waiting, Adds

LEMMA AccountsLoop ==
  ASSUME TypeOK, AccountsInv, LoopStep \/ Tick
  PROVE  AccountsInv'
<1>1. /\ mode = "up" /\ destroying = NotDestroying
      /\ UNCHANGED <<logged, status, owner, mode, destroying>>
  BY DEF LoopStep, LoopStart, LoopApply, LoopClosed, Tick, Up, logVars
<1>2. PlacesInv' /\ view \in View /\ Follows(view, busq)
  BY <1>1, PlacesSame DEF AccountsInv, TypeOK
<1>3. ASSUME NEW v \in View, NEW q, v = view', q = busq', Follows(v, q),
             \A i \in 1 .. Len(q) : \E j \in 1 .. Len(busq) : q[i] = busq[j],
             \/ UNCHANGED <<slot, loop>>
             \/ slot.phase # "free" /\ UNCHANGED slot /\ loop' = "idle"
             \/ slot.phase = "free" /\ Claim("loop", v) /\ LoopAfterClaim
             \/ slot.phase = "free" /\ Claim("tick", v) /\ UNCHANGED loop
      PROVE  AccountsInv'
  <2>1. Follows(view, busq)'
    BY <1>1, <1>3 DEF Follows
  <2>2. CASE UNCHANGED slot /\ loop' \in {loop, "idle"}
    <3>1. SlotInv'
      BY <1>1, <1>3, <2>2 DEF AccountsInv, SlotInv, Waiting, Adds
    <3> QED  BY <1>2, <2>1, <3>1 DEF AccountsInv
  <2>3. CASE slot.phase = "free" /\ \E caller : Claim(caller, v)
    <3>1. \A i \in 1 .. Len(q) : q[i].type # "dispatched"
      BY <1>1, <1>3, <2>3, NoneDispatched
    <3>2. PICK caller : Claim(caller, v)
      BY <2>3
    <3>3. \/ slot'.phase = "free"
          \/ /\ slot'.phase = "claiming"
             /\ slot'.sess \in Sessions /\ slot'.task \in Waiting(logged, slot'.sess)
             /\ \A i \in 1 .. Len(q) :
                  Adds(q[i]) => ~(slot'.sess = q[i].sess /\ slot'.task = q[i].task)
      BY <1>3, <3>1, <3>2, ClaimFits
    <3>4. loop # "claiming" /\ loop # "closed"
      BY <1>1, <2>3 DEF AccountsInv, SlotInv
    <3>5. /\ loop' # "closed"
          /\ loop' = "claiming" => slot'.phase = "claiming" /\ slot'.by = "loop"
      <4>1. CASE UNCHANGED loop
        BY <3>4, <4>1
      <4>2. CASE Claim("loop", v) /\ LoopAfterClaim
        BY <4>2, ClaimTakes DEF LoopAfterClaim
      <4>3. CASE slot.phase # "free"
        BY <2>3, <4>3
      <4> QED  BY <1>3, <4>1, <4>2, <4>3
    <3>6. SlotInv'
      BY <1>1, <1>3, <3>1, <3>3, <3>5 DEF SlotInv, Waiting, Adds
    <3> QED  BY <1>2, <2>1, <3>6 DEF AccountsInv
  <2> QED  BY <1>3, <2>2, <2>3
<1>4. CASE LoopStart \/ Tick
  <2>1. UNCHANGED <<view, busq>>
    BY <1>4 DEF LoopStart, Tick, busVars
  <2>2. \/ slot.phase # "free" /\ UNCHANGED slot /\ loop' = "idle"
        \/ slot.phase = "free" /\ Claim("loop", view) /\ LoopAfterClaim
        \/ slot.phase = "free" /\ Claim("tick", view) /\ UNCHANGED loop
    BY <1>4 DEF LoopStart, Tick, MaybeDispatchInLoop, claimVars
  <2> QED  BY <1>2, <1>3, <2>1, <2>2
<1>5. CASE LoopApply
  <2> DEFINE v == Apply(view, Head(busq))
             q == Tail(busq)
  <2>1. /\ busq # <<>> /\ view' = v /\ busq' = q
        /\ UNCHANGED <<slot, loop>> \/ MaybeDispatchInLoop(v)
    BY <1>5 DEF LoopApply, claimVars
  <2>2. Follows(v, q)
    BY <1>2, <2>1, ApplyFollowed
  <2>3. v \in View
    <3>1. Head(busq) \in BusEvents
      BY <2>1 DEF TypeOK, BusEvents
    <3> QED  BY <1>2, <3>1, ApplyBus
  <2>4. \A i \in 1 .. Len(q) : \E j \in 1 .. Len(busq) : q[i] = busq[j]
    <3>1. /\ Len(busq) \in Nat \ {0} /\ Len(q) = Len(busq) - 1
          /\ \A i \in 1 .. Len(busq) - 1 : q[i] = busq[i + 1]
      BY <2>1 DEF TypeOK
    <3> HIDE DEF q
    <3>2. \A i \in 1 .. Len(busq) - 1 : i + 1 \in 1 .. Len(busq)
      BY <3>1
    <3> QED  BY <3>1, <3>2
  <2> HIDE DEF v, q
  <2>5. \/ UNCHANGED <<slot, loop>>
        \/ slot.phase # "free" /\ UNCHANGED slot /\ loop' = "idle"
        \/ slot.phase = "free" /\ Claim("loop", v) /\ LoopAfterClaim
    BY <2>1 DEF MaybeDispatchInLoop, claimVars
  <2> QED  BY <1>3, <2>1, <2>2, <2>3, <2>4, <2>5
<1>6. CASE LoopClosed
  <2>1. 1 \in 1 .. Len(busq) /\ busq[1] = CloseMark
    BY <1>6 DEF LoopClosed, TypeOK
  <2> QED  BY <1>2, <2>1 DEF Follows, Trails
<1> QED  BY <1>4, <1>5, <1>6 DEF LoopStep

LEMMA AppliedMeansNone ==
  ASSUME TypeOK, AccountsInv, mode = "up", slot.phase \in {"running", "backoff"}, DispatchApplied
  PROVE  \A i \in 1 .. Len(busq) : busq[i].type # "dispatched"
<1> SUFFICES ASSUME NEW i \in 1 .. Len(busq), busq[i].type = "dispatched"  PROVE FALSE
  OBVIOUS
<1>1. /\ slot.sess = busq[i].sess /\ slot.task = busq[i].task
      /\ loop # "claiming" /\ loop # "closed"
  BY DEF AccountsInv, SlotInv
<1>2. busq[i] = Event("dispatched", slot.sess, slot.task)
  BY <1>1, BusTask DEF TaskEvent, Event
<1>3. loop \in {"starting", "idle"}
  BY <1>1 DEF TypeOK
<1> QED  BY <1>2, <1>3 DEF DispatchApplied

(* What the run of a task emits, the loop having applied its dispatch.     *)
LEMMA RunEmits ==
  ASSUME TypeOK, AccountsInv, subscribed', mode = "up",
         slot.phase \in {"running", "backoff"}, DispatchApplied,
         NEW type \in {"completed", "failed", "deferred", "retrying"},
         Emit(Event(type, slot.sess, slot.task)), UNCHANGED <<owner, view>>
  PROVE  /\ PlacesInv' /\ Follows(view, busq)'
         /\ \A s \in Sessions : \A t \in Waiting(logged, s) : t \in Waiting(logged', s)
         /\ \A i \in 1 .. Len(busq') :
              /\ busq'[i].type # "dispatched"
              /\ Adds(busq'[i]) =>
                   \/ \E j \in 1 .. Len(busq) : busq'[i] = busq[j]
                   \/ busq'[i].task \notin Waiting(view, busq'[i].sess)
         /\ type = "retrying" => logged'.running[slot.sess] = slot.task
<1> DEFINE e == Event(type, slot.sess, slot.task)
<1>1. /\ e \in TaskEvent /\ e.type = type /\ e.sess = slot.sess /\ e.task = slot.task
      /\ slot.sess \in Sessions /\ slot.task \in Tasks
  BY RunEvent, TakenSlot DEF TypeOK, Event, EventTypes, TerminalTypes
<1>2. Emit(e)
  OBVIOUS
<1> HIDE DEF e
<1>3. logged.running[slot.sess] = slot.task
  BY DEF AccountsInv, SlotInv
<1>4. Fits(e)
  BY <1>1, <1>3 DEF Fits
<1>5. \A i \in 1 .. Len(busq) : busq[i].type # "dispatched"
  BY AppliedMeansNone
<1>6. slot.task \notin Waiting(view, slot.sess)
  <2> SUFFICES ASSUME slot.task \in Waiting(view, slot.sess)  PROVE FALSE
    OBVIOUS
  <2>1. slot.task \in Waiting(logged, slot.sess)
    <3>1. /\ Follows(view, busq)
          /\ Event("dispatched", slot.sess, slot.task).type = "dispatched"
      BY DEF AccountsInv, Event
    <3>2. \A i \in 1 .. Len(busq) : busq[i] # Event("dispatched", slot.sess, slot.task)
      BY <1>5, <3>1
    <3> QED  BY <1>1, <3>1, <3>2 DEF Follows, Trails
  <2> QED  BY <1>1, <1>3, <2>1 DEF AccountsInv, PlacesInv
<1>7. busq' = Append(busq, e) /\ Follows(view, busq)'
  BY <1>1, <1>2, <1>4, <1>6, EmitFollowed
<1>8. PlacesInv'
  BY <1>1, <1>2, <1>4, PlacesKept DEF AccountsInv
<1>9. \A s \in Sessions : \A t \in Waiting(logged, s) : t \in Waiting(logged', s)
  <2>1. \A s \in Sessions : \A t \in Waiting(logged, s) : t \in Tasks
    BY DEF Waiting, TypeOK, View
  <2> QED  BY <1>1, <1>2, <1>4, <2>1, FitMoves DEF AccountsInv
<1>10. \A i \in 1 .. Len(busq') : busq'[i] = e \/ \E j \in 1 .. Len(busq) : busq'[i] = busq[j]
  <2>1. \A i \in 1 .. Len(busq') :
          i = Len(busq) + 1 \/ (i \in 1 .. Len(busq) /\ busq'[i] = busq[i])
    BY <1>7 DEF TypeOK
  <2>2. busq'[Len(busq) + 1] = e
    BY <1>7 DEF TypeOK
  <2> QED  BY <2>1, <2>2
<1>11. type = "retrying" => logged'.running[slot.sess] = slot.task
  BY <1>1, <1>2, <1>3, <1>4, FitMoves DEF AccountsInv
<1> QED  BY <1>1, <1>5, <1>6, <1>7, <1>8, <1>9, <1>10, <1>11

LEMMA AccountsFinish ==
  ASSUME TypeOK, AccountsInv, subscribed', mode = "up", slot.phase \in {"running", "backoff"},
         DispatchApplied, NEW type \in {"failed", "deferred"}, Finish(type),
         UNCHANGED <<owner, view, mode, loop, destroying>>
  PROVE  AccountsInv'
<1>1. /\ PlacesInv' /\ Follows(view, busq)'
      /\ \A s \in Sessions : \A t \in Waiting(logged, s) : t \in Waiting(logged', s)
      /\ \A i \in 1 .. Len(busq') :
           /\ busq'[i].type # "dispatched"
           /\ Adds(busq'[i]) =>
                \/ \E j \in 1 .. Len(busq) : busq'[i] = busq[j]
                \/ busq'[i].task \notin Waiting(view, busq'[i].sess)
  BY RunEmits DEF Finish
<1>2. \A i \in 1 .. Len(busq) : busq[i].type # "dispatched"
  BY AppliedMeansNone
<1>3. view \in View /\ Follows(view, busq)
  BY DEF TypeOK, AccountsInv
<1>4. \/ slot'.phase = "free"
      \/ /\ slot'.phase = "claiming"
         /\ slot'.sess \in Sessions /\ slot'.task \in Waiting(logged, slot'.sess)
         /\ slot'.task \in Waiting(view, slot'.sess)
         /\ \A i \in 1 .. Len(busq) :
              Adds(busq[i]) => ~(slot'.sess = busq[i].sess /\ slot'.task = busq[i].task)
  BY <1>2, <1>3, ClaimFits DEF Finish
<1>5. SlotInv'
  BY <1>1, <1>4 DEF AccountsInv, SlotInv, Waiting, Adds
<1> QED  BY <1>1, <1>5 DEF AccountsInv

LEMMA AccountsRun ==
  ASSUME TypeOK, AccountsInv, InFlightInv, Subscribed, Subscribed',
         Dispatch \/ RunStep \/ AgentOutput
  PROVE  AccountsInv'
<1>1. CASE Dispatch
  <2> DEFINE e == Event("dispatched", slot.sess, slot.task)
  <2>1. /\ slot.phase = "claiming" /\ Emit(e) /\ UNCHANGED <<mode, view, owner, destroying>>
        /\ slot' = [slot EXCEPT !.phase = "running"]
        /\ loop' = IF slot.by = "loop" THEN "idle" ELSE loop
        /\ mode # "down"
    BY <1>1 DEF Dispatch
  <2>2. /\ e \in TaskEvent /\ e.type = "dispatched" /\ e.sess = slot.sess /\ e.task = slot.task
        /\ slot.sess \in Sessions /\ slot.task \in Tasks
    BY <2>1, RunEvent, TakenSlot DEF TypeOK, Event, EventTypes
  <2>3. slot'.phase = "running" /\ slot'.sess = slot.sess /\ slot'.task = slot.task
    BY <2>1, TakenSlot DEF TypeOK
  <2> HIDE DEF e
  <2>4. Fits(e)
    BY <2>1, <2>2 DEF Fits, AccountsInv, SlotInv, InFlightInv, NoRunBeforeDispatch, NothingInFlight
  <2>5. PlacesInv'
    BY <2>1, <2>2, <2>4, PlacesKept DEF AccountsInv
  <2>6. logged'.running[slot.sess] = slot.task
    BY <2>1, <2>2, <2>4, FitMoves DEF AccountsInv
  <2>7. CASE mode = "up"
    <3>1. subscribed'
      BY <2>1, <2>7 DEF Subscribed
    <3>2. \A i \in 1 .. Len(busq) :
            ~(Adds(busq[i]) /\ busq[i].sess = e.sess /\ busq[i].task = e.task)
      BY <2>1, <2>2, <2>7 DEF AccountsInv, SlotInv
    <3>3. busq' = Append(busq, e) /\ Follows(view, busq)'
      BY <2>1, <2>2, <2>4, <2>7, <3>1, <3>2, EmitFollowed DEF Adds
    <3>4. \A i \in 1 .. Len(busq') : busq'[i] = e \/ \E j \in 1 .. Len(busq) : busq'[i] = busq[j]
      <4>1. \A i \in 1 .. Len(busq') :
              i = Len(busq) + 1 \/ (i \in 1 .. Len(busq) /\ busq'[i] = busq[i])
        BY <3>3 DEF TypeOK
      <4>2. busq'[Len(busq) + 1] = e
        BY <3>3 DEF TypeOK
      <4> QED  BY <4>1, <4>2
    <3>5. \A i \in 1 .. Len(busq) : busq[i].type # "dispatched"
      BY <2>1, <2>7, NoneDispatched
    <3>6. loop' # "claiming" /\ loop' # "closed"
      BY <2>1, <2>7 DEF AccountsInv, SlotInv
    <3>7. SlotInv'
      BY <2>1, <2>2, <2>3, <2>6, <2>7, <3>4, <3>5, <3>6 DEF AccountsInv, SlotInv
    <3> QED  BY <2>5, <3>3, <3>7 DEF AccountsInv
  <2>8. CASE mode # "up"
    <3>1. SlotInv'
      BY <2>1, <2>3, <2>6, <2>8 DEF AccountsInv, SlotInv
    <3> QED  BY <2>1, <2>5, <2>8, <3>1 DEF AccountsInv
  <2> QED  BY <2>7, <2>8
<1>2. CASE RunStep
  <2>1. /\ mode = "up" /\ DispatchApplied /\ UNCHANGED <<owner, view, mode, loop, destroying>>
        /\ slot.phase \in {"running", "backoff", "inspecting"}
    BY <1>2 DEF RunStep, RunCompletes, RunInspected, RunFails, RunRateLimited, BackoffEnds, Running,
                Up, unchangedByRun
  <2>2. subscribed'
    BY <2>1 DEF Subscribed
  <2>3. ASSUME NEW type \in {"failed", "deferred"}, slot.phase \in {"running", "backoff"},
               Finish(type)
        PROVE  AccountsInv'
    BY <2>1, <2>2, <2>3, AccountsFinish
  <2>4. ASSUME NEW type \in {"completed", "retrying"}, slot.phase \in {"running", "backoff"},
               Emit(Event(type, slot.sess, slot.task)),
               /\ slot'.sess = slot.sess /\ slot'.task = slot.task
               /\ slot'.phase = IF type = "completed" THEN "inspecting" ELSE "backoff"
        PROVE  AccountsInv'
    <3>1. /\ PlacesInv' /\ Follows(view, busq)'
          /\ \A i \in 1 .. Len(busq') : busq'[i].type # "dispatched"
          /\ type = "retrying" => logged'.running[slot.sess] = slot.task
      BY <2>1, <2>2, <2>4, RunEmits
    <3>2. loop # "claiming" /\ loop # "closed"
      BY <2>1, <2>4 DEF AccountsInv, SlotInv
    <3>3. SlotInv'
      BY <2>1, <2>4, <3>1, <3>2 DEF AccountsInv, SlotInv
    <3> QED  BY <3>1, <3>3 DEF AccountsInv
  <2>5. CASE RunCompletes
    <3>1. /\ slot.phase = "running" /\ slot' = [slot EXCEPT !.phase = "inspecting"]
          /\ Emit(Event("completed", slot.sess, slot.task))
      BY <2>5 DEF RunCompletes, Running
    <3> QED  BY <2>4, <3>1, TakenSlot DEF TypeOK
  <2>6. CASE RunInspected
    <3>1. /\ slot.phase = "inspecting" /\ Claim("run", view)
          /\ UNCHANGED <<logged, status, busq>>
      BY <2>6 DEF RunInspected, Running, busVars
    <3>2. \A i \in 1 .. Len(busq) : busq[i].type # "dispatched"
      BY <2>1, <3>1, NoneDispatched
    <3>3. Follows(view, busq)' /\ PlacesInv' /\ view \in View /\ Follows(view, busq)
      BY <2>1, <3>1, FollowsSame, PlacesSame DEF AccountsInv, TypeOK
    <3>4. \/ slot'.phase = "free"
          \/ /\ slot'.phase = "claiming" /\ slot'.task \in Waiting(logged, slot'.sess)
             /\ \A i \in 1 .. Len(busq) :
                  Adds(busq[i]) => ~(slot'.sess = busq[i].sess /\ slot'.task = busq[i].task)
      BY <3>1, <3>2, <3>3, ClaimFits
    <3>5. SlotInv'
      BY <2>1, <3>1, <3>2, <3>4 DEF AccountsInv, SlotInv, Waiting, Adds
    <3> QED  BY <3>3, <3>5 DEF AccountsInv
  <2>7. CASE RunFails
    BY <2>3, <2>7 DEF RunFails, Running
  <2>8. CASE RunRateLimited
    <3>1. slot.phase = "running"
      BY <2>8 DEF RunRateLimited, Running
    <3>2. CASE Finish("deferred") \/ Finish("failed")
      BY <2>3, <3>1, <3>2
    <3>3. CASE /\ Emit(Event("retrying", slot.sess, slot.task))
               /\ slot' = [slot EXCEPT !.phase = "backoff", !.attempt = @ + 1]
      BY <2>4, <3>1, <3>3, TakenSlot DEF TypeOK
    <3> QED  BY <2>8, <3>2, <3>3 DEF RunRateLimited
  <2>9. CASE BackoffEnds
    <3>1. slot.phase = "backoff"
      BY <2>9 DEF BackoffEnds, Running
    <3>2. CASE Finish("deferred")
      BY <2>3, <3>1, <3>2
    <3>3. CASE /\ slot' = [slot EXCEPT !.phase = "running"]
               /\ UNCHANGED <<logged, status, busq>>
      <4>1. slot'.phase = "running" /\ slot'.sess = slot.sess /\ slot'.task = slot.task
        BY <3>1, <3>3, TakenSlot DEF TypeOK
      <4>2. Follows(view, busq)' /\ PlacesInv'
        BY <2>1, <3>3, FollowsSame, PlacesSame DEF AccountsInv
      <4>3. loop # "claiming" /\ \A i \in 1 .. Len(busq) : busq[i].type # "dispatched"
        BY <2>1, <3>1, NoneDispatched DEF AccountsInv, SlotInv
      <4>4. SlotInv'
        BY <2>1, <3>1, <3>3, <4>1, <4>3 DEF AccountsInv, SlotInv
      <4> QED  BY <4>2, <4>4 DEF AccountsInv
    <3> QED  BY <2>9, <3>2, <3>3 DEF BackoffEnds, busVars
  <2> QED  BY <1>2, <2>5, <2>6, <2>7, <2>8, <2>9 DEF RunStep
<1>3. CASE AgentOutput
  <2>1. /\ mode = "up" /\ Publish(OutputMark) /\ slot.phase = "running"
        /\ UNCHANGED <<logged, status, owner, mode, view, slot, loop, destroying>>
    BY <1>3 DEF AgentOutput, Up, unchangedByRun, claimVars
  <2>2. busq' = Append(busq, OutputMark)
    BY <2>1 DEF Publish, Subscribed, busVars
  <2>3. /\ Len(busq) \in Nat /\ Len(busq') = Len(busq) + 1 /\ busq'[Len(busq) + 1] = OutputMark
        /\ \A i \in 1 .. Len(busq) : busq'[i] = busq[i]
    BY <2>2 DEF TypeOK
  <2>4. \A i \in 1 .. Len(busq') :
          busq'[i] = OutputMark \/ (i \in 1 .. Len(busq) /\ busq'[i] = busq[i])
    BY <2>3
  <2>5. /\ ~Adds(OutputMark) /\ OutputMark.type # "dispatched" /\ OutputMark # CloseMark
    BY DEF Adds, OutputMark, CloseMark
  <2>6. SlotInv' /\ PlacesInv'
    BY <2>1, <2>4, <2>5, PlacesSame DEF AccountsInv, SlotInv, Waiting, Adds
  <2>7. Follows(view, busq)
    BY <2>1 DEF AccountsInv
  <2>8. \A i \in 1 .. Len(busq) : i \in 1 .. Len(busq')
    BY <2>3
  <2>9. Follows(view, busq')
    BY <2>3, <2>4, <2>5, <2>7, <2>8 DEF Follows, Trails
  <2>10. Follows(view, busq)'
    BY <2>1, <2>9 DEF Follows
  <2> QED  BY <2>6, <2>10 DEF AccountsInv
<1> QED  BY <1>1, <1>2, <1>3

LEMMA AccountsClient ==
  ASSUME TypeOK, AccountsInv, NothingCancels, Subscribed',
         ClientStep \/ DeleteCancels \/ DeleteEnds
  PROVE  AccountsInv'
<1>0. "cancel" \notin Ops /\ "delete" \notin Ops
  BY DEF NothingCancels
<1>1. CASE DeleteCancels \/ DeleteEnds
  <2>1. destroying = NotDestroying
    BY DEF AccountsInv, SlotInv
  <2> QED  BY <1>1, <2>1 DEF DeleteCancels, DeleteEnds, NotDestroying
<1>2. ASSUME NEW s \in Sessions, Enqueue(s)  PROVE AccountsInv'
  <2>1. PICK t \in Tasks :
          /\ status[t] = "absent" /\ owner' = [owner EXCEPT ![t] = s]
          /\ Emit(Event("queued", s, t))
    BY <1>2 DEF Enqueue
  <2>2. mode = "up" /\ UNCHANGED <<mode, view, loop, slot, destroying>>
    BY <1>2 DEF Enqueue, Up, unchangedByClient, claimVars
  <2> DEFINE e == Event("queued", s, t)
  <2>3. e \in TaskEvent /\ e.type = "queued" /\ e.sess = s /\ e.task = t /\ Emit(e)
    BY <2>1 DEF Event, TaskEvent, EventTypes
  <2> HIDE DEF e
  <2>4. Fits(e)
    BY <2>1, <2>3 DEF Fits
  <2>5. t \notin Waiting(view, s)
    <3> SUFFICES ASSUME t \in Waiting(view, s)  PROVE FALSE
      OBVIOUS
    <3>1. Follows(view, busq)
      BY <2>2 DEF AccountsInv
    <3>2. CASE t \in Waiting(logged, s)
      BY <2>1, <3>2 DEF AccountsInv, PlacesInv
    <3>3. CASE \E i \in 1 .. Len(busq) : busq[i] = Event("dispatched", s, t)
      <4>1. slot.phase = "running" /\ slot.sess = s /\ slot.task = t
        BY <2>2, <3>3 DEF AccountsInv, SlotInv, Event
      <4>2. logged.running[s] = t
        BY <4>1 DEF AccountsInv, SlotInv
      <4> QED  BY <2>1, <4>2 DEF AccountsInv, PlacesInv
    <3> QED  BY <3>1, <3>2, <3>3 DEF Follows, Trails
  <2>6. busq' = Append(busq, e) /\ Follows(view, busq)'
    BY <2>2, <2>3, <2>4, <2>5, EmitFollowed DEF Subscribed
  <2>7. PlacesInv'
    BY <2>3, <2>4, PlacesKept DEF AccountsInv
  <2>8. \A i \in 1 .. Len(busq') : busq'[i] = e \/ \E j \in 1 .. Len(busq) : busq'[i] = busq[j]
    <3>1. \A i \in 1 .. Len(busq') :
            i = Len(busq) + 1 \/ (i \in 1 .. Len(busq) /\ busq'[i] = busq[i])
      BY <2>6 DEF TypeOK
    <3>2. busq'[Len(busq) + 1] = e
      BY <2>6 DEF TypeOK
    <3> QED  BY <3>1, <3>2
  <2>9. slot.phase = "claiming" =>
          /\ slot.task \in Waiting(logged', slot.sess)
          /\ ~(slot.sess = s /\ slot.task = t)
    <3> SUFFICES ASSUME slot.phase = "claiming"
                 PROVE  /\ slot.task \in Waiting(logged', slot.sess)
                        /\ ~(slot.sess = s /\ slot.task = t)
      OBVIOUS
    <3>1. slot.sess \in Sessions /\ slot.task \in Tasks
      BY TakenSlot DEF TypeOK
    <3>2. slot.task \in Waiting(logged, slot.sess)
      BY DEF AccountsInv, SlotInv
    <3>3. status[slot.task] = "queued"
      BY <3>1, <3>2 DEF AccountsInv, PlacesInv
    <3> QED  BY <2>1, <2>3, <2>4, <3>1, <3>2, <3>3, FitMoves DEF AccountsInv
  <2>10. slot.phase \in {"running", "backoff"} => logged'.running[slot.sess] = slot.task
    <3>1. slot.phase # "free" => slot.sess \in Sessions
      BY TakenSlot DEF TypeOK
    <3> QED  BY <2>3, <2>4, <3>1, FitMoves DEF AccountsInv, SlotInv
  <2>11. SlotInv'
    BY <2>2, <2>3, <2>8, <2>9, <2>10 DEF AccountsInv, SlotInv
  <2> QED  BY <2>6, <2>7, <2>11 DEF AccountsInv
<1>3. CASE ClientStep
  <2>1. ASSUME NEW s \in Sessions,
               Trigger(s) \/ (\E p \in Policies : SetPolicy(s, p)) \/ ClearPolicy(s)
                 \/ (\E p \in 1 .. MaxPriority : SetPriority(s, p)) \/ SendMessage(s)
                 \/ MessageEnds(s) \/ FetchSession(s)
        PROVE  UNCHANGED <<logged, status, owner, mode, view, busq, slot, loop, destroying>>
    BY <2>1 DEF Trigger, SetPolicy, ClearPolicy, SetPriority, SendMessage, MessageEnds,
                FetchSession, logVars, busVars, claimVars, unchangedByClient
  <2>2. ASSUME NEW p \in Policies, SetDefaultPolicy(p)
        PROVE  UNCHANGED <<logged, status, owner, mode, view, busq, slot, loop, destroying>>
    BY <2>2 DEF SetDefaultPolicy, busVars, claimVars, unchangedByClient
  <2>3. ASSUME NEW s \in Sessions, DeleteBegins(s) \/ \E t \in Tasks : Cancel(s, t)  PROVE FALSE
    BY <1>0, <2>3 DEF DeleteBegins, Cancel
  <2> QED  BY <1>2, <1>3, <2>1, <2>2, <2>3, AccountsSame DEF ClientStep
<1> QED  BY <1>1, <1>3

LEMMA AccountsProcess ==
  ASSUME TypeOK, AccountsInv, InFlightInv, Stop \/ Crash \/ Restart \/ Toggle
  PROVE  AccountsInv'
<1>1. CASE Stop
  <2>1. /\ mode' = "stopping" /\ UNCHANGED <<logged, status, owner, destroying>>
        /\ \/ slot'.phase = "free"
           \/ slot'.phase = "abandoned"
           \/ slot' = slot
    BY <1>1, TakenSlot DEF Stop, logVars, FreeSlot, TypeOK
  <2>2. SlotInv' /\ PlacesInv'
    BY <2>1, PlacesSame DEF AccountsInv, SlotInv, Waiting
  <2> QED  BY <2>1, <2>2 DEF AccountsInv
<1>2. CASE Crash
  <2>1. /\ mode' = "down" /\ slot'.phase = "free" /\ destroying' = NotDestroying
        /\ UNCHANGED <<logged, status, owner>>
    BY <1>2 DEF Crash, logVars, FreeSlot
  <2>2. SlotInv' /\ PlacesInv'
    BY <2>1, PlacesSame DEF AccountsInv, SlotInv
  <2> QED  BY <2>1, <2>2 DEF AccountsInv
<1>3. CASE Restart
  <2> DEFINE orphaned == {s \in Pending(logged) : logged.running[s] # NoTask}
  <2>1. /\ mode = "down" /\ mode' = "up" /\ loop' = "starting" /\ busq' = <<>>
        /\ logged' = Recovered(logged, orphaned) /\ view' = logged'
        /\ status' = [t \in Tasks |-> IF \E s \in orphaned : logged.running[s] = t
                                      THEN "failed" ELSE status[t]]
        /\ UNCHANGED <<owner, slot, destroying>>
    BY <1>3 DEF Restart, claimVars
  <2>2. \A s \in Sessions : s \in orphaned <=> logged.running[s] # NoTask
    BY DEF Pending
  <2>3. orphaned \subseteq Sessions
    BY DEF Pending
  <2> HIDE DEF orphaned
  <2>4. /\ logged'.queued = logged.queued
        /\ \A s \in Sessions : logged'.running[s] = NoTask
    BY <2>1, <2>2 DEF Recovered, TypeOK, View
  <2>5. \A s \in Sessions : Waiting(logged', s) = Waiting(logged, s)
    BY <2>4 DEF Waiting
  <2>6. AllDistinct(logged')
    BY <2>4 DEF AccountsInv, PlacesInv, AllDistinct
  <2>7. ASSUME NEW t \in Tasks
        PROVE  status'[t] = IF status[t] = "dispatched" THEN "failed" ELSE status[t]
    <3>1. t # NoTask
      BY DEF Tasks, NoTask
    <3>2. status[t] = "dispatched" <=> \E s \in Sessions : logged.running[s] = t
      BY DEF AccountsInv, PlacesInv
    <3>3. status[t] = "dispatched" <=> \E s \in orphaned : logged.running[s] = t
      BY <2>2, <2>3, <3>1, <3>2
    <3> QED  BY <2>1, <3>3
  <2>8. PlacesInv'
    <3>1. \A t \in Tasks : t # NoTask
      BY DEF Tasks, NoTask
    <3> QED  BY <2>1, <2>4, <2>5, <2>6, <2>7, <3>1 DEF AccountsInv, PlacesInv
  <2>9. Len(busq') = 0
    BY <2>1
  <2>10. SlotInv'
    BY <2>1, <2>9 DEF AccountsInv, SlotInv
  <2>11. Follows(view, busq)'
    BY <2>1, <2>6, <2>9 DEF Follows, Trails
  <2> QED  BY <2>8, <2>10, <2>11 DEF AccountsInv
<1>4. CASE Toggle
  BY <1>4, AccountsSame DEF Toggle, logVars, busVars, claimVars
<1> QED  BY <1>1, <1>2, <1>3, <1>4

LEMMA AccountsInit == Init => AccountsInv
<1> SUFFICES ASSUME Init  PROVE AccountsInv
  OBVIOUS
<1>1. /\ AllDistinct(EmptyView) /\ \A s \in Sessions : Waiting(EmptyView, s) = {}
      /\ \A s \in Sessions : EmptyView.running[s] = NoTask
  BY DEF EmptyView, AllDistinct, Distinct, Waiting
<1>2. \A t \in Tasks : t # NoTask
  BY DEF Tasks, NoTask
<1>3. PlacesInv
  BY <1>1, <1>2 DEF Init, PlacesInv
<1>4. SlotInv /\ Follows(view, busq)
  BY <1>1 DEF Init, SlotInv, Follows, Trails, FreeSlot
<1> QED  BY <1>3, <1>4 DEF AccountsInv

LEMMA AccountsStep ==
  NothingCancels =>
    (TypeOK /\ InFlightInv /\ Subscribed /\ Subscribed' /\ AccountsInv /\ [Next]_vars => AccountsInv')
<1> SUFFICES ASSUME NothingCancels, TypeOK, InFlightInv, Subscribed, Subscribed', AccountsInv,
                    [Next]_vars
             PROVE  AccountsInv'
  OBVIOUS
<1>1. CASE UNCHANGED vars
  BY <1>1, AccountsSame DEF vars, logVars, busVars, claimVars
<1> QED  BY <1>1, AccountsLoop, AccountsRun, AccountsClient, AccountsProcess DEF Next

(* The invariant, for a process that cancels nothing and keeps its         *)
(* subscription.                                                           *)
LEMMA AccountsAlways ==
  ASSUME NothingCancels
  PROVE  Spec /\ []Subscribed => []AccountsInv
<1>1. TypeOK /\ InFlightInv /\ Subscribed /\ Subscribed' /\ AccountsInv /\ [Next]_vars => AccountsInv'
  BY AccountsStep
<1> QED  BY <1>1, AccountsInit, TypeCorrect, InFlightCorrect, PTL DEF Spec

LEMMA OnePlace ==
  ASSUME NEW v \in View, AllDistinct(v), NEW t \in Tasks, NEW s \in Sessions, t \in Waiting(v, s),
         \A r \in Sessions : t \in Waiting(v, r) => r = s
  PROVE  Cardinality(Places(v, t)) = 1
<1>1. \A r \in Sessions : DOMAIN v.queued[r] = 1 .. Len(v.queued[r])
  BY DEF View
<1>2. PICK i \in 1 .. Len(v.queued[s]) : v.queued[s][i] = t
  BY DEF Waiting
<1>3. ASSUME NEW p \in Places(v, t)  PROVE p = <<s, i>>
  <2>1. PICK r \in Sessions : p \in {r} \X {j \in DOMAIN v.queued[r] : v.queued[r][j] = t}
    BY DEF Places
  <2>2. PICK j \in 1 .. Len(v.queued[r]) : p = <<r, j>> /\ v.queued[r][j] = t
    BY <1>1, <2>1
  <2>3. r = s
    BY <2>2 DEF Waiting
  <2>4. j = i
    BY <1>2, <2>2, <2>3 DEF AllDistinct, Distinct
  <2> QED  BY <2>2, <2>3, <2>4
<1>4. <<s, i>> \in Places(v, t)
  <2>1. <<s, i>> \in {s} \X {j \in DOMAIN v.queued[s] : v.queued[s][j] = t}
    BY <1>1, <1>2
  <2> QED  BY <2>1 DEF Places
<1>5. Places(v, t) = {<<s, i>>}
  BY <1>3, <1>4
<1> QED  BY <1>5, FS_Singleton

LEMMA NoPlace ==
  ASSUME NEW v \in View, NEW t \in Tasks, \A s \in Sessions : t \notin Waiting(v, s)
  PROVE  Cardinality(Places(v, t)) = 0
<1>1. \A r \in Sessions : DOMAIN v.queued[r] = 1 .. Len(v.queued[r])
  BY DEF View
<1>2. \A r \in Sessions : {j \in DOMAIN v.queued[r] : v.queued[r][j] = t} = {}
  BY <1>1 DEF Waiting
<1>3. Places(v, t) = {}
  BY <1>2 DEF Places
<1> QED  BY <1>3, FS_EmptySet

(* While nothing is cancelled and the subscription lasts, a replay resumes *)
(* exactly the tasks the log leaves waiting or running: no defer, crash or *)
(* recovery loses a task, doubles it or brings it back.                    *)
THEOREM LogKeepsAccounts ==
  ASSUME NothingCancels
  PROVE  Spec /\ []Subscribed => []LogAccountsForTasks
<1>1. TypeOK /\ AccountsInv => LogAccountsForTasks
  <2> SUFFICES ASSUME TypeOK, AccountsInv, NEW t \in Tasks
               PROVE  /\ Cardinality(Places(logged, t)) = (IF status[t] = "queued" THEN 1 ELSE 0)
                      /\ status[t] = "dispatched" <=> \E s \in Sessions : logged.running[s] = t
    BY DEF LogAccountsForTasks
  <2>1. logged \in View /\ PlacesInv
    BY DEF TypeOK, AccountsInv
  <2>2. CASE status[t] = "queued"
    <3>1. owner[t] \in Sessions /\ AllDistinct(logged)
      BY <2>1, <2>2 DEF PlacesInv
    <3>2. t \in Waiting(logged, owner[t])
      BY <2>1, <2>2, <3>1 DEF PlacesInv
    <3>3. \A r \in Sessions : t \in Waiting(logged, r) => r = owner[t]
      BY <2>1 DEF PlacesInv
    <3>4. Cardinality(Places(logged, t)) = 1
      BY <2>1, <3>1, <3>2, <3>3, OnePlace
    <3> QED  BY <2>1, <2>2, <3>4 DEF PlacesInv
  <2>3. CASE status[t] # "queued"
    <3>1. \A r \in Sessions : t \notin Waiting(logged, r)
      BY <2>1, <2>3 DEF PlacesInv
    <3>2. Cardinality(Places(logged, t)) = 0
      BY <2>1, <3>1, NoPlace
    <3> QED  BY <2>1, <2>3, <3>2 DEF PlacesInv
  <2> QED  BY <2>2, <2>3
<1> QED  BY <1>1, AccountsAlways, TypeCorrect, PTL

-----------------------------------------------------------------------------
(* The dispatcher implements the lifecycle of tasks.                       *)

LEMMA StepFits ==
  ASSUME TypeOK, AccountsInv, InFlightInv, NothingCancels, Next
  PROVE  \/ UNCHANGED status
         \/ \E e \in TaskEvent : Emit(e) /\ Fits(e)
         \/ Restart
<1>1. CASE Dispatch \/ RunStep
  <2>1. slot.phase # "free" /\ UNCHANGED owner
    BY <1>1 DEF Dispatch, RunStep, RunCompletes, RunInspected, RunFails, RunRateLimited,
                BackoffEnds, Running, unchangedByRun
  <2>2. slot.sess \in Sessions /\ slot.task \in Tasks
    BY <2>1, TakenSlot DEF TypeOK
  <2>3. ASSUME NEW type \in {"completed", "failed", "deferred", "retrying"},
               slot.phase \in {"running", "backoff"}, Emit(Event(type, slot.sess, slot.task))
        PROVE  \E e \in TaskEvent : Emit(e) /\ Fits(e)
    <3> DEFINE e == Event(type, slot.sess, slot.task)
    <3>1. e \in TaskEvent /\ e.type = type /\ e.sess = slot.sess /\ e.task = slot.task /\ Emit(e)
      BY <2>2, <2>3 DEF Event, TaskEvent, EventTypes, TerminalTypes
    <3> HIDE DEF e
    <3>2. Fits(e)
      BY <2>1, <2>3, <3>1 DEF Fits, AccountsInv, SlotInv
    <3> QED  BY <3>1, <3>2
  <2>4. CASE Dispatch
    <3> DEFINE e == Event("dispatched", slot.sess, slot.task)
    <3>1. /\ e \in TaskEvent /\ e.type = "dispatched" /\ e.sess = slot.sess /\ e.task = slot.task
          /\ Emit(e) /\ slot.phase = "claiming"
      BY <2>2, <2>4 DEF Dispatch, Event, TaskEvent, EventTypes
    <3> HIDE DEF e
    <3>2. Fits(e)
      BY <2>1, <3>1 DEF Fits, AccountsInv, SlotInv, InFlightInv, NoRunBeforeDispatch, NothingInFlight
    <3> QED  BY <3>1, <3>2
  <2>5. CASE RunCompletes
    BY <2>3, <2>5 DEF RunCompletes, Running
  <2>6. CASE RunInspected
    BY <2>6 DEF RunInspected
  <2>7. CASE RunFails
    BY <2>3, <2>7 DEF RunFails, Finish, Running
  <2>8. CASE RunRateLimited
    BY <2>3, <2>8 DEF RunRateLimited, Finish, Running
  <2>9. CASE BackoffEnds
    BY <2>3, <2>9 DEF BackoffEnds, Finish, Running
  <2> QED  BY <1>1, <2>4, <2>5, <2>6, <2>7, <2>8, <2>9 DEF RunStep
<1>2. CASE ClientStep \/ DeleteCancels \/ DeleteEnds
  <2>1. ~DeleteCancels
    BY DEF DeleteCancels, NotDestroying, AccountsInv, SlotInv
  <2>2. ASSUME NEW s \in Sessions, Enqueue(s)  PROVE \E e \in TaskEvent : Emit(e) /\ Fits(e)
    <3>1. PICK t \in Tasks :
            /\ status[t] = "absent" /\ owner' = [owner EXCEPT ![t] = s]
            /\ Emit(Event("queued", s, t))
      BY <2>2 DEF Enqueue
    <3> DEFINE e == Event("queued", s, t)
    <3>2. e \in TaskEvent /\ e.type = "queued" /\ e.sess = s /\ e.task = t /\ Emit(e)
      BY <3>1 DEF Event, TaskEvent, EventTypes
    <3> HIDE DEF e
    <3>3. Fits(e)
      BY <3>1, <3>2 DEF Fits
    <3> QED  BY <3>2, <3>3
  <2>3. ASSUME NEW s \in Sessions, NEW t \in Tasks, Cancel(s, t)  PROVE FALSE
    BY <2>3 DEF Cancel, NothingCancels
  <2> QED
    BY <1>2, <2>1, <2>2, <2>3 DEF ClientStep, Trigger, SetPolicy, ClearPolicy, SetDefaultPolicy,
       SetPriority, SendMessage, MessageEnds, FetchSession, DeleteBegins, DeleteEnds, logVars
<1>3. CASE LoopStep \/ Tick \/ AgentOutput \/ Stop \/ Crash \/ Toggle
  BY <1>3 DEF LoopStep, LoopStart, LoopApply, LoopClosed, Tick, AgentOutput, Stop, Crash, Toggle,
              logVars
<1> QED  BY <1>1, <1>2, <1>3 DEF Next

LEMMA StepMaps ==
  ASSUME TypeOK, AccountsInv, InFlightInv, NothingCancels, Next
  PROVE  Lifecycle!Next \/ UNCHANGED status
<1>0. /\ status \in [Tasks -> Statuses] /\ PlacesInv
      /\ \A t \in Tasks : t # NoTask
  BY DEF TypeOK, AccountsInv, Tasks, NoTask
<1>1. ASSUME NEW t \in Tasks, NEW from, NEW to, status[t] = from,
             status' = [status EXCEPT ![t] = to]
      PROVE  Lifecycle!Move(t, from, to)
  BY <1>1 DEF Lifecycle!Move
<1>2. ASSUME NEW e \in TaskEvent, Emit(e), Fits(e)
      PROVE  Lifecycle!Next \/ UNCHANGED status
  <2>1. e.task \in Tasks /\ e.sess \in Sessions /\ e.type \in EventTypes /\ status' = StatusAfter(e)
    BY <1>2 DEF TaskEvent, Emit
  <2>2. CASE e.type = "queued"
    <3>1. Lifecycle!Queue(e.task)
      BY <1>1, <1>2, <2>1, <2>2 DEF Fits, StatusAfter, TerminalTypes, Lifecycle!Queue
    <3> QED  BY <2>1, <3>1 DEF Lifecycle!Next
  <2>3. CASE e.type = "dispatched"
    <3>1. status[e.task] = "queued" /\ status' = [status EXCEPT ![e.task] = "dispatched"]
      BY <1>0, <1>2, <2>1, <2>3 DEF Fits, StatusAfter, TerminalTypes, PlacesInv
    <3>2. \A t \in Tasks : status[t] # "dispatched"
      BY <1>0, <1>2, <2>3 DEF Fits, NothingInFlight, PlacesInv
    <3>3. Lifecycle!Dispatch(e.task)
      BY <1>1, <2>1, <3>1, <3>2 DEF Lifecycle!Dispatch, Lifecycle!Dispatched
    <3> QED  BY <2>1, <3>3 DEF Lifecycle!Next
  <2>4. CASE e.type \in {"deferred", "completed", "failed"}
    <3>1. status[e.task] = "dispatched"
      BY <1>0, <1>2, <2>1, <2>4 DEF Fits, PlacesInv
    <3>2. CASE e.type = "deferred"
      <4>1. Lifecycle!Defer(e.task)
        BY <1>1, <2>1, <3>1, <3>2 DEF StatusAfter, TerminalTypes, Lifecycle!Defer
      <4> QED  BY <2>1, <4>1 DEF Lifecycle!Next
    <3>3. CASE e.type \in {"completed", "failed"}
      <4>1. Lifecycle!Move(e.task, "dispatched", e.type)
        BY <1>1, <2>1, <3>1, <3>3 DEF StatusAfter, TerminalTypes
      <4> QED  BY <2>1, <3>3, <4>1 DEF Lifecycle!Next, Lifecycle!End
    <3> QED  BY <2>4, <3>2, <3>3
  <2>5. CASE e.type = "retrying"
    BY <2>1, <2>5 DEF StatusAfter, TerminalTypes
  <2> QED  BY <1>2, <2>1, <2>2, <2>3, <2>4, <2>5 DEF Fits, EventTypes, TerminalTypes
<1>3. CASE Restart
  <2> DEFINE orphaned == {s \in Pending(logged) : logged.running[s] # NoTask}
  <2>1. status' = [t \in Tasks |-> IF \E s \in orphaned : logged.running[s] = t
                                   THEN "failed" ELSE status[t]]
    BY <1>3 DEF Restart
  <2>2. \A s : s \in orphaned <=> s \in Sessions /\ logged.running[s] # NoTask
    BY DEF Pending
  <2> HIDE DEF orphaned
  <2>3. \A t \in Tasks : (\E s \in orphaned : logged.running[s] = t) <=> status[t] = "dispatched"
    BY <1>0, <2>2 DEF PlacesInv
  <2>4. \A t, u \in Tasks : status[t] = "dispatched" /\ status[u] = "dispatched" => t = u
    <3> SUFFICES ASSUME NEW t \in Tasks, NEW u \in Tasks,
                        status[t] = "dispatched", status[u] = "dispatched"
                 PROVE  t = u
      OBVIOUS
    <3>1. /\ owner[t] \in Sessions /\ logged.running[owner[t]] = t
          /\ owner[u] \in Sessions /\ logged.running[owner[u]] = u
      BY <1>0 DEF PlacesInv
    <3> QED  BY <1>0, <3>1 DEF InFlightInv, LogHasOneInFlight
  <2>5. CASE \E t \in Tasks : status[t] = "dispatched"
    <3>1. PICK t \in Tasks : status[t] = "dispatched"
      BY <2>5
    <3>2. status' = [status EXCEPT ![t] = "failed"]
      <4>1. \A u \in Tasks : (\E s \in orphaned : logged.running[s] = u) <=> u = t
        BY <2>3, <2>4, <3>1
      <4>2. \A u \in Tasks : status'[u] = IF u = t THEN "failed" ELSE status[u]
        BY <2>1, <4>1
      <4>3. DOMAIN status' = Tasks
        BY <2>1
      <4> QED  BY <1>0, <2>1, <4>2, <4>3
    <3>3. Lifecycle!End(t)
      BY <1>1, <3>1, <3>2 DEF Lifecycle!End
    <3> QED  BY <3>3 DEF Lifecycle!Next
  <2>6. CASE ~ \E t \in Tasks : status[t] = "dispatched"
    <3>1. status' = status
      BY <1>0, <2>1, <2>3, <2>6
    <3> QED  BY <3>1
  <2> QED  BY <2>5, <2>6
<1> QED  BY <1>2, <1>3, StepFits

(* While nothing is cancelled and the subscription lasts, every step of    *)
(* the dispatcher is a step or a stutter of the abstract lifecycle.        *)
THEOREM DispatcherImplementsLifecycle ==
  ASSUME NothingCancels
  PROVE  Spec /\ []Subscribed => ImplementsLifecycle
<1>1. Init => Lifecycle!Init
  BY DEF Init, Lifecycle!Init
<1>2. TypeOK /\ AccountsInv /\ InFlightInv /\ [Next]_vars => [Lifecycle!Next]_status
  <2> SUFFICES ASSUME TypeOK, AccountsInv, InFlightInv, [Next]_vars
               PROVE  Lifecycle!Next \/ UNCHANGED status
    OBVIOUS
  <2>1. CASE UNCHANGED vars
    BY <2>1 DEF vars, logVars
  <2> QED  BY <2>1, StepMaps
<1> QED
  BY <1>1, <1>2, AccountsAlways, TypeCorrect, InFlightCorrect, PTL
     DEF Spec, ImplementsLifecycle, Lifecycle!Spec

-----------------------------------------------------------------------------
(* What ended is not run again.  Cancellations reach a task that is being  *)
(* claimed or is running, so its events can follow its end; the invariant  *)
(* therefore says of each task where its events are, not what its status   *)
(* is alone.                                                               *)

Known(ow, st, t, s) == ow[t] = s /\ st[t] # "absent"
KnownAs(t, s) == Known(owner, status, t, s)

Unended == {"queued", "cancelled"}

(* What a replay of the log leaves waiting or running, the log calls so.   *)
LogFits ==
  /\ AllDistinct(logged)
  /\ \A s \in Sessions :
       /\ \A t \in Waiting(logged, s) : status[t] = "queued" /\ owner[t] = s
       /\ logged.running[s] # NoTask =>
            status[logged.running[s]] = "dispatched" /\ owner[logged.running[s]] = s

(* Whatever names a task names its session.                                *)
OwnersFit ==
  /\ \A s \in Sessions : \A t \in Waiting(view, s) : KnownAs(t, s)
  /\ \A i \in 1 .. Len(busq) : busq[i].type \in EventTypes => KnownAs(busq[i].task, busq[i].sess)
  /\ slot.phase # "free" => KnownAs(slot.task, slot.sess)
  /\ destroying # NotDestroying =>
       \A i \in 1 .. Len(destroying.todo) : KnownAs(destroying.todo[i], destroying.sess)

(* The events q will add to v tasks that it lacks, each once.              *)
AddsOnce(v, q, st) ==
  /\ AllDistinct(v)
  /\ \A i \in 1 .. Len(q) : Adds(q[i]) =>
       /\ q[i].task \notin Waiting(v, q[i].sess)
       /\ st[q[i].task] = "queued"
       /\ \A j \in 1 .. Len(q) : Adds(q[j]) /\ q[j].task = q[i].task => i = j
  /\ \A i \in 1 .. Len(q) : q[i] # CloseMark

(* The dispatch of the task that x runs is still in q.                     *)
Pends(q, x) ==
  x.phase = "running" /\ \E i \in 1 .. Len(q) : q[i] = Event("dispatched", x.sess, x.task)

(* The slot x holds a task that the projection no longer has waiting, or   *)
(* will not once it has applied q; what it has waiting otherwise has not   *)
(* run to an end.                                                          *)
Holds(v, q, st, x) ==
  /\ x.phase \in {"free", "claiming", "running", "backoff", "inspecting"}
  /\ x.phase = "claiming" => st[x.task] \in Unended
  /\ x.phase # "free" => \A i \in 1 .. Len(q) : Adds(q[i]) => x.task # q[i].task
  /\ \A s \in Sessions : \A t \in Waiting(v, s) :
       st[t] \in Unended \/ (x.task = t /\ Pends(q, x))
  /\ x.phase \in {"running", "backoff", "inspecting"} =>
       x.task \notin Waiting(v, x.sess) \/ Pends(q, x)

SubscriptionFits ==
  /\ mode = "up" /\ loop # "closed"
  /\ loop = "claiming" => slot.phase = "claiming" /\ slot.by = "loop"
  /\ AddsOnce(view, busq, status) /\ Holds(view, busq, status, slot)
  /\ destroying # NotDestroying =>
       \A i \in 1 .. Len(destroying.todo) : destroying.todo[i] \in Waiting(view, destroying.sess)

RerunInv ==
  /\ LogFits /\ OwnersFit
  /\ slot.phase \in {"running", "backoff"} => status[slot.task] \in {"dispatched", "cancelled"}
  /\ mode = "down" => slot.phase = "free" /\ destroying = NotDestroying
  /\ subscribed => SubscriptionFits

(* An event the process may log.                                           *)
Logs(e) ==
  /\ Emit(e)
  /\ e.type = "queued" => status[e.task] = "absent" /\ owner' = [owner EXCEPT ![e.task] = e.sess]
  /\ e.type # "queued" => owner' = owner /\ KnownAs(e.task, e.sess)
  /\ e.type = "deferred" => status[e.task] # "queued"

LEMMA LogsStatus ==
  ASSUME TypeOK, NEW e \in TaskEvent, Logs(e)
  PROVE  /\ e.sess \in Sessions /\ e.task \in Tasks /\ e.type \in EventTypes
         /\ \A t \in Tasks \ {e.task} : status'[t] = status[t] /\ owner'[t] = owner[t]
         /\ owner'[e.task] = e.sess
         /\ status'[e.task] = IF Adds(e) THEN "queued"
                            ELSE IF e.type = "retrying" THEN status[e.task] ELSE e.type
         /\ \A t \in Tasks : \A s : KnownAs(t, s) => Known(owner', status', t, s)
<1>1. /\ e.sess \in Sessions /\ e.task \in Tasks /\ e.type \in EventTypes
      /\ status \in [Tasks -> Statuses] /\ owner \in [Tasks -> Sessions \cup {"none"}]
      /\ status' = StatusAfter(e)
  BY DEF TaskEvent, TypeOK, Logs, Emit
<1>2. \A t \in Tasks \ {e.task} : status'[t] = status[t] /\ owner'[t] = owner[t]
  BY <1>1 DEF StatusAfter, Logs, EventTypes, TerminalTypes
<1>3. owner'[e.task] = e.sess
  BY <1>1 DEF Logs, Known, KnownAs
<1>4. status'[e.task] = IF Adds(e) THEN "queued"
                            ELSE IF e.type = "retrying" THEN status[e.task] ELSE e.type
  BY <1>1 DEF StatusAfter, Adds, EventTypes, TerminalTypes
<1>5. ASSUME NEW t \in Tasks, NEW s, KnownAs(t, s)  PROVE Known(owner', status', t, s)
  <2>1. CASE t # e.task
    BY <1>2, <1>5, <2>1 DEF Known, KnownAs
  <2>2. CASE t = e.task
    <3>1. status'[t] # "absent"
      BY <1>1, <1>4, <1>5, <2>2 DEF Known, KnownAs, Adds, EventTypes, TerminalTypes
    <3>2. owner'[t] = s
      BY <1>3, <1>5, <2>2 DEF Logs, Known, KnownAs
    <3> QED  BY <3>1, <3>2 DEF Known, KnownAs
  <2> QED  BY <2>1, <2>2
<1> QED  BY <1>1, <1>2, <1>3, <1>4, <1>5

LEMMA LogKept ==
  ASSUME TypeOK, LogFits, NEW e \in TaskEvent, Logs(e)
  PROVE  LogFits'
<1>1. /\ e.sess \in Sessions /\ e.task \in Tasks /\ e.type \in EventTypes
      /\ \A t \in Tasks \ {e.task} : status'[t] = status[t] /\ owner'[t] = owner[t]
      /\ owner'[e.task] = e.sess
      /\ status'[e.task] = IF Adds(e) THEN "queued"
                            ELSE IF e.type = "retrying" THEN status[e.task] ELSE e.type
  BY LogsStatus
<1>2. logged \in View /\ logged' = Apply(logged, e) /\ AllDistinct(logged)
  BY DEF TypeOK, Logs, Emit, LogFits
<1>3. Adds(e) => e.task \notin Waiting(logged, e.sess)
  BY <1>1 DEF Adds, Logs, LogFits
<1>4. /\ AllDistinct(logged')
      /\ \A s \in Sessions, t \in Tasks :
           t \in Waiting(logged', s) <=>
             \/ t \in Waiting(logged, s) /\ ~(Leaves(logged, e) /\ s = e.sess /\ t = e.task)
             \/ Enters(logged, e) /\ s = e.sess /\ t = e.task
      /\ \A s \in Sessions :
           logged'.running[s] =
             IF s = e.sess /\ e.type = "dispatched" /\ e.task \in Waiting(logged, s) THEN e.task
             ELSE IF s = e.sess /\ Ends(logged, e) THEN NoTask
             ELSE logged.running[s]
  BY <1>2, <1>3, EventMoves
<1>5. logged' \in View
  BY TypeInductive, <1>2, ApplyType
<1>6. ASSUME NEW s \in Sessions, NEW t \in Waiting(logged', s)
      PROVE  status'[t] = "queued" /\ owner'[t] = s
  <2>0. t \in Tasks
    BY <1>5 DEF Waiting, View
  <2>1. CASE Enters(logged, e) /\ s = e.sess /\ t = e.task
    BY <1>1, <2>1 DEF Enters, Adds
  <2>2. CASE t \in Waiting(logged, s) /\ ~(Leaves(logged, e) /\ s = e.sess /\ t = e.task)
    <3>1. status[t] = "queued" /\ owner[t] = s
      BY <2>2 DEF LogFits
    <3>2. CASE t # e.task
      BY <1>1, <2>0, <3>1, <3>2
    <3>3. CASE t = e.task
      <4>1. s = e.sess
        BY <3>1, <3>3 DEF Logs, Known, KnownAs
      <4>2. e.type = "retrying" \/ Adds(e) \/ (e.type \in TerminalTypes /\ logged.running[s] = t)
        BY <1>1, <2>2, <3>3, <4>1 DEF Leaves, Adds, EventTypes
      <4>3. ~(e.type \in TerminalTypes /\ logged.running[s] = t)
        BY <2>0, <3>1 DEF LogFits, NoTask, Tasks
      <4> QED  BY <1>1, <3>1, <3>3, <4>1, <4>2, <4>3
    <3> QED  BY <3>2, <3>3
  <2> QED  BY <1>4, <2>0, <2>1, <2>2
<1>7. ASSUME NEW s \in Sessions, logged'.running[s] # NoTask
      PROVE  status'[logged'.running[s]] = "dispatched" /\ owner'[logged'.running[s]] = s
  <2>1. CASE s = e.sess /\ e.type = "dispatched" /\ e.task \in Waiting(logged, s)
    BY <1>1, <1>4, <2>1 DEF Adds
  <2>2. CASE ~(s = e.sess /\ e.type = "dispatched" /\ e.task \in Waiting(logged, s))
    <3> DEFINE r == logged.running[s]
    <3>1. logged'.running[s] = r /\ ~(s = e.sess /\ Ends(logged, e)) /\ r # NoTask
      BY <1>4, <1>7, <2>2
    <3>2. r \in Tasks /\ status[r] = "dispatched" /\ owner[r] = s
      BY <1>2, <3>1 DEF View, LogFits
    <3>3. CASE r # e.task
      BY <1>1, <3>1, <3>2, <3>3
    <3>4. CASE r = e.task
      <4>1. s = e.sess /\ e.type # "queued"
        BY <3>2, <3>4 DEF Logs, Known, KnownAs
      <4>2. e.type = "retrying" \/ e.type = "dispatched"
        BY <1>1, <3>1, <3>4, <4>1 DEF Ends, EventTypes
      <4> QED  BY <1>1, <3>1, <3>2, <3>4, <4>1, <4>2 DEF Adds
    <3> QED  BY <3>3, <3>4
  <2> QED  BY <2>1, <2>2
<1> QED  BY <1>4, <1>6, <1>7 DEF LogFits

(* An event of the bus, applied to a projection: a task that waits after   *)
(* it waited before or is the one it adds.                                 *)
LEMMA WaitingSource ==
  ASSUME NEW v \in View, NEW e \in TaskEvent, NEW s \in Sessions,
         NEW t \in Waiting(Apply(v, e), s)
  PROVE  t \in Waiting(v, s) \/ (Adds(e) /\ s = e.sess /\ t = e.task)
<1>0. /\ e.sess \in Sessions /\ e.task \in Tasks /\ e.type \in EventTypes
      /\ v.queued[s] \in Seq(Tasks) /\ v.queued[e.sess] \in Seq(Tasks)
      /\ v.queued \in [Sessions -> Seq(Tasks)]
  BY DEF TaskEvent, View
<1> DEFINE q == Apply(v, e).queued[s]
<1>1. \/ q = v.queued[s]
      \/ s = e.sess /\ Adds(e) /\ q = Append(v.queued[s], e.task)
      \/ s = e.sess /\ q = Without(v.queued[s], e.task)
      \/ s = e.sess /\ Adds(e) /\ q = <<e.task>> \o v.queued[s]
  BY <1>0 DEF Apply, OnQueued, OnDispatched, OnRetrying, OnDeferred, OnTerminal, View, EventTypes,
              TerminalTypes, Adds
<1>2. PICK i \in 1 .. Len(q) : t = q[i]
  BY DEF Waiting
<1> HIDE DEF q
<1>3. CASE q = v.queued[s]
  BY <1>2, <1>3 DEF Waiting
<1>4. CASE s = e.sess /\ Adds(e) /\ q = Append(v.queued[s], e.task)
  BY <1>0, <1>2, <1>4 DEF Waiting
<1>5. CASE q = Without(v.queued[s], e.task)
  BY <1>0, <1>2, <1>5, WithoutAdds DEF Waiting
<1>6. CASE s = e.sess /\ Adds(e) /\ q = <<e.task>> \o v.queued[s]
  <2>1. i = 1 => t = e.task
    BY <1>0, <1>2, <1>6
  <2>2. i # 1 => i - 1 \in 1 .. Len(v.queued[s]) /\ t = v.queued[s][i - 1]
    BY <1>0, <1>2, <1>6
  <2> QED  BY <1>6, <2>1, <2>2 DEF Waiting
<1> QED  BY <1>1, <1>3, <1>4, <1>5, <1>6

(* A claim from a projection whose waiting tasks have not run to an end.   *)
LEMMA ClaimHolds ==
  ASSUME NEW v \in View, NEW q, NEW st, NEW caller, Claim(caller, v), AddsOnce(v, q, st),
         \A s \in Sessions : \A t \in Waiting(v, s) : st[t] \in Unended /\ owner[t] = s,
         \A i \in 1 .. Len(q) : Adds(q[i]) => owner[q[i].task] = q[i].sess
  PROVE  /\ Holds(v, q, st, slot')
         /\ slot'.phase = "free" \/ (slot'.phase = "claiming" /\ slot'.by = caller)
         /\ slot'.phase # "free" =>
              slot'.sess \in Sessions /\ slot'.task \in Waiting(v, slot'.sess)
<1>1. \/ slot'.phase = "free"
      \/ /\ slot'.phase = "claiming" /\ slot'.by = caller
         /\ slot'.sess \in Sessions /\ slot'.task \in Waiting(v, slot'.sess)
  BY ClaimTakes
<1>2. ASSUME slot'.phase # "free", NEW i \in 1 .. Len(q), Adds(q[i])  PROVE slot'.task # q[i].task
  BY <1>1, <1>2 DEF AddsOnce
<1> QED  BY <1>1, <1>2 DEF Holds

(* Publishing one more event that adds a task at most once.                *)
LEMMA PublishAdds ==
  ASSUME busq \in Seq(BusEvents), NEW v, NEW st, NEW st2, NEW e \in BusEvents, e # CloseMark,
         AddsOnce(v, busq, st), busq' = Append(busq, e),
         \A i \in 1 .. Len(busq) : Adds(busq[i]) => st2[busq[i].task] = st[busq[i].task],
         Adds(e) => /\ e.task \notin Waiting(v, e.sess) /\ st2[e.task] = "queued"
                    /\ \A i \in 1 .. Len(busq) : Adds(busq[i]) => busq[i].task # e.task
  PROVE  AddsOnce(v, busq', st2)
<1> DEFINE n == Len(busq)
<1>1. n \in Nat /\ Len(busq') = n + 1 /\ busq'[n + 1] = e /\ \A i \in 1 .. n : busq'[i] = busq[i]
  OBVIOUS
<1>2. n = Len(busq)
  OBVIOUS
<1> HIDE DEF n
<1>3. \A i \in 1 .. Len(busq') : (i = n + 1 /\ busq'[i] = e) \/ (i \in 1 .. n /\ busq'[i] = busq[i])
  BY <1>1
<1>4. ASSUME NEW i \in 1 .. Len(busq'), Adds(busq'[i])
      PROVE  /\ busq'[i].task \notin Waiting(v, busq'[i].sess)
             /\ st2[busq'[i].task] = "queued"
             /\ \A j \in 1 .. Len(busq') : Adds(busq'[j]) /\ busq'[j].task = busq'[i].task => i = j
  BY <1>2, <1>3, <1>4 DEF AddsOnce
<1>5. \A i \in 1 .. Len(busq') : busq'[i] # CloseMark
  BY <1>2, <1>3 DEF AddsOnce
<1> QED  BY <1>4, <1>5 DEF AddsOnce

(* The loop applies its first event: what q still adds is added once, and  *)
(* nothing else comes to wait.                                             *)
LEMMA ApplyAdds ==
  ASSUME busq \in Seq(BusEvents), busq # <<>>, NEW v \in View, NEW st, AddsOnce(v, busq, st)
  PROVE  LET e == Head(busq)
             w == Apply(v, e)
         IN /\ AddsOnce(w, Tail(busq), st)
            /\ \A s \in Sessions : \A t \in Waiting(w, s) :
                 \/ t \in Waiting(v, s) /\ e # Event("dispatched", s, t)
                 \/ e \in TaskEvent /\ Adds(e) /\ s = e.sess /\ t = e.task
<1> DEFINE n == Len(busq)
           e == Head(busq)
           w == Apply(v, e)
<1>1. /\ n \in Nat \ {0} /\ Len(Tail(busq)) = n - 1 /\ e = busq[1]
      /\ \A i \in 1 .. n - 1 : Tail(busq)[i] = busq[i + 1]
      /\ e \in BusEvents /\ 1 \in 1 .. n
  OBVIOUS
<1>2. \A i \in 1 .. n - 1 : i + 1 \in 1 .. n /\ i + 1 # 1
  BY <1>1
<1>3. n = Len(busq)
  OBVIOUS
<1>4. /\ AllDistinct(w)
      /\ \A s \in Sessions : \A t \in Waiting(w, s) :
           \/ t \in Waiting(v, s) /\ e # Event("dispatched", s, t)
           \/ e \in TaskEvent /\ Adds(e) /\ s = e.sess /\ t = e.task
  <2>1. CASE e = OutputMark
    <3>1. w = v
      BY <1>1, <2>1, ApplyBus
    <3>2. \A s, t : e # Event("dispatched", s, t)
      BY <2>1 DEF OutputMark, Event
    <3> QED  BY <3>1, <3>2 DEF AddsOnce
  <2>2. CASE e \in TaskEvent
    <3>1. Adds(e) => e.task \notin Waiting(v, e.sess)
      BY <1>1 DEF AddsOnce
    <3>2. w \in View
      BY <2>2, ApplyType
    <3>3. \A s \in Sessions : \A t \in Waiting(w, s) : t \in Tasks
      BY <3>2 DEF Waiting, View
    <3>4. \A s, t : e = Event("dispatched", s, t) => Leaves(v, e) /\ s = e.sess /\ t = e.task
      BY DEF Event, Leaves
    <3>5. Enters(v, e) => Adds(e)
      BY DEF Enters, Adds
    <3> HIDE DEF w, e
    <3>6. /\ AllDistinct(w)
          /\ \A s \in Sessions, t \in Tasks :
               t \in Waiting(w, s) <=>
                 \/ t \in Waiting(v, s) /\ ~(Leaves(v, e) /\ s = e.sess /\ t = e.task)
                 \/ Enters(v, e) /\ s = e.sess /\ t = e.task
      BY <2>2, <3>1, EventMoves DEF w, AddsOnce
    <3> QED  BY <2>2, <3>3, <3>4, <3>5, <3>6
  <2>3. e # CloseMark
    BY <1>1 DEF AddsOnce
  <2> QED  BY <1>1, <2>1, <2>2, <2>3 DEF BusEvents
<1> HIDE DEF n, e, w
<1>5. ASSUME NEW i \in 1 .. n - 1, Adds(Tail(busq)[i])
      PROVE  /\ Tail(busq)[i].task \notin Waiting(w, Tail(busq)[i].sess)
             /\ st[Tail(busq)[i].task] = "queued"
             /\ \A j \in 1 .. n - 1 :
                  Adds(Tail(busq)[j]) /\ Tail(busq)[j].task = Tail(busq)[i].task => i = j
  <2> DEFINE f == busq[i + 1]
  <2>1. Tail(busq)[i] = f /\ Adds(f) /\ i + 1 \in 1 .. n /\ i + 1 # 1
    BY <1>1, <1>2, <1>5
  <2>2. f.sess \in Sessions
    <3>1. f \in BusEvents
      BY <1>3, <2>1
    <3> QED  BY <2>1, <3>1 DEF BusEvents, CloseMark, OutputMark, Adds, TaskEvent
  <2> HIDE DEF f
  <2>3. /\ f.task \notin Waiting(v, f.sess) /\ st[f.task] = "queued"
        /\ \A j \in 1 .. n : Adds(busq[j]) /\ busq[j].task = f.task => i + 1 = j
    BY <1>3, <2>1 DEF AddsOnce, f
  <2>4. ~(Adds(e) /\ e.task = f.task)
    BY <1>1, <2>1, <2>3
  <2>5. f.task \notin Waiting(w, f.sess)
    BY <1>4, <2>2, <2>3, <2>4
  <2>6. ASSUME NEW j \in 1 .. n - 1, Adds(Tail(busq)[j]), Tail(busq)[j].task = f.task
        PROVE  i = j
    <3>1. i + 1 = j + 1
      BY <1>1, <1>2, <2>3, <2>6
    <3> QED  BY <1>1, <3>1
  <2> QED  BY <2>1, <2>3, <2>5, <2>6
<1>6. \A i \in 1 .. n - 1 : Tail(busq)[i] # CloseMark
  BY <1>1, <1>2, <1>3 DEF AddsOnce
<1>7. AddsOnce(w, Tail(busq), st)
  BY <1>1, <1>4, <1>5, <1>6 DEF AddsOnce
<1> QED  BY <1>4, <1>7 DEF w, e

(* Applying it keeps the slot right.                                       *)
LEMMA ApplyHolds ==
  ASSUME TypeOK, OwnersFit, busq # <<>>, AddsOnce(view, busq, status),
         Holds(view, busq, status, slot)
  PROVE  Holds(Apply(view, Head(busq)), Tail(busq), status, slot)
<1> DEFINE n == Len(busq)
           e == Head(busq)
           w == Apply(view, e)
           q == Tail(busq)
<1>1. /\ n \in Nat \ {0} /\ Len(q) = n - 1 /\ e = busq[1]
      /\ \A i \in 1 .. n - 1 : q[i] = busq[i + 1]
      /\ busq \in Seq(BusEvents) /\ view \in View /\ 1 \in 1 .. n
  BY DEF TypeOK, BusEvents
<1>2. \A s \in Sessions : \A t \in Waiting(w, s) :
        \/ t \in Waiting(view, s) /\ e # Event("dispatched", s, t)
        \/ e \in TaskEvent /\ Adds(e) /\ s = e.sess /\ t = e.task
  BY <1>1, ApplyAdds
<1>3. n = Len(busq)
  OBVIOUS
<1> HIDE DEF n, e, w, q
<1>4. \A i \in 1 .. n - 1 : i + 1 \in 1 .. n
  BY <1>1
<1>5. Pends(busq, slot) => Pends(q, slot) \/ e = Event("dispatched", slot.sess, slot.task)
  <2> SUFFICES ASSUME Pends(busq, slot), e # Event("dispatched", slot.sess, slot.task)
               PROVE  Pends(q, slot)
    OBVIOUS
  <2>1. PICK i \in 1 .. n : busq[i] = Event("dispatched", slot.sess, slot.task)
    BY <1>3 DEF Pends
  <2>2. i # 1
    BY <1>1, <2>1
  <2>3. i - 1 \in 1 .. n - 1 /\ i - 1 + 1 = i
    BY <1>1, <2>2
  <2>4. i - 1 \in 1 .. Len(q) /\ q[i - 1] = Event("dispatched", slot.sess, slot.task)
    BY <1>1, <2>1, <2>3
  <2> QED  BY <2>4 DEF Pends
<1>6. Adds(e) => status[e.task] = "queued" /\ (slot.phase # "free" => slot.task # e.task)
  BY <1>1, <1>3 DEF AddsOnce, Holds
<1>7. slot.phase # "free" => slot.sess \in Sessions /\ slot.task \in Tasks
  BY TakenSlot DEF TypeOK
<1>8. slot.phase # "free" => \A i \in 1 .. Len(q) : Adds(q[i]) => slot.task # q[i].task
  BY <1>1, <1>3, <1>4 DEF Holds
<1>9. ASSUME NEW s \in Sessions, NEW t \in Waiting(w, s)
      PROVE  status[t] \in Unended \/ (slot.task = t /\ Pends(q, slot))
  <2>1. CASE t \in Waiting(view, s) /\ e # Event("dispatched", s, t)
    <3>1. CASE slot.task = t /\ Pends(busq, slot)
      <4>1. slot.sess = s
        BY <2>1, <3>1 DEF OwnersFit, Known, KnownAs, Pends
      <4> QED  BY <1>5, <2>1, <3>1, <4>1
    <3> QED  BY <2>1, <3>1 DEF Holds
  <2>2. CASE Adds(e) /\ t = e.task
    BY <1>6, <2>2 DEF Unended
  <2> QED  BY <1>2, <2>1, <2>2
<1>10. ASSUME slot.phase \in {"running", "backoff", "inspecting"}
       PROVE  slot.task \notin Waiting(w, slot.sess) \/ Pends(q, slot)
  <2>1. CASE slot.task \notin Waiting(view, slot.sess)
    BY <1>2, <1>6, <1>7, <1>10, <2>1
  <2>2. CASE Pends(busq, slot)
    <3>1. CASE e = Event("dispatched", slot.sess, slot.task)
      BY <1>2, <1>6, <1>7, <1>10, <3>1
    <3> QED  BY <1>5, <2>2, <3>1
  <2> QED  BY <1>10, <2>1, <2>2 DEF Holds
<1> QED  BY <1>8, <1>9, <1>10 DEF Holds, w, e, q

(* What an event of the log leaves known.                                  *)
LEMMA OwnersEmit ==
  ASSUME TypeOK, OwnersFit, NEW e \in TaskEvent, Logs(e)
  PROVE  /\ \A s \in Sessions : \A t \in Waiting(view, s) : Known(owner', status', t, s)
         /\ \A i \in 1 .. Len(busq') :
              busq'[i].type \in EventTypes => Known(owner', status', busq'[i].task, busq'[i].sess)
         /\ slot.phase # "free" => Known(owner', status', slot.task, slot.sess)
         /\ Known(owner', status', e.task, e.sess)
<1>1. \A t \in Tasks : \A s : KnownAs(t, s) => Known(owner', status', t, s)
  BY LogsStatus
<1>2. \A s \in Sessions : \A t \in Waiting(view, s) : t \in Tasks
  BY DEF Waiting, TypeOK, View
<1>3. slot.phase # "free" => slot.task \in Tasks
  BY TakenSlot DEF TypeOK
<1>4. Known(owner', status', e.task, e.sess)
  <2>1. owner'[e.task] = e.sess /\ e.task \in Tasks
    BY LogsStatus
  <2>2. status'[e.task] # "absent"
    <3>1. CASE e.type = "retrying"
      <4>1. KnownAs(e.task, e.sess)
        BY <3>1 DEF Logs
      <4> QED  BY <1>1, <2>1, <4>1 DEF Known, KnownAs
    <3>2. CASE e.type # "retrying"
      <4>1. e.type \in EventTypes
        BY LogsStatus
      <4>2. status'[e.task] = IF Adds(e) THEN "queued" ELSE e.type
        BY <3>2, LogsStatus
      <4> QED  BY <4>1, <4>2 DEF EventTypes, TerminalTypes
    <3> QED  BY <3>1, <3>2
  <2> QED  BY <2>1, <2>2 DEF Known, KnownAs
<1>5. ASSUME NEW i \in 1 .. Len(busq), busq[i].type \in EventTypes  PROVE busq[i].task \in Tasks
  <2>1. busq[i] \in BusEvents
    BY DEF TypeOK, BusEvents
  <2> QED  BY <1>5, <2>1 DEF BusEvents, CloseMark, OutputMark, EventTypes, TerminalTypes, TaskEvent
<1>6. ASSUME NEW i \in 1 .. Len(busq'), busq'[i].type \in EventTypes
      PROVE  Known(owner', status', busq'[i].task, busq'[i].sess)
  <2>1. busq'[i] \in {e, CloseMark} \/ (i \in 1 .. Len(busq) /\ busq'[i] = busq[i])
    <3>1. busq' \in {busq, Append(busq, e), Append(busq, CloseMark)}
      BY DEF Logs, Emit, Publish, busVars
    <3>2. busq \in Seq(BusEvents)
      BY DEF TypeOK, BusEvents
    <3> QED  BY <3>1, <3>2
  <2>2. busq'[i] # CloseMark
    BY <1>6 DEF CloseMark, EventTypes, TerminalTypes
  <2> QED  BY <1>1, <1>4, <1>5, <1>6, <2>1, <2>2 DEF OwnersFit, Known, KnownAs
<1> QED  BY <1>1, <1>2, <1>3, <1>4, <1>6 DEF OwnersFit

(* What it leaves of the subscription, while that lasts.                   *)
LEMMA EmitAdds ==
  ASSUME TypeOK, subscribed', SubscriptionFits, NEW e \in TaskEvent, Logs(e),
         Adds(e) => e.task \notin Waiting(view, e.sess),
         \A i \in 1 .. Len(busq) : Adds(busq[i]) => busq[i].task # e.task
  PROVE  /\ busq' = Append(busq, e)
         /\ AddsOnce(view, busq', status')
         /\ \A x : Pends(busq, x) => Pends(busq', x)
         /\ \A i \in 1 .. Len(busq') : Adds(busq'[i]) =>
              (Adds(e) /\ busq'[i] = e) \/ \E j \in 1 .. Len(busq) : busq'[i] = busq[j]
<1>1. busq' = Append(busq, e)
  BY DEF Logs, Emit, Publish, busVars
<1>2. \A i \in 1 .. Len(busq) : Adds(busq[i]) => busq[i].task \in Tasks
  BY BusTask DEF TaskEvent
<1>3. e \in BusEvents /\ e # CloseMark /\ busq \in Seq(BusEvents)
  BY DEF BusEvents, TypeOK, TaskEvent, CloseMark, EventTypes, TerminalTypes
<1>4. AddsOnce(view, busq, status)
  BY DEF SubscriptionFits
<1>5. \A i \in 1 .. Len(busq) : Adds(busq[i]) => status'[busq[i].task] = status[busq[i].task]
  BY <1>2, LogsStatus
<1>6. Adds(e) => status'[e.task] = "queued"
  BY LogsStatus
<1>7. AddsOnce(view, busq', status')
  BY <1>1, <1>3, <1>4, <1>5, <1>6, PublishAdds
<1>8. /\ \A i \in 1 .. Len(busq) : i \in 1 .. Len(busq') /\ busq'[i] = busq[i]
      /\ \A i \in 1 .. Len(busq') : busq'[i] = e \/ (i \in 1 .. Len(busq) /\ busq'[i] = busq[i])
  BY <1>1, <1>3
<1>9. ASSUME NEW x, Pends(busq, x)  PROVE Pends(busq', x)
  BY <1>8, <1>9 DEF Pends
<1> QED  BY <1>1, <1>7, <1>8, <1>9

-----------------------------------------------------------------------------

LEMMA RerunLoop ==
  ASSUME TypeOK, RerunInv, LoopStep \/ Tick
  PROVE  RerunInv'
<1>1. /\ mode = "up" /\ destroying = NotDestroying
      /\ UNCHANGED <<logged, status, owner, mode, destroying, subscribed>>
  BY DEF LoopStep, LoopStart, LoopApply, LoopClosed, Tick, Up, logVars, busVars
<1>2. LogFits'
  BY <1>1 DEF RerunInv, LogFits, AllDistinct, Distinct, Waiting
<1>3. view \in View /\ OwnersFit /\ busq \in Seq(BusEvents)
  BY DEF RerunInv, TypeOK, BusEvents
<1>4. ASSUME NEW v \in View, NEW q, v = view', q = busq',
             \A s \in Sessions : \A t \in Waiting(v, s) : KnownAs(t, s),
             \A i \in 1 .. Len(q) : \E j \in 1 .. Len(busq) : q[i] = busq[j],
             subscribed => AddsOnce(v, q, status) /\ Holds(v, q, status, slot),
             \/ UNCHANGED <<slot, loop>>
             \/ slot.phase # "free" /\ UNCHANGED slot /\ loop' = "idle"
             \/ slot.phase = "free" /\ Claim("loop", v) /\ LoopAfterClaim
             \/ slot.phase = "free" /\ Claim("tick", v) /\ UNCHANGED loop
      PROVE  RerunInv'
  <2>1. \A i \in 1 .. Len(q) : q[i].type \in EventTypes => KnownAs(q[i].task, q[i].sess)
    BY <1>3, <1>4 DEF OwnersFit
  <2>2. CASE UNCHANGED slot /\ loop' \in {loop, "idle"}
    <3>1. OwnersFit'
      BY <1>1, <1>3, <1>4, <2>1, <2>2 DEF OwnersFit, Known, KnownAs
    <3>2. subscribed => SubscriptionFits'
      BY <1>1, <1>4, <2>2 DEF RerunInv, SubscriptionFits
    <3> QED  BY <1>1, <1>2, <2>2, <3>1, <3>2 DEF RerunInv
  <2>3. CASE slot.phase = "free" /\ \E caller : Claim(caller, v)
    <3>1. PICK caller : Claim(caller, v)
      BY <2>3
    <3>2. \/ slot'.phase = "free"
          \/ /\ slot'.phase = "claiming"
             /\ slot'.sess \in Sessions /\ slot'.task \in Waiting(v, slot'.sess)
      BY <3>1, ClaimTakes
    <3>3. OwnersFit'
      BY <1>1, <1>4, <2>1, <3>2 DEF OwnersFit, Known, KnownAs
    <3>4. ASSUME subscribed  PROVE SubscriptionFits'
      <4>1. AddsOnce(v, q, status) /\ loop # "closed" /\ loop # "claiming"
        BY <1>4, <2>3, <3>4 DEF RerunInv, SubscriptionFits
      <4>2. \A s \in Sessions : \A t \in Waiting(v, s) : status[t] \in Unended /\ owner[t] = s
        BY <1>4, <2>3, <3>4 DEF Holds, Pends, Known, KnownAs
      <4>3. \A i \in 1 .. Len(q) : Adds(q[i]) => owner[q[i].task] = q[i].sess
        BY <2>1 DEF Adds, EventTypes, Known, KnownAs
      <4>4. Holds(v, q, status, slot')
        BY <3>1, <4>1, <4>2, <4>3, ClaimHolds
      <4>5. /\ loop' # "closed"
            /\ loop' = "claiming" => slot'.phase = "claiming" /\ slot'.by = "loop"
        <5>1. CASE UNCHANGED loop
          BY <4>1, <5>1
        <5>2. CASE Claim("loop", v) /\ LoopAfterClaim
          BY <5>2, ClaimTakes DEF LoopAfterClaim
        <5>3. CASE slot.phase # "free"
          BY <2>3, <5>3
        <5> QED  BY <1>4, <5>1, <5>2, <5>3
      <4> QED  BY <1>1, <1>4, <4>1, <4>4, <4>5 DEF SubscriptionFits
    <3> QED  BY <1>1, <1>2, <3>2, <3>3, <3>4 DEF RerunInv
  <2> QED  BY <1>4, <2>2, <2>3
<1>5. CASE LoopStart \/ Tick
  <2>1. UNCHANGED <<view, busq>>
    BY <1>5 DEF LoopStart, Tick, busVars
  <2>2. \/ slot.phase # "free" /\ UNCHANGED slot /\ loop' = "idle"
        \/ slot.phase = "free" /\ Claim("loop", view) /\ LoopAfterClaim
        \/ slot.phase = "free" /\ Claim("tick", view) /\ UNCHANGED loop
    BY <1>5 DEF LoopStart, Tick, MaybeDispatchInLoop, claimVars
  <2>3. subscribed => AddsOnce(view, busq, status) /\ Holds(view, busq, status, slot)
    BY DEF RerunInv, SubscriptionFits
  <2> QED  BY <1>3, <1>4, <2>1, <2>2, <2>3 DEF OwnersFit
<1>6. CASE LoopApply
  <2> DEFINE v == Apply(view, Head(busq))
             q == Tail(busq)
  <2>1. /\ busq # <<>> /\ view' = v /\ busq' = q /\ Head(busq) # CloseMark
        /\ UNCHANGED <<slot, loop>> \/ MaybeDispatchInLoop(v)
    BY <1>6 DEF LoopApply, claimVars
  <2>2. Head(busq) \in BusEvents /\ v \in View
    <3>1. Head(busq) \in BusEvents
      BY <1>3, <2>1
    <3> QED  BY <1>3, <3>1, ApplyBus
  <2>3. subscribed => AddsOnce(v, q, status) /\ Holds(v, q, status, slot)
    BY <1>3, <2>1, ApplyAdds, ApplyHolds DEF RerunInv, SubscriptionFits
  <2>4. \A i \in 1 .. Len(q) : \E j \in 1 .. Len(busq) : q[i] = busq[j]
    <3>1. /\ Len(busq) \in Nat \ {0} /\ Len(q) = Len(busq) - 1
          /\ \A i \in 1 .. Len(busq) - 1 : q[i] = busq[i + 1]
      BY <2>1 DEF TypeOK
    <3> HIDE DEF q
    <3>2. \A i \in 1 .. Len(busq) - 1 : i + 1 \in 1 .. Len(busq)
      BY <3>1
    <3> QED  BY <3>1, <3>2
  <2>5. ASSUME NEW s \in Sessions, NEW t \in Waiting(v, s)  PROVE KnownAs(t, s)
    <3>1. CASE Head(busq) \in TaskEvent
      <4>1. t \in Waiting(view, s)
              \/ (Adds(Head(busq)) /\ s = Head(busq).sess /\ t = Head(busq).task)
        BY <1>3, <3>1, WaitingSource
      <4>2. 1 \in 1 .. Len(busq) /\ Head(busq) = busq[1]
        BY <1>3, <2>1
      <4>3. KnownAs(Head(busq).task, Head(busq).sess)
        BY <1>3, <3>1, <4>2 DEF OwnersFit, TaskEvent
      <4> QED  BY <1>3, <4>1, <4>3 DEF OwnersFit
    <3>2. CASE Head(busq) = OutputMark
      <4>1. v = view
        BY <1>3, <2>2, <3>2, ApplyBus
      <4> QED  BY <1>3, <4>1 DEF OwnersFit
    <3> QED  BY <2>1, <2>2, <3>1, <3>2 DEF BusEvents
  <2> HIDE DEF v, q
  <2>6. \/ UNCHANGED <<slot, loop>>
        \/ slot.phase # "free" /\ UNCHANGED slot /\ loop' = "idle"
        \/ slot.phase = "free" /\ Claim("loop", v) /\ LoopAfterClaim
    BY <2>1 DEF MaybeDispatchInLoop, claimVars
  <2> QED  BY <1>4, <2>1, <2>2, <2>3, <2>4, <2>5, <2>6
<1>7. CASE LoopClosed
  <2>1. /\ 1 \in 1 .. Len(busq) /\ busq[1] = CloseMark /\ busq' = Tail(busq)
        /\ UNCHANGED <<view, slot>>
    BY <1>7 DEF LoopClosed, TypeOK, claimVars
  <2>2. ~subscribed
    BY <2>1 DEF RerunInv, SubscriptionFits, AddsOnce
  <2>3. \A i \in 1 .. Len(Tail(busq)) : i + 1 \in 1 .. Len(busq) /\ Tail(busq)[i] = busq[i + 1]
    BY <1>3, <2>1
  <2>4. OwnersFit'
    BY <1>1, <1>3, <2>1, <2>3 DEF OwnersFit, Known, KnownAs
  <2> QED  BY <1>1, <1>2, <2>1, <2>2, <2>4 DEF RerunInv
<1> QED  BY <1>5, <1>6, <1>7 DEF LoopStep

(* A run whose dispatch the loop has applied no longer waits.              *)
LEMMA RunApplied ==
  ASSUME TypeOK, OwnersFit, SubscriptionFits, DispatchApplied,
         slot.phase \in {"running", "backoff", "inspecting"}
  PROVE  /\ ~Pends(busq, slot)
         /\ \A s \in Sessions : \A t \in Waiting(view, s) : t # slot.task /\ status[t] \in Unended
<1>1. ~Pends(busq, slot)
  BY DEF DispatchApplied, SubscriptionFits, Pends, TypeOK
<1>2. slot.task \notin Waiting(view, slot.sess)
  BY <1>1 DEF SubscriptionFits, Holds
<1>3. \A s \in Sessions : slot.task \in Waiting(view, s) => s = slot.sess
  BY DEF OwnersFit, Known, KnownAs
<1> QED  BY <1>1, <1>2, <1>3 DEF SubscriptionFits, Holds

(* What the run of a task, or its dispatch, logs.                          *)
LEMMA SlotLogs ==
  ASSUME TypeOK, RerunInv, NEW type \in EventTypes \ {"queued"},
         slot.phase # "free", type = "deferred" => slot.phase \in {"running", "backoff"},
         Emit(Event(type, slot.sess, slot.task)), UNCHANGED owner
  PROVE  LET e == Event(type, slot.sess, slot.task)
         IN /\ e \in TaskEvent /\ Logs(e)
            /\ e.type = type /\ e.sess = slot.sess /\ e.task = slot.task
<1> DEFINE e == Event(type, slot.sess, slot.task)
<1>1. slot.sess \in Sessions /\ slot.task \in Tasks
  BY TakenSlot DEF TypeOK
<1>2. e \in TaskEvent /\ e.type = type /\ e.sess = slot.sess /\ e.task = slot.task
  BY <1>1 DEF Event, TaskEvent
<1> HIDE DEF e
<1>3. KnownAs(slot.task, slot.sess)
  BY DEF RerunInv, OwnersFit
<1>4. Emit(e)
  BY DEF e
<1>5. Logs(e)
  BY <1>2, <1>3, <1>4 DEF Logs, RerunInv
<1> QED  BY <1>2, <1>5 DEF e

(* ... and what that leaves of the subscription.                           *)
LEMMA SlotAdds ==
  ASSUME TypeOK, RerunInv, subscribed', NEW type \in EventTypes \ {"queued"},
         slot.phase # "free", type = "deferred" => slot.phase \in {"running", "backoff"},
         slot.phase # "claiming" => DispatchApplied,
         Emit(Event(type, slot.sess, slot.task)), UNCHANGED owner
  PROVE  /\ subscribed /\ SubscriptionFits
         /\ busq' = Append(busq, Event(type, slot.sess, slot.task))
         /\ AddsOnce(view, busq', status')
         /\ \A i \in 1 .. Len(busq') : Adds(busq'[i]) =>
              type = "deferred" \/ slot.task # busq'[i].task
         /\ \A s \in Sessions : \A t \in Waiting(view, s) :
              (t = slot.task /\ slot.phase = "claiming") \/ status'[t] \in Unended
<1> DEFINE e == Event(type, slot.sess, slot.task)
<1>1. /\ e \in TaskEvent /\ Logs(e)
      /\ e.type = type /\ e.sess = slot.sess /\ e.task = slot.task
  BY SlotLogs
<1>2. subscribed /\ SubscriptionFits /\ OwnersFit
  BY DEF Emit, Publish, busVars, RerunInv
<1> HIDE DEF e
<1>3. \A i \in 1 .. Len(busq) : Adds(busq[i]) => busq[i].task # e.task
  BY <1>1, <1>2 DEF SubscriptionFits, Holds
<1>4. slot.phase # "claiming" =>
        \A s \in Sessions : \A t \in Waiting(view, s) : t # slot.task /\ status[t] \in Unended
  BY <1>2, RunApplied DEF SubscriptionFits, Holds
<1>5. Adds(e) => e.task \notin Waiting(view, e.sess)
  <2>1. slot.sess \in Sessions
    BY TakenSlot DEF TypeOK
  <2> QED  BY <1>1, <1>4, <2>1 DEF Adds
<1>6. /\ busq' = Append(busq, e)
      /\ AddsOnce(view, busq', status')
      /\ \A i \in 1 .. Len(busq') : Adds(busq'[i]) =>
           (Adds(e) /\ busq'[i] = e) \/ \E j \in 1 .. Len(busq) : busq'[i] = busq[j]
  BY <1>1, <1>2, <1>3, <1>5, EmitAdds
<1>7. \A i \in 1 .. Len(busq') : Adds(busq'[i]) => type = "deferred" \/ slot.task # busq'[i].task
  BY <1>1, <1>3, <1>6 DEF Adds
<1>8. ASSUME NEW s \in Sessions, NEW t \in Waiting(view, s),
             ~(t = slot.task /\ slot.phase = "claiming")
      PROVE  status'[t] \in Unended
  <2>1. t \in Tasks
    BY DEF Waiting, TypeOK, View
  <2>2. t # slot.task /\ status[t] \in Unended
    BY <1>2, <1>4, <1>8 DEF SubscriptionFits, Holds, Pends
  <2>3. status'[t] = status[t]
    BY <1>1, <2>1, <2>2, LogsStatus
  <2> QED  BY <2>2, <2>3
<1> QED  BY <1>2, <1>6, <1>7, <1>8 DEF e

(* The run logs an event, and the slot stays with its task.                *)
LEMMA RerunStays ==
  ASSUME TypeOK, RerunInv, mode = "up", slot.phase \in {"running", "backoff"}, DispatchApplied,
         NEW type \in {"completed", "retrying"}, NEW phase \in {"inspecting", "backoff"},
         type = "completed" => phase = "inspecting",
         Emit(Event(type, slot.sess, slot.task)),
         slot'.phase = phase, slot'.sess = slot.sess, slot'.task = slot.task,
         UNCHANGED <<owner, mode, view, loop, destroying>>, destroying = NotDestroying
  PROVE  RerunInv'
<1> DEFINE e == Event(type, slot.sess, slot.task)
<1>0. type \in EventTypes \ {"queued"}
  BY DEF EventTypes, TerminalTypes
<1>1. e \in TaskEvent /\ Logs(e) /\ e.type = type /\ e.sess = slot.sess /\ e.task = slot.task
  BY <1>0, SlotLogs
<1> HIDE DEF e
<1>2. LogFits'
  BY <1>1, LogKept DEF RerunInv
<1>3. OwnersFit'
  BY <1>1, OwnersEmit DEF RerunInv, OwnersFit, KnownAs
<1>4. slot'.phase = "backoff" => status'[slot'.task] \in {"dispatched", "cancelled"}
  BY <1>1, LogsStatus DEF RerunInv, Adds
<1>5. ASSUME subscribed'  PROVE SubscriptionFits'
  <2>1. /\ SubscriptionFits /\ subscribed /\ AddsOnce(view, busq', status')
        /\ \A i \in 1 .. Len(busq') : Adds(busq'[i]) => slot.task # busq'[i].task
        /\ \A s \in Sessions : \A t \in Waiting(view, s) : status'[t] \in Unended
    BY <1>0, <1>5, SlotAdds
  <2>2. slot.task \notin Waiting(view, slot.sess)
    <3>1. slot.sess \in Sessions
      BY TakenSlot DEF TypeOK
    <3> QED  BY <2>1, <3>1, RunApplied DEF RerunInv
  <2>3. Holds(view, busq', status', slot')
    BY <2>1, <2>2 DEF Holds
  <2>4. loop' # "closed" /\ loop' # "claiming"
    BY <2>1 DEF SubscriptionFits
  <2> QED  BY <2>1, <2>3, <2>4 DEF SubscriptionFits
<1> QED  BY <1>2, <1>3, <1>4, <1>5 DEF RerunInv

(* The run logs an event and frees the slot, which takes the next task.    *)
LEMMA RerunFinish ==
  ASSUME TypeOK, RerunInv, mode = "up", slot.phase \in {"running", "backoff"}, DispatchApplied,
         NEW type \in {"failed", "deferred"}, Finish(type),
         UNCHANGED <<owner, mode, view, loop, destroying>>, destroying = NotDestroying
  PROVE  RerunInv'
<1> DEFINE e == Event(type, slot.sess, slot.task)
<1>0. type \in EventTypes \ {"queued"}
  BY DEF EventTypes, TerminalTypes
<1>1. e \in TaskEvent /\ Logs(e) /\ e.type = type /\ e.sess = slot.sess /\ e.task = slot.task
  BY <1>0, SlotLogs DEF Finish
<1> HIDE DEF e
<1>2. LogFits'
  BY <1>1, LogKept DEF RerunInv
<1>3. \/ slot'.phase = "free"
      \/ slot'.phase = "claiming" /\ slot'.sess \in Sessions /\ slot'.task \in Waiting(view, slot'.sess)
  BY ClaimTakes DEF Finish, TypeOK
<1>4. /\ \A s \in Sessions : \A t \in Waiting(view, s) : Known(owner', status', t, s)
      /\ \A i \in 1 .. Len(busq') :
           busq'[i].type \in EventTypes => Known(owner', status', busq'[i].task, busq'[i].sess)
  BY <1>1, OwnersEmit DEF RerunInv
<1>5. OwnersFit'
  BY <1>3, <1>4 DEF OwnersFit, KnownAs
<1>6. ASSUME subscribed'  PROVE SubscriptionFits'
  <2>1. SubscriptionFits /\ subscribed /\ AddsOnce(view, busq', status')
    BY <1>0, <1>6, SlotAdds DEF Finish
  <2>2. \A s \in Sessions : \A t \in Waiting(view, s) : status'[t] \in Unended
    BY <1>0, <1>6, SlotAdds DEF Finish
  <2>3. \A s \in Sessions : \A t \in Waiting(view, s) : status'[t] \in Unended /\ owner[t] = s
    BY <1>4, <2>2 DEF Known
  <2>4. \A i \in 1 .. Len(busq') : Adds(busq'[i]) => owner[busq'[i].task] = busq'[i].sess
    BY <1>4 DEF Known, Adds, EventTypes
  <2>5. Holds(view, busq', status', slot')
    BY <2>1, <2>3, <2>4, ClaimHolds DEF Finish, TypeOK
  <2>6. loop' # "closed" /\ loop' # "claiming"
    BY <2>1 DEF SubscriptionFits
  <2> QED  BY <2>1, <2>5, <2>6 DEF SubscriptionFits
<1> QED  BY <1>2, <1>3, <1>5, <1>6 DEF RerunInv

LEMMA RerunDispatch ==
  ASSUME TypeOK, RerunInv, Dispatch
  PROVE  RerunInv'
<1> DEFINE e == Event("dispatched", slot.sess, slot.task)
<1>0. /\ slot.phase = "claiming" /\ Emit(e) /\ UNCHANGED <<mode, view, owner, destroying>>
      /\ slot' = [slot EXCEPT !.phase = "running"] /\ destroying = NotDestroying
      /\ loop' = IF slot.by = "loop" THEN "idle" ELSE loop
      /\ mode # "down"
  BY DEF Dispatch
<1>1. e \in TaskEvent /\ Logs(e) /\ e.type = "dispatched" /\ e.sess = slot.sess /\ e.task = slot.task
  BY <1>0, SlotLogs DEF EventTypes
<1> HIDE DEF e
<1>2. slot'.phase = "running" /\ slot'.sess = slot.sess /\ slot'.task = slot.task
  BY <1>0 DEF TypeOK, Slots, FreeSlot
<1>3. LogFits'
  BY <1>1, LogKept DEF RerunInv
<1>4. OwnersFit'
  BY <1>0, <1>1, <1>2, OwnersEmit DEF RerunInv, OwnersFit, KnownAs
<1>5. status'[slot.task] = "dispatched"
  BY <1>1, LogsStatus DEF Adds
<1>6. ASSUME subscribed'  PROVE SubscriptionFits'
  <2>1. /\ SubscriptionFits /\ busq' = Append(busq, e) /\ AddsOnce(view, busq', status')
        /\ \A i \in 1 .. Len(busq') : Adds(busq'[i]) => slot.task # busq'[i].task
        /\ \A s \in Sessions : \A t \in Waiting(view, s) : t = slot.task \/ status'[t] \in Unended
    BY <1>0, <1>6, SlotAdds DEF EventTypes, e
  <2>2. Len(busq) + 1 \in 1 .. Len(busq') /\ busq'[Len(busq) + 1] = e
    BY <2>1 DEF TypeOK
  <2>3. Pends(busq', slot')
    BY <1>2, <2>2 DEF Pends, e
  <2>4. Holds(view, busq', status', slot')
    BY <1>2, <2>1, <2>3 DEF Holds
  <2>5. loop' # "closed" /\ loop' # "claiming"
    BY <1>0, <2>1 DEF SubscriptionFits
  <2> QED  BY <1>0, <2>1, <2>4, <2>5 DEF SubscriptionFits
<1> QED  BY <1>0, <1>2, <1>3, <1>4, <1>5, <1>6 DEF RerunInv

LEMMA RerunRun ==
  ASSUME TypeOK, RerunInv, RunStep \/ AgentOutput
  PROVE  RerunInv'
<1>0. /\ mode = "up" /\ destroying = NotDestroying /\ slot.phase # "free"
      /\ UNCHANGED <<owner, mode, view, loop, destroying>>
  BY DEF RunStep, RunCompletes, RunInspected, RunFails, RunRateLimited, BackoffEnds, AgentOutput,
         Running, Up, unchangedByRun
<1>1. CASE RunCompletes
  <2>1. /\ slot.phase = "running" /\ DispatchApplied
        /\ Emit(Event("completed", slot.sess, slot.task))
        /\ slot' = [slot EXCEPT !.phase = "inspecting"]
    BY <1>1 DEF RunCompletes, Running
  <2>2. slot'.phase = "inspecting" /\ slot'.sess = slot.sess /\ slot'.task = slot.task
    BY <2>1 DEF TypeOK, Slots, FreeSlot
  <2> QED  BY <1>0, <2>1, <2>2, RerunStays
<1>2. ASSUME slot.phase \in {"running", "backoff"}, DispatchApplied,
             Finish("failed") \/ Finish("deferred")
      PROVE  RerunInv'
  BY <1>0, <1>2, RerunFinish
<1>3. ASSUME slot.phase = "running", DispatchApplied,
             Emit(Event("retrying", slot.sess, slot.task)),
             slot' = [slot EXCEPT !.phase = "backoff", !.attempt = @ + 1]
      PROVE  RerunInv'
  <2>1. slot'.phase = "backoff" /\ slot'.sess = slot.sess /\ slot'.task = slot.task
    BY <1>3 DEF TypeOK, Slots, FreeSlot
  <2> QED  BY <1>0, <1>3, <2>1, RerunStays
<1>4. RerunInv => LogFits /\ OwnersFit
  BY DEF RerunInv
<1>5. UNCHANGED <<logged, status>> => LogFits'
  BY <1>0, <1>4 DEF LogFits, AllDistinct, Distinct, Waiting
<1>6. CASE RunInspected
  <2>1. /\ slot.phase = "inspecting" /\ DispatchApplied /\ Claim("run", view)
        /\ UNCHANGED <<logged, status, busq, subscribed>>
    BY <1>6 DEF RunInspected, Running, busVars
  <2>2. \/ slot'.phase = "free"
        \/ slot'.phase = "claiming" /\ slot'.sess \in Sessions /\ slot'.task \in Waiting(view, slot'.sess)
    BY <2>1, ClaimTakes DEF TypeOK
  <2>3. OwnersFit'
    BY <1>0, <1>4, <2>1, <2>2 DEF OwnersFit, Known, KnownAs
  <2>4. ASSUME subscribed  PROVE SubscriptionFits'
    <3>1. SubscriptionFits
      BY <2>4 DEF RerunInv
    <3>2. \A s \in Sessions : \A t \in Waiting(view, s) : status[t] \in Unended
      BY <1>4, <2>1, <3>1, RunApplied
    <3>3. \A s \in Sessions : \A t \in Waiting(view, s) : status[t] \in Unended /\ owner[t] = s
      BY <1>4, <3>2 DEF OwnersFit, Known, KnownAs
    <3>4. \A i \in 1 .. Len(busq) : Adds(busq[i]) => owner[busq[i].task] = busq[i].sess
      BY <1>4 DEF OwnersFit, Known, KnownAs, Adds, EventTypes
    <3>5. AddsOnce(view, busq, status)
      BY <3>1 DEF SubscriptionFits
    <3>6. Holds(view, busq, status, slot')
      BY <2>1, <3>3, <3>4, <3>5, ClaimHolds DEF TypeOK
    <3> QED  BY <1>0, <2>1, <3>1, <3>6 DEF SubscriptionFits
  <2> QED  BY <1>0, <1>5, <2>1, <2>2, <2>3, <2>4 DEF RerunInv
<1>7. CASE slot.phase = "backoff" /\ DispatchApplied /\ slot' = [slot EXCEPT !.phase = "running"]
           /\ UNCHANGED <<logged, status, busq, subscribed>>
  <2>1. slot'.phase = "running" /\ slot'.sess = slot.sess /\ slot'.task = slot.task
    BY <1>7 DEF TypeOK, Slots, FreeSlot
  <2>2. OwnersFit'
    BY <1>0, <1>4, <1>7, <2>1 DEF OwnersFit, Known, KnownAs
  <2>3. ASSUME subscribed  PROVE SubscriptionFits'
    <3>1. SubscriptionFits
      BY <2>3 DEF RerunInv
    <3>2. ~Pends(busq, slot)
      BY <1>7 DEF Pends
    <3>3. Holds(view, busq, status, slot')
      BY <1>7, <2>1, <3>1, <3>2 DEF Holds, SubscriptionFits
    <3> QED  BY <1>0, <1>7, <3>1, <3>3 DEF SubscriptionFits
  <2>4. status'[slot'.task] \in {"dispatched", "cancelled"}
    BY <1>7, <2>1 DEF RerunInv
  <2> QED  BY <1>0, <1>5, <1>7, <2>2, <2>3, <2>4 DEF RerunInv
<1>8. CASE AgentOutput
  <2>1. Publish(OutputMark) /\ UNCHANGED <<logged, status, slot>>
    BY <1>8 DEF AgentOutput, claimVars
  <2>2. busq \in Seq(BusEvents) /\ OutputMark \in BusEvents /\ OutputMark # CloseMark
    BY DEF TypeOK, BusEvents, OutputMark, CloseMark
  <2>3. busq' \in {busq, Append(busq, OutputMark), Append(busq, CloseMark)}
    BY <2>1 DEF Publish, busVars
  <2>4. \A i \in 1 .. Len(busq') :
          busq'[i] \in {OutputMark, CloseMark} \/ (i \in 1 .. Len(busq) /\ busq'[i] = busq[i])
    BY <2>2, <2>3
  <2>5. \A i \in 1 .. Len(busq') :
          busq'[i].type \in EventTypes => KnownAs(busq'[i].task, busq'[i].sess)
    BY <1>4, <2>4 DEF OwnersFit, OutputMark, CloseMark, EventTypes, TerminalTypes
  <2>6. OwnersFit'
    BY <1>0, <1>4, <2>1, <2>5 DEF OwnersFit, Known, KnownAs
  <2>7. ASSUME subscribed'  PROVE SubscriptionFits'
    <3>1. subscribed /\ busq' = Append(busq, OutputMark)
      BY <2>1, <2>7 DEF Publish, busVars
    <3>2. SubscriptionFits
      BY <3>1 DEF RerunInv
    <3>3. ~Adds(OutputMark)
      BY DEF Adds, OutputMark
    <3>4. AddsOnce(view, busq', status)
      BY <2>2, <3>1, <3>2, <3>3, PublishAdds DEF SubscriptionFits
    <3>5. \A i \in 1 .. Len(busq) : i \in 1 .. Len(busq') /\ busq'[i] = busq[i]
      BY <2>2, <3>1
    <3>6. Pends(busq, slot) => Pends(busq', slot)
      BY <3>5 DEF Pends
    <3>7. slot.phase # "free" => \A i \in 1 .. Len(busq') : Adds(busq'[i]) => slot.task # busq'[i].task
      <4>1. \A i \in 1 .. Len(busq') : busq'[i] = OutputMark \/ (i \in 1 .. Len(busq) /\ busq'[i] = busq[i])
        BY <2>2, <3>1
      <4> QED  BY <3>2, <3>3, <4>1 DEF SubscriptionFits, Holds
    <3>8. Holds(view, busq', status, slot)
      BY <3>2, <3>6, <3>7 DEF SubscriptionFits, Holds
    <3> QED  BY <1>0, <2>1, <3>2, <3>4, <3>8 DEF SubscriptionFits
  <2> QED  BY <1>0, <1>5, <2>1, <2>6, <2>7 DEF RerunInv
<1>9. CASE RunFails
  BY <1>2, <1>9 DEF RunFails, Running
<1>10. CASE RunRateLimited
  BY <1>2, <1>3, <1>10 DEF RunRateLimited, Running
<1>11. CASE BackoffEnds
  BY <1>2, <1>7, <1>11 DEF BackoffEnds, Running, busVars
<1> QED  BY <1>1, <1>6, <1>8, <1>9, <1>10, <1>11 DEF RunStep

-----------------------------------------------------------------------------

LEMMA RerunSame ==
  RerunInv /\ UNCHANGED <<logged, status, owner, mode, view, busq, subscribed, slot, loop, destroying>>
    => RerunInv'
BY DEF RerunInv, LogFits, AllDistinct, Distinct, Waiting, OwnersFit, Known, KnownAs,
       SubscriptionFits, AddsOnce, Adds, Holds, Pends, Event

(* A client's event, of a task that waits or of a new one.                 *)
LEMMA RerunEmits ==
  ASSUME TypeOK, RerunInv, NEW s \in Sessions, NEW t \in Tasks, NEW type \in {"queued", "cancelled"},
         type = "queued" => status[t] = "absent" /\ owner' = [owner EXCEPT ![t] = s],
         type = "cancelled" => owner' = owner /\ KnownAs(t, s)
                               /\ (subscribed => t \in Waiting(view, s)),
         Emit(Event(type, s, t)), UNCHANGED <<mode, view, loop, slot>>, mode # "down",
         destroying' # NotDestroying =>
           /\ destroying # NotDestroying /\ destroying'.sess = destroying.sess
           /\ \A i \in 1 .. Len(destroying'.todo) : \E j \in 1 .. Len(destroying.todo) :
                destroying'.todo[i] = destroying.todo[j] /\ destroying.todo[j] \in Tasks
  PROVE  RerunInv'
<1> DEFINE e == Event(type, s, t)
<1>1. e \in TaskEvent /\ e.type = type /\ e.sess = s /\ e.task = t
  BY DEF Event, TaskEvent, EventTypes, TerminalTypes
<1>2. Emit(e)
  OBVIOUS
<1> HIDE DEF e
<1>3. Logs(e)
  BY <1>1, <1>2 DEF Logs
<1>4. LogFits'
  BY <1>1, <1>3, LogKept DEF RerunInv
<1>5. \A u \in Tasks : \A r : KnownAs(u, r) => Known(owner', status', u, r)
  BY <1>1, <1>3, LogsStatus
<1>6. OwnersFit'
  BY <1>1, <1>3, <1>5, OwnersEmit DEF RerunInv, OwnersFit, KnownAs
<1>7. slot.phase # "free" => slot.task \in Tasks /\ status[slot.task] # "absent"
  BY TakenSlot DEF TypeOK, RerunInv, OwnersFit, Known, KnownAs
<1>8. /\ \A u \in Tasks \ {t} : status'[u] = status[u]
      /\ status'[t] = type
  BY <1>1, <1>3, LogsStatus DEF Adds
<1>9. slot.phase \in {"running", "backoff"} => status'[slot.task] \in {"dispatched", "cancelled"}
  BY <1>7, <1>8 DEF RerunInv
<1>10. ASSUME subscribed'  PROVE SubscriptionFits'
  <2>1. subscribed /\ SubscriptionFits
    BY <1>2, <1>10 DEF Emit, Publish, busVars, RerunInv
  <2>2. OwnersFit
    BY DEF RerunInv
  <2>3. \A i \in 1 .. Len(busq) : Adds(busq[i]) => busq[i].task # t
    <3> SUFFICES ASSUME NEW i \in 1 .. Len(busq), Adds(busq[i]), busq[i].task = t  PROVE FALSE
      OBVIOUS
    <3>1. status[t] = "queued" /\ t \notin Waiting(view, busq[i].sess)
      BY <2>1 DEF SubscriptionFits, AddsOnce
    <3>2. owner[t] = busq[i].sess
      BY <2>2 DEF OwnersFit, Known, KnownAs, Adds, EventTypes
    <3> QED  BY <2>1, <3>1, <3>2 DEF Known, KnownAs
  <2>4. Adds(e) => e.task \notin Waiting(view, e.sess)
    BY <1>1, <2>2 DEF Adds, OwnersFit, Known, KnownAs
  <2>5. /\ AddsOnce(view, busq', status')
        /\ Pends(busq, slot) => Pends(busq', slot)
        /\ \A i \in 1 .. Len(busq') : Adds(busq'[i]) =>
             (Adds(e) /\ busq'[i] = e) \/ \E j \in 1 .. Len(busq) : busq'[i] = busq[j]
    BY <1>1, <1>3, <1>10, <2>1, <2>3, <2>4, EmitAdds
  <2>6. slot.phase # "free" => \A i \in 1 .. Len(busq') : Adds(busq'[i]) => slot.task # busq'[i].task
    BY <1>1, <1>7, <2>1, <2>5 DEF SubscriptionFits, Holds, Adds
  <2>7. ASSUME NEW r \in Sessions, NEW u \in Waiting(view, r)
        PROVE  status'[u] \in Unended \/ (slot.task = u /\ Pends(busq', slot))
    <3>1. u \in Tasks /\ status[u] # "absent"
      BY <2>2 DEF Waiting, TypeOK, View, OwnersFit, Known, KnownAs
    <3>2. CASE u = t
      BY <1>8, <3>1, <3>2 DEF Unended
    <3>3. CASE u # t
      BY <1>8, <2>1, <2>5, <3>1, <3>3 DEF SubscriptionFits, Holds
    <3> QED  BY <3>2, <3>3
  <2>8. slot.phase = "claiming" => status'[slot.task] \in Unended
    BY <1>7, <1>8, <2>1 DEF SubscriptionFits, Holds, Unended
  <2>9. Holds(view, busq', status', slot)
    BY <2>1, <2>5, <2>6, <2>7, <2>8 DEF SubscriptionFits, Holds
  <2> QED  BY <2>1, <2>5, <2>9 DEF SubscriptionFits
<1> QED  BY <1>4, <1>6, <1>9, <1>10 DEF RerunInv

LEMMA RerunClient ==
  ASSUME TypeOK, RerunInv, ClientStep \/ DeleteCancels \/ DeleteEnds
  PROVE  RerunInv'
<1>0. UNCHANGED <<mode, view, loop, slot>>
  BY DEF ClientStep, Enqueue, Cancel, Trigger, SetPolicy, ClearPolicy, SetDefaultPolicy,
         SetPriority, SendMessage, MessageEnds, FetchSession, DeleteBegins, DeleteCancels,
         DeleteEnds, unchangedByClient, claimVars
<1>1. CASE DeleteCancels
  <2>1. /\ destroying \in [sess : Sessions, todo : Seq(Tasks)] /\ destroying.todo # <<>>
        /\ destroying # NotDestroying
        /\ Emit(Event("cancelled", destroying.sess, Head(destroying.todo)))
        /\ destroying' = [destroying EXCEPT !.todo = Tail(@)] /\ owner' = owner
    BY <1>1 DEF DeleteCancels, TypeOK, NotDestroying
  <2>2. /\ destroying.todo \in Seq(Tasks) /\ destroying.sess \in Sessions
        /\ destroying'.todo = Tail(destroying.todo) /\ destroying'.sess = destroying.sess
    BY <2>1
  <2>3. 1 \in 1 .. Len(destroying.todo) /\ Head(destroying.todo) = destroying.todo[1]
    BY <2>1, <2>2
  <2>4. \A i \in 1 .. Len(destroying'.todo) :
          i + 1 \in 1 .. Len(destroying.todo) /\ destroying'.todo[i] = destroying.todo[i + 1]
    BY <2>1, <2>2
  <2>5. \A i \in 1 .. Len(destroying'.todo) : \E j \in 1 .. Len(destroying.todo) :
          destroying'.todo[i] = destroying.todo[j] /\ destroying.todo[j] \in Tasks
    BY <2>2, <2>4
  <2>6. /\ KnownAs(Head(destroying.todo), destroying.sess) /\ mode # "down"
        /\ subscribed => Head(destroying.todo) \in Waiting(view, destroying.sess)
    BY <2>1, <2>3 DEF RerunInv, OwnersFit, SubscriptionFits
  <2>7. Head(destroying.todo) \in Tasks
    BY <2>2, <2>3
  <2> QED  BY <1>0, <2>1, <2>2, <2>5, <2>6, <2>7, RerunEmits
<1>2. CASE DeleteEnds
  BY <1>0, <1>2 DEF DeleteEnds, busVars, RerunInv, LogFits, AllDistinct, Distinct, Waiting, OwnersFit,
       Known, KnownAs, SubscriptionFits, AddsOnce, Adds, Holds, Pends, Event
<1>3. ASSUME NEW s \in Sessions, Enqueue(s)  PROVE RerunInv'
  <2>1. PICK t \in Tasks :
          /\ status[t] = "absent" /\ owner' = [owner EXCEPT ![t] = s]
          /\ Emit(Event("queued", s, t))
    BY <1>3 DEF Enqueue
  <2>2. mode = "up" /\ destroying = NotDestroying /\ destroying' = destroying
    BY <1>3 DEF Enqueue, Up, unchangedByClient
  <2> QED  BY <1>0, <2>1, <2>2, RerunEmits
<1>4. ASSUME NEW s \in Sessions, NEW t \in Tasks, Cancel(s, t)  PROVE RerunInv'
  <2>1. /\ mode = "up" /\ destroying = NotDestroying /\ destroying' = destroying
        /\ t \in Waiting(view, s) /\ owner' = owner /\ Emit(Event("cancelled", s, t))
    BY <1>4 DEF Cancel, Up, unchangedByClient
  <2>2. KnownAs(t, s)
    BY <2>1 DEF RerunInv, OwnersFit
  <2> QED  BY <1>0, <2>1, <2>2, RerunEmits
<1>5. ASSUME NEW s \in Sessions, DeleteBegins(s)  PROVE RerunInv'
  <2>1. /\ UNCHANGED <<logged, status, owner, busq, subscribed>> /\ mode = "up"
        /\ destroying'.sess = s /\ destroying'.todo = view.queued[s]
    BY <1>5 DEF DeleteBegins, logVars, busVars, Up
  <2>2. \A i \in 1 .. Len(destroying'.todo) : destroying'.todo[i] \in Waiting(view, s)
    BY <2>1 DEF Waiting
  <2>3. OwnersFit'
    BY <1>0, <2>1, <2>2 DEF RerunInv, OwnersFit, Known, KnownAs
  <2>4. subscribed => SubscriptionFits'
    BY <1>0, <2>1, <2>2 DEF RerunInv, SubscriptionFits
  <2> QED
    BY <1>0, <2>1, <2>3, <2>4 DEF RerunInv, LogFits, AllDistinct, Distinct, Waiting
<1>6. CASE ClientStep
  <2>1. ASSUME NEW s \in Sessions,
               Trigger(s) \/ (\E p \in Policies : SetPolicy(s, p)) \/ ClearPolicy(s)
                 \/ (\E p \in 1 .. MaxPriority : SetPriority(s, p)) \/ SendMessage(s)
                 \/ MessageEnds(s) \/ FetchSession(s)
        PROVE  UNCHANGED <<logged, status, owner, mode, view, busq, subscribed, slot, loop, destroying>>
    BY <2>1 DEF Trigger, SetPolicy, ClearPolicy, SetPriority, SendMessage, MessageEnds,
                FetchSession, logVars, busVars, claimVars, unchangedByClient
  <2>2. ASSUME NEW p \in Policies, SetDefaultPolicy(p)
        PROVE  UNCHANGED <<logged, status, owner, mode, view, busq, subscribed, slot, loop, destroying>>
    BY <2>2 DEF SetDefaultPolicy, busVars, claimVars, unchangedByClient
  <2> QED  BY <1>3, <1>4, <1>5, <1>6, <2>1, <2>2, RerunSame DEF ClientStep
<1> QED  BY <1>1, <1>2, <1>6

LEMMA RerunProcess ==
  ASSUME TypeOK, RerunInv, Stop \/ Crash \/ Restart \/ Toggle
  PROVE  RerunInv'
<1>1. CASE Toggle
  BY <1>1, RerunSame DEF Toggle, logVars, busVars, claimVars
<1>2. CASE Stop
  <2>1. /\ UNCHANGED <<logged, status, owner, view, destroying>> /\ ~subscribed' /\ mode' = "stopping"
        /\ busq' = <<>>
        /\ \/ slot'.phase = "free"
           \/ slot'.phase = "abandoned" /\ slot'.sess = slot.sess /\ slot'.task = slot.task
                /\ slot.phase = "claiming"
           \/ slot' = slot
    BY <1>2 DEF Stop, logVars, FreeSlot, TypeOK, Slots
  <2>2. OwnersFit'
    BY <2>1 DEF RerunInv, OwnersFit, Known, KnownAs
  <2>3. LogFits'
    BY <2>1 DEF RerunInv, LogFits, AllDistinct, Distinct, Waiting
  <2> QED  BY <2>1, <2>2, <2>3 DEF RerunInv
<1>3. CASE Crash
  <2>1. /\ UNCHANGED <<logged, status, owner>> /\ ~subscribed' /\ busq' = <<>>
        /\ destroying' = NotDestroying /\ slot'.phase = "free" /\ view' = EmptyView
    BY <1>3 DEF Crash, logVars, FreeSlot
  <2>2. \A s \in Sessions : Waiting(EmptyView, s) = {}
    BY DEF Waiting, EmptyView
  <2>3. OwnersFit'
    BY <2>1, <2>2 DEF OwnersFit
  <2>4. LogFits'
    BY <2>1 DEF RerunInv, LogFits, AllDistinct, Distinct, Waiting
  <2> QED  BY <2>1, <2>3, <2>4 DEF RerunInv
<1>4. CASE Restart
  <2> DEFINE orphaned == {s \in Pending(logged) : logged.running[s] # NoTask}
  <2>1. /\ mode = "down" /\ mode' = "up" /\ loop' = "starting" /\ subscribed' /\ busq' = <<>>
        /\ logged' = Recovered(logged, orphaned) /\ view' = logged'
        /\ status' = [t \in Tasks |-> IF \E s \in orphaned : logged.running[s] = t
                                       THEN "failed" ELSE status[t]]
        /\ UNCHANGED <<owner, slot, destroying>>
    BY <1>4 DEF Restart, claimVars
  <2>2. slot.phase = "free" /\ destroying = NotDestroying /\ LogFits
    BY <2>1 DEF RerunInv
  <2>3. \A s \in Sessions : s \in Pending(logged) <=> logged.queued[s] # <<>> \/ logged.running[s] # NoTask
    BY DEF Pending
  <2>4. orphaned \subseteq Sessions
    BY DEF Pending
  <2>5. \A s \in Sessions : s \in orphaned <=> logged.running[s] # NoTask
    BY <2>3
  <2> HIDE DEF orphaned
  <2>6. /\ logged'.queued = logged.queued
        /\ \A s \in Sessions : logged'.running[s] = NoTask
    BY <2>1, <2>5 DEF Recovered, TypeOK, View
  <2>7. ASSUME NEW s \in Sessions, NEW t \in Waiting(logged, s)
        PROVE  status'[t] = "queued" /\ owner'[t] = s
    <3>1. t \in Tasks
      BY DEF Waiting, TypeOK, View
    <3>2. status[t] = "queued" /\ owner[t] = s
      BY <2>2 DEF LogFits
    <3>3. \A r \in orphaned : logged.running[r] # t
      BY <2>2, <2>4, <2>5, <3>2 DEF LogFits
    <3> QED  BY <2>1, <3>1, <3>2, <3>3
  <2>8. \A s : Waiting(logged', s) = Waiting(logged, s)
    BY <2>6 DEF Waiting
  <2>9. AllDistinct(logged')
    BY <2>2, <2>6 DEF LogFits, AllDistinct
  <2>10. LogFits'
    BY <2>6, <2>7, <2>8, <2>9 DEF LogFits
  <2>11. OwnersFit'
    BY <2>1, <2>2, <2>7, <2>8 DEF OwnersFit, Known, KnownAs
  <2>12. AddsOnce(view', busq', status')
    BY <2>1, <2>9 DEF AddsOnce
  <2>13. Holds(view', busq', status', slot')
    BY <2>1, <2>2, <2>7, <2>8 DEF Holds, Unended
  <2>14. SubscriptionFits'
    BY <2>1, <2>2, <2>12, <2>13 DEF SubscriptionFits
  <2> QED  BY <2>1, <2>2, <2>10, <2>11, <2>14 DEF RerunInv
<1> QED  BY <1>1, <1>2, <1>3, <1>4

LEMMA RerunInit == Init => RerunInv
<1> SUFFICES ASSUME Init  PROVE RerunInv
  OBVIOUS
<1>1. \A s \in Sessions : EmptyView.queued[s] = <<>> /\ EmptyView.running[s] = NoTask
  BY DEF EmptyView
<1>2. \A s \in Sessions : Waiting(EmptyView, s) = {}
  BY <1>1 DEF Waiting
<1>3. AllDistinct(EmptyView)
  BY <1>1 DEF AllDistinct, Distinct
<1>4. /\ logged = EmptyView /\ view = EmptyView /\ busq = <<>> /\ slot.phase = "free"
      /\ destroying = NotDestroying /\ mode = "up" /\ loop = "starting"
  BY DEF Init, FreeSlot
<1> QED
  BY <1>1, <1>2, <1>3, <1>4 DEF RerunInv, LogFits, OwnersFit, SubscriptionFits, AddsOnce, Holds

LEMMA RerunStep == TypeOK /\ RerunInv /\ [Next]_vars => RerunInv'
<1>1. UNCHANGED vars => UNCHANGED <<logged, status, owner, mode, view, busq, subscribed, slot, loop,
                                    destroying>>
  BY DEF vars, logVars, busVars, claimVars
<1> QED  BY <1>1, RerunSame, RerunLoop, RerunDispatch, RerunRun, RerunClient, RerunProcess DEF Next

(* A task is dispatched by the dispatcher, when its git baseline is known. *)
LEMMA OnlyDispatch ==
  ASSUME TypeOK, Next, NEW t \in Tasks, Dispatches(t)
  PROVE  Dispatch /\ t = slot.task
<1>1. CASE Dispatch
  <2> DEFINE e == Event("dispatched", slot.sess, slot.task)
  <2>1. slot.phase = "claiming" /\ Emit(e)
    BY <1>1 DEF Dispatch
  <2>2. e \in TaskEvent /\ e.type = "dispatched" /\ e.task = slot.task
    BY <2>1, RunEvent DEF TypeOK, Event, EventTypes
  <2> HIDE DEF e
  <2>3. status' = [status EXCEPT ![slot.task] = "dispatched"]
    BY <2>1, <2>2 DEF Emit, StatusAfter, TerminalTypes
  <2> QED  BY <1>1, <2>3 DEF Dispatches, TypeOK
<1>2. ASSUME NEW type \in EventTypes \ {"dispatched"}, NEW s, NEW u, Emit(Event(type, s, u))
      PROVE  FALSE
  BY <1>2 DEF Emit, StatusAfter, Event, Dispatches, TypeOK, EventTypes, TerminalTypes
<1>3. /\ {"completed", "failed", "deferred", "retrying", "queued", "cancelled"}
           \subseteq EventTypes \ {"dispatched"}
      /\ status' # status
  BY DEF EventTypes, TerminalTypes, Dispatches
<1>4. CASE RunStep
  BY <1>2, <1>3, <1>4 DEF RunStep, RunCompletes, RunInspected, RunFails, RunRateLimited,
                          BackoffEnds, Finish
<1>5. CASE ClientStep \/ DeleteCancels \/ DeleteEnds
  BY <1>2, <1>3, <1>5 DEF ClientStep, Enqueue, Cancel, Trigger, SetPolicy, ClearPolicy,
     SetDefaultPolicy, SetPriority, SendMessage, MessageEnds, FetchSession, DeleteBegins,
     DeleteCancels, DeleteEnds, logVars
<1>6. CASE Restart
  BY <1>6 DEF Restart, Dispatches
<1>7. CASE LoopStep \/ Tick \/ AgentOutput \/ Stop \/ Crash \/ Toggle
  BY <1>3, <1>7 DEF LoopStep, LoopStart, LoopApply, LoopClosed, Tick, AgentOutput, Stop, Crash,
                    Toggle, logVars
<1> QED  BY <1>1, <1>4, <1>5, <1>6, <1>7 DEF Next

(* Unless the subscription was dropped, a task that completed or failed is *)
(* never dispatched again, and a cancelled one only if it was being claimed*)
(* when it was cancelled, for any number of sessions, tasks and crashes and*)
(* whatever clients cancel, delete and reconfigure.                        *)
THEOREM NothingEndedRunsAgain == Spec => EndedIsNotRerun
<1> DEFINE Allowed == \A t \in Tasks : Dispatches(t) /\ subscribed =>
                        status[t] = "queued" \/ (status[t] = "cancelled" /\ slot.task = t)
<1>1. TypeOK /\ RerunInv /\ [Next]_vars => [Allowed]_vars
  <2> SUFFICES ASSUME TypeOK, RerunInv, Next, NEW t \in Tasks, Dispatches(t), subscribed
               PROVE  status[t] = "queued" \/ (status[t] = "cancelled" /\ slot.task = t)
    OBVIOUS
  <2>1. Dispatch /\ t = slot.task
    BY OnlyDispatch
  <2> QED  BY <2>1 DEF Dispatch, RerunInv, SubscriptionFits, Holds, Unended
<1>2. Spec => []RerunInv
  BY RerunInit, RerunStep, TypeCorrect, PTL DEF Spec
<1> QED  BY <1>1, <1>2, TypeCorrect, PTL DEF Spec, EndedIsNotRerun

-----------------------------------------------------------------------------
(* Tasks of one session start in the order in which they were queued.      *)

(* A set of natural numbers with 0, and with n + 1 whenever with n, is     *)
(* all of them.                                                            *)
LEMMA LeastNatural ==
  ASSUME NEW S \in SUBSET Nat, S # {}
  PROVE  \E n \in S : \A m \in S : n <= m
<1>1. PICK n \in S : \A m \in S : ~(<<m, n>> \in OpToRel(<, Nat))
  BY NatLessThanWellFounded, WFMin
<1>2. \A m \in S : ~(m < n)
  BY <1>1 DEF OpToRel
<1> QED  BY <1>2

LEMMA Induction ==
  ASSUME NEW S \in SUBSET Nat, 0 \in S, \A n \in S : n + 1 \in S
  PROVE  S = Nat
<1> SUFFICES ASSUME Nat \ S # {}  PROVE FALSE
  OBVIOUS
<1>1. PICK n \in Nat \ S : \A m \in Nat \ S : n <= m
  BY LeastNatural
<1>2. n # 0 /\ n - 1 \in Nat /\ ~(n <= n - 1) /\ (n - 1) + 1 = n
  BY <1>1
<1>3. n - 1 \in S
  BY <1>1, <1>2
<1> QED  BY <1>1, <1>2, <1>3

(* Queues in the order of their tasks.                                     *)
Ascending(q) == \A i, j \in 1 .. Len(q) : i < j => q[i] < q[j]
AllAscend(v) == \A s \in Sessions : Ascending(v.queued[s])

LEMMA WithoutAscends ==
  ASSUME NEW q \in Seq(Tasks), NEW t, Ascending(q)
  PROVE  Ascending(Without(q, t))
<1>1. CASE t \notin Elements(q)
  BY <1>1 DEF Without, Elements
<1>2. CASE t \in Elements(q)
  <2> DEFINE w == Without(q, t)
  <2>1. PICK k \in 1 .. Len(q) :
          /\ q[k] = t
          /\ Len(w) = Len(q) - 1
          /\ \A j \in 1 .. Len(q) - 1 : w[j] = IF j < k THEN q[j] ELSE q[j + 1]
    BY <1>2, WithoutAt
  <2>2. Len(q) \in Nat
    OBVIOUS
  <2> HIDE DEF w
  <2>3. ASSUME NEW i \in 1 .. Len(q) - 1, NEW j \in 1 .. Len(q) - 1, i < j
        PROVE  w[i] < w[j]
    <3>1. CASE j < k
      BY <2>1, <2>2, <2>3, <3>1 DEF Ascending
    <3>2. CASE i < k /\ ~(j < k)
      <4>1. w[i] = q[i] /\ w[j] = q[j + 1] /\ j + 1 \in 1 .. Len(q) /\ i \in 1 .. Len(q) /\ i < j + 1
        BY <2>1, <2>2, <2>3, <3>2
      <4> QED  BY <4>1 DEF Ascending
    <3>3. CASE ~(i < k)
      <4>1. /\ w[i] = q[i + 1] /\ w[j] = q[j + 1] /\ j + 1 \in 1 .. Len(q)
            /\ i + 1 \in 1 .. Len(q) /\ i + 1 < j + 1
        BY <2>1, <2>2, <2>3, <3>3
      <4> QED  BY <4>1 DEF Ascending
    <3> QED  BY <2>2, <2>3, <3>1, <3>2, <3>3
  <2>4. Ascending(w)
    BY <2>1, <2>3 DEF Ascending
  <2> QED  BY <2>4 DEF w
<1> QED  BY <1>1, <1>2

LEMMA AppendAscends ==
  ASSUME NEW q \in Seq(Tasks), NEW t \in Tasks, Ascending(q), \A u \in Elements(q) : u < t
  PROVE  Ascending(Append(q, t))
<1>1. /\ Len(q) \in Nat /\ Len(Append(q, t)) = Len(q) + 1 /\ Append(q, t)[Len(q) + 1] = t
      /\ \A i \in 1 .. Len(q) : Append(q, t)[i] = q[i] /\ q[i] \in Elements(q)
  BY DEF Elements
<1> QED  BY <1>1 DEF Ascending

LEMMA PrependAscends ==
  ASSUME NEW q \in Seq(Tasks), NEW t \in Tasks, Ascending(q), \A u \in Elements(q) : t < u
  PROVE  Ascending(<<t>> \o q)
<1> DEFINE w == <<t>> \o q
<1>1. /\ Len(q) \in Nat /\ Len(w) = Len(q) + 1 /\ w[1] = t
      /\ \A i \in 1 .. Len(q) : w[i + 1] = q[i]
  OBVIOUS
<1> HIDE DEF w
<1>2. \A i \in 1 .. Len(w) : i # 1 => (i - 1 \in 1 .. Len(q) /\ w[i] = q[i - 1] /\ w[i] \in Elements(q))
  <2> SUFFICES ASSUME NEW i \in 1 .. Len(w), i # 1
               PROVE  i - 1 \in 1 .. Len(q) /\ w[i] = q[i - 1] /\ w[i] \in Elements(q)
    OBVIOUS
  <2>1. i - 1 \in 1 .. Len(q) /\ i - 1 + 1 = i
    BY <1>1
  <2> QED  BY <1>1, <2>1 DEF Elements
<1>3. ASSUME NEW i \in 1 .. Len(w), NEW j \in 1 .. Len(w), i < j  PROVE w[i] < w[j]
  <2>1. j # 1 /\ i \in Nat /\ j \in Nat
    BY <1>1, <1>3
  <2>2. CASE i = 1
    BY <1>1, <1>2, <2>1, <2>2
  <2>3. CASE i # 1
    <3>1. /\ i - 1 \in 1 .. Len(q) /\ j - 1 \in 1 .. Len(q) /\ i - 1 < j - 1
          /\ w[i] = q[i - 1] /\ w[j] = q[j - 1]
      BY <1>2, <1>3, <2>1, <2>3
    <3> QED  BY <3>1 DEF Ascending
  <2> QED  BY <2>2, <2>3
<1> QED  BY <1>3 DEF Ascending, w

LEMMA ApplyAscends ==
  ASSUME NEW v \in View, NEW e \in TaskEvent, AllAscend(v),
         e.type = "queued" => \A t \in Waiting(v, e.sess) : t < e.task,
         e.type = "deferred" => \A t \in Waiting(v, e.sess) : e.task < t
  PROVE  AllAscend(Apply(v, e))
<1> SUFFICES ASSUME NEW s \in Sessions  PROVE Ascending(Apply(v, e).queued[s])
  BY DEF AllAscend
<1>0. /\ e.sess \in Sessions /\ e.task \in Tasks /\ e.type \in EventTypes
      /\ v.queued[s] \in Seq(Tasks) /\ v.queued[e.sess] \in Seq(Tasks)
      /\ v.queued \in [Sessions -> Seq(Tasks)]
  BY DEF TaskEvent, View
<1> DEFINE q == Apply(v, e).queued[s]
<1>1. \/ q = v.queued[s]
      \/ s = e.sess /\ e.type = "queued" /\ q = Append(v.queued[s], e.task)
      \/ s = e.sess /\ q = Without(v.queued[s], e.task)
      \/ s = e.sess /\ e.type = "deferred" /\ q = <<e.task>> \o v.queued[s]
  BY <1>0 DEF Apply, OnQueued, OnDispatched, OnRetrying, OnDeferred, OnTerminal, View, EventTypes,
              TerminalTypes
<1>2. Ascending(v.queued[s]) /\ Waiting(v, s) = Elements(v.queued[s])
  BY DEF AllAscend, Waiting, Elements
<1> HIDE DEF q
<1>3. Ascending(q)
  BY <1>0, <1>1, <1>2, WithoutAscends, AppendAscends, PrependAscends
<1> QED  BY <1>3 DEF q

AscendingViews == {v \in View : AllAscend(v)}

InOrder(v, q) == ReplaysIn(AscendingViews, v, q, logged)

(* The head of a queue is the oldest task that is left when the buffered   *)
(* events have been applied, unless one of them takes it out or puts a     *)
(* task in front of it.                                                    *)
LEMMA HeadIsFirst ==
  ASSUME NEW v, NEW w, NEW q \in Seq(BusEvents), ReplaysIn(AscendingViews, v, q, w),
         NEW s \in Sessions, NEW t \in Waiting(w, s),
         v.queued[s] # <<>>, t = Head(v.queued[s]),
         \A i \in 1 .. Len(q) : Adds(q[i]) =>
           ~(s = q[i].sess /\ (t = q[i].task \/ q[i].type = "deferred"))
  PROVE  \A u \in Waiting(w, s) : t <= u
<1>1. PICK h \in [Nat -> AscendingViews] :
        /\ h[1] = v /\ h[Len(q) + 1] = w
        /\ \A i \in 1 .. Len(q) : h[i + 1] = Apply(h[i], q[i])
  BY DEF ReplaysIn
<1>2. \A i \in Nat : h[i] \in View /\ AllAscend(h[i])
  BY <1>1 DEF AscendingViews
<1>0. Tasks \subseteq Nat
  BY ProjectionAssumption DEF Tasks
<1> DEFINE S == {n \in Nat : n <= Len(q) /\ t \in Waiting(h[n + 1], s) =>
                               \A u \in Waiting(h[n + 1], s) : t <= u}
<1>3. 0 \in S
  <2>1. v.queued[s] \in Seq(Tasks) /\ Ascending(v.queued[s])
    BY <1>1, <1>2 DEF View, AllAscend
  <2>2. 1 \in 1 .. Len(v.queued[s]) /\ t = v.queued[s][1] /\ \A i \in 1 .. Len(v.queued[s]) : i = 1 \/ 1 < i
    BY <2>1
  <2>3. \A i \in 1 .. Len(v.queued[s]) : v.queued[s][i] \in Nat
    <3> DEFINE z == v.queued[s]
    <3>1. z \in Seq(Tasks)
      BY <2>1
    <3> HIDE DEF z
    <3>2. \A i \in 1 .. Len(z) : z[i] \in Tasks
      BY <3>1
    <3> QED  BY <1>0, <3>2 DEF z
  <2>4. \A i \in 1 .. Len(v.queued[s]) : t <= v.queued[s][i]
    BY <2>1, <2>2, <2>3 DEF Ascending
  <2> QED  BY <1>1, <2>4 DEF Waiting
<1>4. ASSUME NEW n \in S  PROVE n + 1 \in S
  <2> DEFINE x == h[n + 1]
             y == h[n + 1 + 1]
             e == q[n + 1]
  <2> SUFFICES ASSUME n + 1 <= Len(q), t \in Waiting(y, s), NEW u \in Waiting(y, s)
               PROVE  t <= u
    OBVIOUS
  <2>1. n \in Nat /\ n + 1 \in 1 .. Len(q) /\ n <= Len(q) /\ n + 1 + 1 \in Nat
    OBVIOUS
  <2>2. /\ x \in View /\ y \in View /\ AllAscend(y) /\ e \in BusEvents /\ y = Apply(x, e)
    BY <1>1, <1>2, <2>1
  <2>3. t \in Waiting(x, s) => \A r \in Waiting(x, s) : t <= r
    BY <2>1
  <2>4. Adds(e) => ~(s = e.sess /\ (t = e.task \/ e.type = "deferred"))
    BY <2>1
  <2> HIDE DEF x, y, e, S
  <2>5. CASE e \in TaskEvent
    <3>1. t \in Waiting(x, s)
      BY <2>2, <2>4, <2>5, WaitingSource
    <3>2. u \in Waiting(x, s) \/ (e.type = "queued" /\ s = e.sess /\ u = e.task)
      BY <2>2, <2>4, <2>5, WaitingSource DEF Adds
    <3>3. CASE e.type = "queued" /\ s = e.sess /\ u = e.task
      <4>1. y.queued[s] = Append(x.queued[s], u) /\ x.queued[s] \in Seq(Tasks)
        <5>1. Apply(x, e) = OnQueued(x, e)
          BY <3>3 DEF Apply, TerminalTypes
        <5>2. e.sess \in Sessions /\ e.task \in Tasks
          BY <2>5 DEF TaskEvent
        <5> QED  BY <2>2, <3>3, <5>1, <5>2 DEF OnQueued, View
      <4>2. PICK k \in 1 .. Len(x.queued[s]) : x.queued[s][k] = t
        BY <3>1 DEF Waiting
      <4>3. /\ k \in 1 .. Len(y.queued[s]) /\ Len(x.queued[s]) + 1 \in 1 .. Len(y.queued[s])
            /\ k < Len(x.queued[s]) + 1 /\ y.queued[s][k] = t
            /\ y.queued[s][Len(x.queued[s]) + 1] = u
        BY <4>1, <4>2
      <4>4. t < u
        BY <2>2, <4>3 DEF AllAscend, Ascending
      <4>5. t \in Nat /\ u \in Nat
        <5>1. t \in Tasks /\ u \in Tasks
          BY <2>2 DEF Waiting, View
        <5> QED  BY <1>0, <5>1
      <4> QED  BY <4>4, <4>5
    <3> QED  BY <2>3, <3>1, <3>2, <3>3
  <2>6. CASE e \in {CloseMark, OutputMark}
    <3>1. x = y
      BY <2>2, <2>6, ApplyBus
    <3> QED  BY <2>3, <3>1
  <2> QED  BY <2>2, <2>5, <2>6 DEF BusEvents
<1> HIDE DEF S
<1>5. S = Nat
  BY <1>3, <1>4, Induction DEF S
<1>6. Len(q) \in S
  BY <1>5
<1> QED  BY <1>1, <1>6 DEF S

(* Tasks are queued in their order, and the log's queues keep it; the task *)
(* in flight is older than what waits behind it.                           *)
LogAscends ==
  /\ \A t, u \in Tasks : status[t] = "absent" /\ t < u => status[u] = "absent"
  /\ AllAscend(logged)
  /\ \A s \in Sessions : \A t \in Waiting(logged, s) : logged.running[s] < t

ClaimIsFirst ==
  slot.phase = "claiming" => \A u \in Waiting(logged, slot.sess) : slot.task <= u

(* While the loop has not applied a task.deferred, nothing of that session *)
(* is taken: its window is closed until the next claim is dispatched and   *)
(* that event, which follows the deferral, is applied.                     *)
DeferredWait ==
  \A i \in 1 .. Len(busq) : busq[i].type = "deferred" =>
    /\ slot.phase # "free" => slot.sess # busq[i].sess
    /\ \/ WindowClosed(busq[i].sess)
       \/ slot.phase = "claiming"
       \/ slot.phase = "running" /\ \E j \in 1 .. Len(busq) : i < j /\ busq[j].type = "dispatched"

FifoInv ==
  /\ LogAscends
  /\ ClaimIsFirst
  /\ mode = "up" => InOrder(view, busq) /\ DeferredWait

LEMMA ClosedIsNoCandidate == \A s \in Sessions : WindowClosed(s) => ~CanDispatch(s)
BY DEF WindowClosed, CanDispatch

LEMMA OldestClaimed ==
  ASSUME NEW v \in View, NEW q \in Seq(BusEvents), NEW caller, Claim(caller, v),
         Follows(v, q), InOrder(v, q),
         \A i \in 1 .. Len(q) : q[i].type # "dispatched",
         \A i \in 1 .. Len(q) : q[i].type = "deferred" => ~CanDispatch(q[i].sess)
  PROVE  \/ slot'.phase = "free"
         \/ /\ slot'.phase = "claiming" /\ slot'.sess \in Sessions /\ CanDispatch(slot'.sess)
            /\ \A u \in Waiting(logged, slot'.sess) : slot'.task <= u
<1>1. CASE slot' = FreeSlot
  BY <1>1 DEF FreeSlot
<1>2. CASE slot' # FreeSlot
  <2>1. PICK s \in Sessions :
          /\ v.queued[s] # <<>> /\ CanDispatch(s)
          /\ slot' = [phase |-> "claiming", sess |-> s, task |-> Head(v.queued[s]),
                      by |-> caller, attempt |-> 0]
    BY <1>2 DEF Claim, Winner, Candidates
  <2> DEFINE t == Head(v.queued[s])
  <2>2. v.queued[s] \in Seq(Tasks)
    BY DEF View
  <2>3. t \in Waiting(v, s)
    <3>1. 1 \in 1 .. Len(v.queued[s]) /\ t = v.queued[s][1]
      BY <2>1, <2>2
    <3> QED  BY <3>1 DEF Waiting
  <2> HIDE DEF t
  <2>4. /\ t \in Waiting(logged, s)
        /\ \A i \in 1 .. Len(q) : Adds(q[i]) => ~(s = q[i].sess /\ t = q[i].task)
    BY <2>3, WaitingFits
  <2>5. \A i \in 1 .. Len(q) : Adds(q[i]) =>
          ~(s = q[i].sess /\ (t = q[i].task \/ q[i].type = "deferred"))
    BY <2>1, <2>4
  <2>6. t = Head(v.queued[s])
    BY DEF t
  <2>7. \A u \in Waiting(logged, s) : t <= u
    BY <2>1, <2>4, <2>5, <2>6, HeadIsFirst DEF InOrder
  <2> QED  BY <2>1, <2>6, <2>7
<1> QED  BY <1>1, <1>2

(* Events of the log come in turn.                                         *)
InTurn(e) ==
  /\ e.type = "queued" => \A u \in Tasks : u < e.task => status[u] # "absent"
  /\ e.type = "dispatched" => \A u \in Waiting(logged, e.sess) : e.task <= u

LEMMA EmitAscends ==
  ASSUME TypeOK, PlacesInv, LogAscends, NEW e \in TaskEvent, Emit(e), Fits(e), InTurn(e)
  PROVE  /\ LogAscends'
         /\ \A s \in Sessions : \A t \in Waiting(logged', s) :
              t \in Waiting(logged, s) \/ (Adds(e) /\ s = e.sess /\ t = e.task)
<1>0. /\ e.sess \in Sessions /\ e.task \in Tasks /\ e.type \in EventTypes
      /\ logged \in View /\ logged' = Apply(logged, e) /\ logged' \in View
      /\ Tasks \subseteq Nat \ {0}
  BY ProjectionAssumption, ApplyType DEF TaskEvent, TypeOK, Emit, Tasks
<1>1. \A s \in Sessions : \A t \in Waiting(logged, s) : t \in Tasks /\ status[t] = "queued"
  <2> SUFFICES ASSUME NEW s \in Sessions, NEW t \in Waiting(logged, s)
               PROVE  t \in Tasks /\ status[t] = "queued"
    OBVIOUS
  <2>1. t \in Tasks
    BY <1>0 DEF Waiting, View
  <2> QED  BY <2>1 DEF PlacesInv
<1>2. \A s \in Sessions : logged.running[s] = NoTask
                            \/ (logged.running[s] \in Tasks /\ status[logged.running[s]] = "dispatched")
  <2> SUFFICES ASSUME NEW s \in Sessions, logged.running[s] # NoTask
               PROVE  logged.running[s] \in Tasks /\ status[logged.running[s]] = "dispatched"
    OBVIOUS
  <2>1. logged.running[s] \in Tasks
    BY <1>0 DEF View
  <2> QED  BY <2>1 DEF PlacesInv
<1>3. \A s \in Sessions : \A t \in Waiting(logged', s) :
        t \in Tasks /\ (t \in Waiting(logged, s) \/ (Adds(e) /\ s = e.sess /\ t = e.task))
  <2> SUFFICES ASSUME NEW s \in Sessions, NEW t \in Waiting(logged', s)
               PROVE  t \in Tasks /\ (t \in Waiting(logged, s) \/ (Adds(e) /\ s = e.sess /\ t = e.task))
    OBVIOUS
  <2>1. t \in Tasks
    BY <1>0 DEF Waiting, View
  <2> QED  BY <1>0, <2>1, WaitingSource
<1>4. e.type = "queued" => \A t \in Tasks : status[t] # "absent" => t < e.task
  <2> SUFFICES ASSUME e.type = "queued", NEW t \in Tasks, status[t] # "absent"  PROVE t < e.task
    OBVIOUS
  <2>1. status[e.task] = "absent" /\ t # e.task
    BY DEF Fits
  <2>2. ~(e.task < t)
    BY <1>0, <2>1 DEF LogAscends
  <2>3. t \in Nat /\ e.task \in Nat
    BY <1>0
  <2> QED  BY <2>1, <2>2, <2>3
<1>5. AllAscend(logged')
  <2>1. e.type = "queued" => \A t \in Waiting(logged, e.sess) : t < e.task
    BY <1>0, <1>1, <1>4
  <2>2. e.type = "deferred" => \A t \in Waiting(logged, e.sess) : e.task < t
    BY <1>0 DEF Fits, LogAscends
  <2> QED  BY <1>0, <2>1, <2>2, ApplyAscends DEF LogAscends
<1>6. ASSUME NEW t \in Tasks, NEW u \in Tasks, status'[t] = "absent", t < u
      PROVE  status'[u] = "absent"
  <2>1. status[e.task] = "absent" <=> e.type = "queued"
    BY <1>0, <1>1, <1>2 DEF Fits, EventTypes, TerminalTypes, NoTask
  <2>2. t # e.task /\ status[t] = "absent"
    <3>1. t # e.task => status'[t] = status[t]
      BY FitStatus
    <3>2. status'[e.task] # "absent"
      BY <1>0, <2>1, FitStatus DEF Adds, EventTypes, TerminalTypes
    <3> QED  BY <1>6, <3>1, <3>2
  <2>3. status[u] = "absent"
    BY <1>6, <2>2 DEF LogAscends
  <2>4. u # e.task
    BY <1>4, <1>6, <2>1, <2>2, <2>3 DEF InTurn
  <2> QED  BY <2>3, <2>4, FitStatus
<1>7. ASSUME NEW s \in Sessions, NEW t \in Waiting(logged', s)
      PROVE  logged'.running[s] < t
  <2>0. t \in Nat \ {0} /\ NoTask = 0
    BY <1>0, <1>3 DEF NoTask
  <2>1. CASE logged'.running[s] = NoTask
    BY <2>0, <2>1
  <2>2. CASE s = e.sess /\ e.type = "dispatched"
    <3>1. logged'.running[s] = e.task
      BY <2>2, FitMoves
    <3>2. t \in Waiting(logged, s) /\ t # e.task
      BY <1>3, <2>2, FitMoves DEF Adds
    <3>3. e.task <= t
      BY <2>2, <3>2 DEF InTurn
    <3>4. t \in Nat /\ e.task \in Nat
      BY <1>0, <2>0
    <3> QED  BY <3>1, <3>2, <3>3, <3>4
  <2>3. CASE logged'.running[s] = logged.running[s]
    <3>1. CASE t \in Waiting(logged, s)
      BY <2>3, <3>1 DEF LogAscends
    <3>2. CASE e.type = "queued" /\ t = e.task /\ logged.running[s] # NoTask
      BY <1>2, <1>4, <2>3, <3>2
    <3>3. CASE e.type = "deferred" /\ s = e.sess
      BY <2>1, <3>3, FitMoves
    <3> QED  BY <1>3, <2>1, <2>3, <3>1, <3>2, <3>3 DEF Adds
  <2> QED  BY <2>1, <2>2, <2>3, FitMoves
<1> QED  BY <1>3, <1>5, <1>6, <1>7 DEF LogAscends

LEMMA BusAppended ==
  ASSUME TypeOK, NEW e, Publish(e), subscribed', e # CloseMark
  PROVE  /\ busq' = Append(busq, e)
         /\ Len(busq) \in Nat /\ Len(busq') = Len(busq) + 1 /\ busq'[Len(busq) + 1] = e
         /\ \A i \in 1 .. Len(busq) : i \in 1 .. Len(busq') /\ busq'[i] = busq[i]
         /\ \A i \in 1 .. Len(busq') : i = Len(busq) + 1 \/ i \in 1 .. Len(busq)
<1>1. busq' = Append(busq, e)
  BY DEF Publish, busVars
<1> QED  BY <1>1 DEF TypeOK

LEMMA FifoEmit ==
  ASSUME TypeOK, PlacesInv, LogAscends, mode = "up", InOrder(view, busq), NEW e \in TaskEvent,
         Emit(e), Fits(e), InTurn(e), UNCHANGED view, subscribed'
  PROVE  InOrder(view, busq)' /\ LogAscends'
<1>1. e \in BusEvents /\ e # CloseMark
  BY DEF BusEvents, TaskEvent, CloseMark, EventTypes, TerminalTypes
<1>2. busq' = Append(busq, e) /\ logged' = Apply(logged, e)
  BY <1>1, BusAppended DEF Emit
<1>3. LogAscends'
  BY EmitAscends
<1>4. Apply(logged, e) \in AscendingViews
  BY <1>2, <1>3, ApplyType DEF LogAscends, AscendingViews, TypeOK
<1>5. ReplaysIn(AscendingViews, view, Append(busq, e), Apply(logged, e))
  BY <1>1, <1>4, ReplaysOneMore DEF InOrder, TypeOK, BusEvents
<1> QED  BY <1>2, <1>3, <1>5 DEF InOrder

LEMMA FifoSame ==
  FifoInv /\ UNCHANGED <<logged, status, mode, view, busq, slot, override, default, open>> => FifoInv'
BY DEF FifoInv, LogAscends, ClaimIsFirst, InOrder, DeferredWait, WindowClosed, EffectivePolicy,
       Waiting, AllAscend

LEMMA FifoLoop ==
  ASSUME TypeOK, AccountsInv, FifoInv, LoopStep \/ Tick
  PROVE  FifoInv'
<1>1. /\ mode = "up" /\ UNCHANGED <<logged, status, mode, override, default, open>>
  BY DEF LoopStep, LoopStart, LoopApply, LoopClosed, Tick, Up, logVars, envVars
<1>2. /\ LogAscends' /\ view \in View /\ busq \in Seq(BusEvents) /\ Follows(view, busq)
      /\ InOrder(view, busq) /\ DeferredWait
  BY <1>1 DEF AccountsInv, TypeOK, FifoInv, LogAscends, AllAscend, Waiting, BusEvents
<1>3. ASSUME NEW v \in View, NEW q \in Seq(BusEvents), v = view', q = busq', Follows(v, q),
             InOrder(v, q),
             NEW k \in {0, 1}, Len(busq) = Len(q) + k,
             \A i \in 1 .. Len(q) : i + k \in 1 .. Len(busq) /\ q[i] = busq[i + k],
             UNCHANGED slot \/ (slot.phase = "free" /\ \E caller : Claim(caller, v))
      PROVE  FifoInv'
  <2>1. InOrder(view, busq)'
    BY <1>1, <1>3 DEF InOrder
  <2>2. CASE UNCHANGED slot
    <3>1. ClaimIsFirst'
      BY <1>1, <2>2 DEF FifoInv, ClaimIsFirst, Waiting
    <3>2. ASSUME NEW i \in 1 .. Len(q), q[i].type = "deferred"
          PROVE  /\ slot.phase # "free" => slot.sess # q[i].sess
                 /\ \/ WindowClosed(q[i].sess)
                    \/ slot.phase = "claiming"
                    \/ slot.phase = "running" /\ \E j \in 1 .. Len(q) : i < j /\ q[j].type = "dispatched"
      <4>1. i + k \in 1 .. Len(busq) /\ busq[i + k] = q[i]
        BY <1>3
      <4>2. ASSUME NEW j \in 1 .. Len(busq), i + k < j, busq[j].type = "dispatched"
            PROVE  \E l \in 1 .. Len(q) : i < l /\ q[l].type = "dispatched"
        <5>1. Len(q) \in Nat
          BY <1>3
        <5>2. j - k \in 1 .. Len(q) /\ i < j - k /\ j - k + k = j
          BY <1>3, <4>2, <5>1
        <5> QED  BY <1>3, <4>2, <5>2
      <4> QED  BY <1>2, <3>2, <4>1, <4>2 DEF DeferredWait
    <3>3. DeferredWait'
      BY <1>1, <1>3, <2>2, <3>2 DEF DeferredWait, WindowClosed, EffectivePolicy
    <3> QED  BY <1>2, <2>1, <3>1, <3>3 DEF FifoInv
  <2>3. CASE slot.phase = "free" /\ \E caller : Claim(caller, v)
    <3>1. \A i \in 1 .. Len(q) : q[i].type # "dispatched"
      BY <1>1, <1>3, <2>3, NoneDispatched
    <3>2. \A i \in 1 .. Len(q) : q[i].type = "deferred" =>
            q[i].sess \in Sessions /\ WindowClosed(q[i].sess)
      <4> SUFFICES ASSUME NEW i \in 1 .. Len(q), q[i].type = "deferred"
                   PROVE  q[i].sess \in Sessions /\ WindowClosed(q[i].sess)
        OBVIOUS
      <4>1. i + k \in 1 .. Len(busq) /\ busq[i + k] = q[i]
        BY <1>3
      <4>2. q[i] \in TaskEvent
        BY <4>1, BusTask DEF Adds
      <4> QED  BY <1>2, <2>3, <4>1, <4>2 DEF DeferredWait, TaskEvent
    <3>3. \A i \in 1 .. Len(q) : q[i].type = "deferred" => ~CanDispatch(q[i].sess)
      BY <3>2, ClosedIsNoCandidate
    <3>4. \/ slot'.phase = "free"
          \/ /\ slot'.phase = "claiming" /\ slot'.sess \in Sessions /\ CanDispatch(slot'.sess)
             /\ \A u \in Waiting(logged, slot'.sess) : slot'.task <= u
      BY <1>3, <2>3, <3>1, <3>3, OldestClaimed
    <3>5. ClaimIsFirst'
      BY <1>1, <3>4 DEF ClaimIsFirst, Waiting
    <3>6. DeferredWait'
      BY <1>1, <1>3, <3>2, <3>3, <3>4 DEF DeferredWait, WindowClosed, EffectivePolicy
    <3> QED  BY <1>2, <2>1, <3>5, <3>6 DEF FifoInv
  <2> QED  BY <1>3, <2>2, <2>3
<1>4. CASE LoopStart \/ Tick
  <2>1. UNCHANGED <<view, busq>>
    BY <1>4 DEF LoopStart, Tick, busVars
  <2>2. UNCHANGED slot \/ (slot.phase = "free" /\ \E caller : Claim(caller, view))
    BY <1>4 DEF LoopStart, Tick, MaybeDispatchInLoop, claimVars
  <2>3. /\ Len(busq) = Len(busq) + 0
        /\ \A i \in 1 .. Len(busq) : i + 0 \in 1 .. Len(busq) /\ busq[i] = busq[i + 0]
    BY <1>2
  <2> QED  BY <1>2, <1>3, <2>1, <2>2, <2>3
<1>5. CASE LoopApply
  <2> DEFINE v == Apply(view, Head(busq))
             q == Tail(busq)
  <2>1. /\ busq # <<>> /\ view' = v /\ busq' = q
        /\ UNCHANGED slot \/ MaybeDispatchInLoop(v)
    BY <1>5 DEF LoopApply, claimVars
  <2>2. Follows(v, q)
    BY <1>2, <2>1, ApplyFollowed
  <2>3. InOrder(v, q)
    BY <1>2, <2>1, ReplaysOneLess DEF InOrder
  <2>4. v \in View
    <3>1. Head(busq) \in BusEvents
      BY <1>2, <2>1
    <3> QED  BY <1>2, <3>1, ApplyBus
  <2>5. /\ q \in Seq(BusEvents) /\ Len(busq) = Len(q) + 1
        /\ \A i \in 1 .. Len(q) : i + 1 \in 1 .. Len(busq) /\ q[i] = busq[i + 1]
    BY <1>2, <2>1
  <2> HIDE DEF v, q
  <2>6. UNCHANGED slot \/ (slot.phase = "free" /\ \E caller : Claim(caller, v))
    BY <2>1 DEF MaybeDispatchInLoop, claimVars
  <2> QED  BY <1>3, <2>1, <2>2, <2>3, <2>4, <2>5, <2>6
<1>6. CASE LoopClosed
  <2>1. 1 \in 1 .. Len(busq) /\ busq[1] = CloseMark
    BY <1>6 DEF LoopClosed, TypeOK
  <2> QED  BY <1>2, <2>1 DEF Follows, Trails
<1> QED  BY <1>4, <1>5, <1>6 DEF LoopStep

(* While a run goes on, the sessions with a deferral to apply wait for     *)
(* their windows.                                                          *)
LEMMA RunWaits ==
  ASSUME TypeOK, AccountsInv, DeferredWait, mode = "up",
         slot.phase \in {"running", "backoff", "inspecting"}, DispatchApplied
  PROVE  /\ \A i \in 1 .. Len(busq) : busq[i].type # "dispatched"
         /\ \A i \in 1 .. Len(busq) : busq[i].type = "deferred" =>
              /\ busq[i].sess \in Sessions /\ WindowClosed(busq[i].sess)
              /\ ~CanDispatch(busq[i].sess) /\ slot.sess # busq[i].sess
<1>1. \A i \in 1 .. Len(busq) : busq[i].type # "dispatched"
  BY AppliedMeansNone, NoneDispatched
<1>2. ASSUME NEW i \in 1 .. Len(busq), busq[i].type = "deferred"
      PROVE  /\ busq[i].sess \in Sessions /\ WindowClosed(busq[i].sess)
             /\ ~CanDispatch(busq[i].sess) /\ slot.sess # busq[i].sess
  <2>1. busq[i] \in TaskEvent
    BY <1>2, BusTask DEF Adds
  <2>2. WindowClosed(busq[i].sess) /\ slot.sess # busq[i].sess
    BY <1>1, <1>2 DEF DeferredWait
  <2> QED  BY <2>1, <2>2, ClosedIsNoCandidate DEF TaskEvent
<1> QED  BY <1>1, <1>2

LEMMA FifoFinish ==
  ASSUME TypeOK, AccountsInv, FifoInv, mode = "up", subscribed', DispatchApplied,
         slot.phase \in {"running", "backoff"}, NEW type \in {"failed", "deferred"}, Finish(type),
         type = "deferred" => WindowClosed(slot.sess),
         UNCHANGED <<owner, view, mode, override, default, open>>
  PROVE  FifoInv'
<1> DEFINE e == Event(type, slot.sess, slot.task)
<1>1. /\ e \in TaskEvent /\ e.type = type /\ e.sess = slot.sess /\ e.task = slot.task
      /\ slot.sess \in Sessions /\ slot.task \in Tasks
  BY RunEvent, TakenSlot DEF TypeOK, Event, EventTypes, TerminalTypes
<1>2. Emit(e) /\ Claim("run", view)
  BY DEF Finish
<1> HIDE DEF e
<1>3. Fits(e) /\ InTurn(e) /\ PlacesInv
  BY <1>1 DEF Fits, InTurn, AccountsInv, SlotInv
<1>4. LogAscends /\ InOrder(view, busq) /\ DeferredWait /\ Follows(view, busq)
  BY DEF FifoInv, AccountsInv
<1>5. LogAscends' /\ InOrder(view, busq)'
  BY <1>1, <1>2, <1>3, <1>4, FifoEmit
<1>6. /\ \A i \in 1 .. Len(busq) : busq[i].type # "dispatched"
      /\ \A i \in 1 .. Len(busq) : busq[i].type = "deferred" =>
           /\ busq[i].sess \in Sessions /\ WindowClosed(busq[i].sess)
           /\ ~CanDispatch(busq[i].sess) /\ slot.sess # busq[i].sess
  BY <1>4, RunWaits
<1>7. view \in View /\ busq \in Seq(BusEvents)
  BY DEF TypeOK, BusEvents
<1>8. \/ slot'.phase = "free"
      \/ /\ slot'.phase = "claiming" /\ slot'.sess \in Sessions /\ CanDispatch(slot'.sess)
         /\ \A u \in Waiting(logged, slot'.sess) : slot'.task <= u
  BY <1>2, <1>4, <1>6, <1>7, OldestClaimed
<1>9. type = "deferred" => ~CanDispatch(slot.sess)
  BY <1>1, ClosedIsNoCandidate
<1>10. ClaimIsFirst'
  <2> SUFFICES ASSUME slot'.phase = "claiming", NEW u \in Waiting(logged', slot'.sess)
               PROVE  slot'.task <= u
    BY DEF ClaimIsFirst
  <2>1. u \in Waiting(logged, slot'.sess)
    BY <1>1, <1>2, <1>3, <1>4, <1>8, <1>9, EmitAscends DEF Adds
  <2> QED  BY <1>8, <2>1
<1>11. DeferredWait'
  <2>0. e # CloseMark /\ Publish(e)
    BY <1>1, <1>2 DEF Emit, TaskEvent, CloseMark, EventTypes, TerminalTypes
  <2>1. ASSUME NEW i \in 1 .. Len(busq'), busq'[i].type = "deferred"
        PROVE  WindowClosed(busq'[i].sess) /\ ~CanDispatch(busq'[i].sess)
    <3>1. CASE i = Len(busq) + 1
      BY <1>1, <1>9, <2>0, <2>1, <3>1, BusAppended
    <3>2. CASE i \in 1 .. Len(busq)
      BY <1>6, <2>0, <2>1, <3>2, BusAppended
    <3> QED  BY <2>0, <3>1, <3>2, BusAppended
  <2> QED  BY <1>8, <2>1 DEF DeferredWait, WindowClosed, EffectivePolicy
<1> QED  BY <1>5, <1>10, <1>11 DEF FifoInv

LEMMA FifoDispatch ==
  ASSUME TypeOK, AccountsInv, InFlightInv, FifoInv, Subscribed', Dispatch
  PROVE  FifoInv'
<1> DEFINE e == Event("dispatched", slot.sess, slot.task)
<1>1. /\ slot.phase = "claiming" /\ Emit(e) /\ mode # "down"
      /\ UNCHANGED <<mode, view, owner, override, default>>
      /\ slot' = [slot EXCEPT !.phase = "running"]
  BY DEF Dispatch
<1>2. /\ e \in TaskEvent /\ e.type = "dispatched" /\ e.sess = slot.sess /\ e.task = slot.task
      /\ slot.sess \in Sessions /\ slot.task \in Tasks
  BY <1>1, RunEvent, TakenSlot DEF TypeOK, Event, EventTypes
<1>3. slot'.phase = "running" /\ slot'.sess = slot.sess
  BY <1>1, TakenSlot DEF TypeOK
<1> HIDE DEF e
<1>4. Fits(e) /\ PlacesInv
  BY <1>1, <1>2 DEF Fits, AccountsInv, SlotInv, InFlightInv, NoRunBeforeDispatch, NothingInFlight
<1>5. InTurn(e) /\ LogAscends
  BY <1>1, <1>2 DEF InTurn, FifoInv, ClaimIsFirst
<1>6. LogAscends' /\ ClaimIsFirst'
  BY <1>1, <1>2, <1>3, <1>4, <1>5, EmitAscends DEF ClaimIsFirst
<1>7. CASE mode = "up"
  <2>1. subscribed' /\ InOrder(view, busq) /\ DeferredWait /\ Publish(e) /\ e # CloseMark
    BY <1>1, <1>2, <1>7 DEF Subscribed, FifoInv, Emit, CloseMark
  <2>2. InOrder(view, busq)'
    BY <1>1, <1>2, <1>4, <1>5, <1>7, <2>1, FifoEmit
  <2>3. ASSUME NEW i \in 1 .. Len(busq'), busq'[i].type = "deferred"
        PROVE  /\ slot'.sess # busq'[i].sess
               /\ \E j \in 1 .. Len(busq') : i < j /\ busq'[j].type = "dispatched"
    <3>1. i \in 1 .. Len(busq) /\ busq'[i] = busq[i]
      BY <1>2, <2>1, <2>3, BusAppended
    <3>2. slot.sess # busq[i].sess
      BY <1>1, <2>1, <2>3, <3>1 DEF DeferredWait
    <3>3. /\ i < Len(busq) + 1 /\ Len(busq) + 1 \in 1 .. Len(busq')
          /\ busq'[Len(busq) + 1].type = "dispatched"
      BY <1>2, <2>1, <3>1, BusAppended
    <3> QED  BY <1>3, <3>1, <3>2, <3>3
  <2>4. DeferredWait'
    BY <1>3, <2>3 DEF DeferredWait
  <2> QED  BY <1>6, <2>2, <2>4 DEF FifoInv
<1> QED  BY <1>1, <1>6, <1>7 DEF FifoInv

LEMMA FifoRun ==
  ASSUME TypeOK, AccountsInv, InFlightInv, FifoInv, Subscribed',
         Dispatch \/ RunStep \/ AgentOutput
  PROVE  FifoInv'
<1>1. CASE Dispatch
  BY <1>1, FifoDispatch
<1>2. CASE RunStep
  <2>1. /\ mode = "up" /\ DispatchApplied
        /\ UNCHANGED <<owner, view, mode, override, default, open>>
        /\ slot.phase \in {"running", "backoff", "inspecting"}
    BY <1>2 DEF RunStep, RunCompletes, RunInspected, RunFails, RunRateLimited, BackoffEnds, Running,
                Up, unchangedByRun, envVars
  <2>2. /\ subscribed' /\ LogAscends /\ InOrder(view, busq) /\ DeferredWait /\ PlacesInv
        /\ Follows(view, busq)
    BY <2>1 DEF Subscribed, FifoInv, AccountsInv
  <2>3. /\ \A i \in 1 .. Len(busq) : busq[i].type # "dispatched"
        /\ \A i \in 1 .. Len(busq) : busq[i].type = "deferred" =>
             /\ busq[i].sess \in Sessions /\ WindowClosed(busq[i].sess)
             /\ ~CanDispatch(busq[i].sess) /\ slot.sess # busq[i].sess
    BY <2>1, <2>2, RunWaits
  <2>4. ASSUME NEW type \in {"failed", "deferred"}, slot.phase \in {"running", "backoff"},
               Finish(type), type = "deferred" => WindowClosed(slot.sess)
        PROVE  FifoInv'
    BY <2>1, <2>2, <2>4, FifoFinish
  <2>5. ASSUME NEW type \in {"completed", "retrying"}, slot.phase \in {"running", "backoff"},
               Emit(Event(type, slot.sess, slot.task)),
               slot'.sess = slot.sess /\ slot'.phase \in {"inspecting", "backoff"}
        PROVE  FifoInv'
    <3> DEFINE e == Event(type, slot.sess, slot.task)
    <3>1. /\ e \in TaskEvent /\ e.type = type /\ e.sess = slot.sess /\ e.task = slot.task /\ Emit(e)
          /\ slot.sess \in Sessions /\ slot.task \in Tasks
      BY <2>5, RunEvent, TakenSlot DEF TypeOK, Event, EventTypes, TerminalTypes
    <3> HIDE DEF e
    <3>2. Fits(e) /\ InTurn(e)
      BY <2>1, <2>5, <3>1 DEF Fits, InTurn, AccountsInv, SlotInv
    <3>3. LogAscends' /\ InOrder(view, busq)'
      BY <2>1, <2>2, <3>1, <3>2, FifoEmit
    <3>4. e # CloseMark /\ Publish(e)
      BY <3>1 DEF Emit, TaskEvent, CloseMark, EventTypes, TerminalTypes
    <3>5. \A i \in 1 .. Len(busq') : busq'[i].type = "deferred" =>
            i \in 1 .. Len(busq) /\ busq'[i] = busq[i]
      BY <2>2, <3>1, <3>4, BusAppended
    <3>6. DeferredWait' /\ ClaimIsFirst'
      BY <2>1, <2>3, <2>5, <3>5 DEF DeferredWait, ClaimIsFirst, WindowClosed, EffectivePolicy
    <3> QED  BY <3>3, <3>6 DEF FifoInv
  <2>6. CASE RunCompletes
    <3>1. /\ slot.phase = "running" /\ slot' = [slot EXCEPT !.phase = "inspecting"]
          /\ Emit(Event("completed", slot.sess, slot.task))
      BY <2>6 DEF RunCompletes, Running
    <3> QED  BY <2>5, <3>1, TakenSlot DEF TypeOK
  <2>7. CASE RunInspected
    <3>1. Claim("run", view) /\ UNCHANGED <<logged, status, busq>>
      BY <2>7 DEF RunInspected, busVars
    <3>2. view \in View /\ busq \in Seq(BusEvents)
      BY DEF TypeOK, BusEvents
    <3>3. \/ slot'.phase = "free"
          \/ /\ slot'.phase = "claiming" /\ slot'.sess \in Sessions /\ CanDispatch(slot'.sess)
             /\ \A u \in Waiting(logged, slot'.sess) : slot'.task <= u
      BY <2>2, <2>3, <3>1, <3>2, OldestClaimed
    <3>4. LogAscends' /\ InOrder(view, busq)'
      BY <2>1, <2>2, <3>1 DEF LogAscends, AllAscend, Waiting, InOrder
    <3>5. ClaimIsFirst'
      BY <3>1, <3>3 DEF ClaimIsFirst, Waiting
    <3>6. DeferredWait'
      BY <2>1, <2>3, <3>1, <3>3 DEF DeferredWait, WindowClosed, EffectivePolicy
    <3> QED  BY <3>4, <3>5, <3>6 DEF FifoInv
  <2>8. CASE RunFails
    BY <2>4, <2>8 DEF RunFails, Running
  <2>9. CASE RunRateLimited
    <3>1. slot.phase = "running"
      BY <2>9 DEF RunRateLimited, Running
    <3>2. CASE (WindowClosed(slot.sess) /\ Finish("deferred")) \/ Finish("failed")
      BY <2>4, <3>1, <3>2
    <3>3. CASE /\ Emit(Event("retrying", slot.sess, slot.task))
               /\ slot' = [slot EXCEPT !.phase = "backoff", !.attempt = @ + 1]
      BY <2>5, <3>1, <3>3, TakenSlot DEF TypeOK
    <3> QED  BY <2>9, <3>2, <3>3 DEF RunRateLimited
  <2>10. CASE BackoffEnds
    <3>1. slot.phase = "backoff"
      BY <2>10 DEF BackoffEnds, Running
    <3>2. CASE WindowClosed(slot.sess) /\ Finish("deferred")
      BY <2>4, <3>1, <3>2
    <3>3. CASE /\ slot' = [slot EXCEPT !.phase = "running"]
               /\ UNCHANGED <<logged, status, busq>>
      <4>1. slot'.phase = "running" /\ slot'.sess = slot.sess
        BY <3>1, <3>3, TakenSlot DEF TypeOK
      <4>2. LogAscends' /\ InOrder(view, busq)'
        BY <2>1, <2>2, <3>3 DEF LogAscends, AllAscend, Waiting, InOrder
      <4>3. DeferredWait' /\ ClaimIsFirst'
        BY <2>1, <2>3, <3>3, <4>1 DEF DeferredWait, ClaimIsFirst, WindowClosed, EffectivePolicy
      <4> QED  BY <4>2, <4>3 DEF FifoInv
    <3> QED  BY <2>10, <3>2, <3>3 DEF BackoffEnds, busVars
  <2> QED  BY <1>2, <2>6, <2>7, <2>8, <2>9, <2>10 DEF RunStep
<1>3. CASE AgentOutput
  <2>1. /\ mode = "up" /\ Publish(OutputMark) /\ slot.phase = "running"
        /\ UNCHANGED <<logged, status, mode, view, slot, override, default, open>>
    BY <1>3 DEF AgentOutput, Up, unchangedByRun, claimVars, envVars
  <2>2. /\ subscribed' /\ OutputMark # CloseMark /\ OutputMark \in BusEvents
        /\ OutputMark.type # "deferred"
    BY <2>1 DEF Subscribed, OutputMark, CloseMark, BusEvents
  <2>3. LogAscends' /\ ClaimIsFirst' /\ LogAscends /\ InOrder(view, busq) /\ DeferredWait
    BY <2>1 DEF FifoInv, LogAscends, AllAscend, Waiting, ClaimIsFirst
  <2>4. InOrder(view, busq)'
    <3>1. logged \in AscendingViews /\ busq \in Seq(BusEvents) /\ Apply(logged, OutputMark) = logged
      BY <2>2, <2>3, ApplyBus DEF AscendingViews, LogAscends, TypeOK, BusEvents
    <3>2. ReplaysIn(AscendingViews, view, Append(busq, OutputMark), logged)
      BY <2>2, <2>3, <3>1, ReplaysOneMore DEF InOrder
    <3> QED  BY <2>1, <2>2, <3>2, BusAppended DEF InOrder
  <2>5. ASSUME NEW i \in 1 .. Len(busq'), busq'[i].type = "deferred"
        PROVE  /\ slot.sess # busq'[i].sess
               /\ \/ WindowClosed(busq'[i].sess)
                  \/ \E j \in 1 .. Len(busq') : i < j /\ busq'[j].type = "dispatched"
    <3>1. i \in 1 .. Len(busq) /\ busq'[i] = busq[i]
      BY <2>1, <2>2, <2>5, BusAppended
    <3>2. \A j \in 1 .. Len(busq) : j \in 1 .. Len(busq') /\ busq'[j] = busq[j]
      BY <2>1, <2>2, BusAppended
    <3> QED  BY <2>1, <2>3, <2>5, <3>1, <3>2 DEF DeferredWait
  <2>6. DeferredWait'
    BY <2>1, <2>5 DEF DeferredWait, WindowClosed, EffectivePolicy
  <2> QED  BY <2>3, <2>4, <2>6 DEF FifoInv
<1> QED  BY <1>1, <1>2, <1>3

LEMMA FifoClient ==
  ASSUME TypeOK, AccountsInv, FifoInv, NothingCancels, Settable = {}, Subscribed',
         ClientStep \/ DeleteCancels \/ DeleteEnds
  PROVE  FifoInv'
<1>0. "cancel" \notin Ops /\ "delete" \notin Ops /\ destroying = NotDestroying
  BY DEF NothingCancels, AccountsInv, SlotInv
<1>1. ~DeleteCancels /\ ~DeleteEnds
  BY <1>0 DEF DeleteCancels, DeleteEnds, NotDestroying
<1>2. ASSUME NEW s \in Sessions, Enqueue(s)  PROVE FifoInv'
  <2>1. PICK t \in Tasks :
          /\ status[t] = "absent" /\ \A u \in Tasks : u < t => status[u] # "absent"
          /\ owner' = [owner EXCEPT ![t] = s]
          /\ Emit(Event("queued", s, t))
    BY <1>2 DEF Enqueue
  <2> DEFINE e == Event("queued", s, t)
  <2>2. /\ e \in TaskEvent /\ e.type = "queued" /\ e.sess = s /\ e.task = t /\ Emit(e)
    BY <2>1 DEF Event, TaskEvent, EventTypes
  <2> HIDE DEF e
  <2>3. Fits(e) /\ InTurn(e)
    BY <2>1, <2>2 DEF Fits, InTurn
  <2>4. /\ mode = "up" /\ UNCHANGED <<mode, view, slot, override, default, open>>
    BY <1>2 DEF Enqueue, Up, unchangedByClient, claimVars, envVars
  <2>5. subscribed' /\ LogAscends /\ PlacesInv /\ InOrder(view, busq) /\ DeferredWait
    BY <2>4 DEF Subscribed, FifoInv, AccountsInv
  <2>6. LogAscends' /\ InOrder(view, busq)'
    BY <2>2, <2>3, <2>4, <2>5, FifoEmit
  <2>7. ClaimIsFirst'
    <3> SUFFICES ASSUME slot.phase = "claiming", NEW u \in Waiting(logged', slot.sess)
                 PROVE  slot.task <= u
      BY <2>4 DEF ClaimIsFirst
    <3>1. slot.sess \in Sessions /\ slot.task \in Tasks /\ slot.task \in Waiting(logged, slot.sess)
      BY TakenSlot DEF TypeOK, AccountsInv, SlotInv
    <3>2. CASE u \in Waiting(logged, slot.sess)
      BY <3>2 DEF FifoInv, ClaimIsFirst
    <3>3. CASE u = t
      <4>1. status[slot.task] = "queued"
        BY <2>5, <3>1 DEF PlacesInv
      <4>2. ~(t < slot.task)
        BY <2>1, <2>5, <3>1, <4>1 DEF LogAscends
      <4>3. t \in Nat /\ slot.task \in Nat
        BY <3>1, ProjectionAssumption DEF Tasks
      <4> QED  BY <3>3, <4>2, <4>3
    <3> QED  BY <2>2, <2>3, <2>5, <3>1, <3>2, <3>3, EmitAscends
  <2>8. DeferredWait'
    <3>1. e # CloseMark /\ Publish(e)
      BY <2>2 DEF Emit, TaskEvent, CloseMark, EventTypes, TerminalTypes
    <3>2. ASSUME NEW i \in 1 .. Len(busq'), busq'[i].type = "deferred"
          PROVE  /\ slot.phase # "free" => slot.sess # busq'[i].sess
                 /\ \/ WindowClosed(busq'[i].sess)
                    \/ slot.phase = "claiming"
                    \/ slot.phase = "running"
                         /\ \E j \in 1 .. Len(busq') : i < j /\ busq'[j].type = "dispatched"
      <4>1. i \in 1 .. Len(busq) /\ busq'[i] = busq[i]
        BY <2>2, <2>5, <3>1, <3>2, BusAppended
      <4>2. \A j \in 1 .. Len(busq) : j \in 1 .. Len(busq') /\ busq'[j] = busq[j]
        BY <2>5, <3>1, BusAppended
      <4> QED  BY <2>5, <3>2, <4>1, <4>2 DEF DeferredWait
    <3> QED  BY <2>4, <3>2 DEF DeferredWait, WindowClosed, EffectivePolicy
  <2> QED  BY <2>6, <2>7, <2>8 DEF FifoInv
<1>3. CASE ClientStep
  <2>1. ASSUME NEW s \in Sessions,
               Trigger(s) \/ (\E p \in 1 .. MaxPriority : SetPriority(s, p)) \/ SendMessage(s)
                 \/ MessageEnds(s) \/ FetchSession(s)
        PROVE  UNCHANGED <<logged, status, mode, view, busq, slot, override, default, open>>
    BY <2>1 DEF Trigger, SetPriority, SendMessage, MessageEnds, FetchSession, logVars, busVars,
                claimVars, unchangedByClient, envVars
  <2>2. ASSUME NEW s \in Sessions, NEW p,
               SetPolicy(s, p) \/ ClearPolicy(s) \/ SetDefaultPolicy(p)
                 \/ DeleteBegins(s) \/ \E t \in Tasks : Cancel(s, t)
        PROVE  FALSE
    BY <1>0, <2>2 DEF SetPolicy, ClearPolicy, SetDefaultPolicy, DeleteBegins, Cancel
  <2>3. ASSUME NEW p, SetDefaultPolicy(p)  PROVE FALSE
    BY <2>3 DEF SetDefaultPolicy
  <2> QED  BY <1>2, <1>3, <2>1, <2>2, <2>3, FifoSame DEF ClientStep
<1> QED  BY <1>1, <1>3

LEMMA FifoProcess ==
  ASSUME TypeOK, AccountsInv, FifoInv, Stop \/ Crash \/ Restart \/ Toggle
  PROVE  FifoInv'
<1>1. CASE Stop
  <2>1. /\ mode' = "stopping" /\ UNCHANGED <<logged, status>>
        /\ slot'.phase \in {"free", "abandoned"} \/ slot' = slot
    BY <1>1, TakenSlot DEF Stop, logVars, FreeSlot, TypeOK
  <2> QED  BY <2>1 DEF FifoInv, LogAscends, AllAscend, ClaimIsFirst, Waiting
<1>2. CASE Crash
  <2>1. mode' = "down" /\ UNCHANGED <<logged, status>> /\ slot'.phase = "free"
    BY <1>2 DEF Crash, logVars, FreeSlot
  <2> QED  BY <2>1 DEF FifoInv, LogAscends, AllAscend, ClaimIsFirst, Waiting
<1>3. CASE Restart
  <2> DEFINE orphaned == {s \in Pending(logged) : logged.running[s] # NoTask}
  <2>1. /\ mode = "down" /\ busq' = <<>>
        /\ logged' = Recovered(logged, orphaned) /\ view' = logged'
        /\ status' = [t \in Tasks |-> IF \E s \in orphaned : logged.running[s] = t
                                      THEN "failed" ELSE status[t]]
        /\ UNCHANGED slot
    BY <1>3 DEF Restart, claimVars
  <2>2. \A s \in Sessions : s \in orphaned <=> logged.running[s] # NoTask
    BY DEF Pending
  <2>3. orphaned \subseteq Sessions
    BY DEF Pending
  <2> HIDE DEF orphaned
  <2>4. /\ logged'.queued = logged.queued
        /\ \A s \in Sessions : logged'.running[s] = NoTask
    BY <2>1, <2>2 DEF Recovered, TypeOK, View
  <2>5. \A s \in Sessions : Waiting(logged', s) = Waiting(logged, s)
    BY <2>4 DEF Waiting
  <2>6. \A t \in Tasks : status'[t] = "absent" <=> status[t] = "absent"
    <3> SUFFICES ASSUME NEW t \in Tasks  PROVE status'[t] = "absent" <=> status[t] = "absent"
      OBVIOUS
    <3>1. (\E s \in orphaned : logged.running[s] = t) => status[t] = "dispatched"
      BY <2>3 DEF AccountsInv, PlacesInv
    <3> QED  BY <2>1, <3>1
  <2>7. \A s \in Sessions : \A t \in Waiting(logged', s) : NoTask < t
    <3>1. \A s \in Sessions : \A t \in Waiting(logged, s) : t \in Tasks
      BY DEF Waiting, TypeOK, View
    <3>2. \A t \in Tasks : NoTask < t
      BY ProjectionAssumption DEF Tasks, NoTask
    <3> QED  BY <2>5, <3>1, <3>2
  <2>8. LogAscends'
    BY <2>4, <2>6, <2>7 DEF FifoInv, LogAscends, AllAscend
  <2>9. logged' \in AscendingViews
    BY <2>8, TypeInductive, <1>3 DEF Next, LogAscends, AscendingViews, TypeOK
  <2>10. InOrder(view, busq)'
    BY <2>1, <2>9, ReplaysNothing DEF InOrder
  <2>11. ClaimIsFirst' /\ DeferredWait'
    BY <2>1 DEF AccountsInv, SlotInv, ClaimIsFirst, DeferredWait
  <2> QED  BY <2>8, <2>10, <2>11 DEF FifoInv
<1>4. CASE Toggle
  <2>1. /\ mode = "up" /\ UNCHANGED <<logged, status, mode, view, busq, slot>>
        /\ busq = <<>> \/ loop \in {"claiming", "closed"}
    BY <1>4 DEF Toggle, Up, logVars, busVars, claimVars
  <2>2. busq = <<>> \/ slot.phase = "claiming"
    BY <2>1 DEF AccountsInv, SlotInv
  <2>3. DeferredWait'
    BY <2>1, <2>2 DEF FifoInv, DeferredWait
  <2> QED  BY <2>1, <2>3 DEF FifoInv, LogAscends, AllAscend, ClaimIsFirst, InOrder, Waiting
<1> QED  BY <1>1, <1>2, <1>3, <1>4

LEMMA FifoInit == Init => FifoInv
<1> SUFFICES ASSUME Init  PROVE FifoInv
  OBVIOUS
<1>1. /\ logged = EmptyView /\ view = EmptyView /\ busq = <<>> /\ slot.phase = "free"
      /\ \A t \in Tasks : status[t] = "absent"
  BY DEF Init, FreeSlot
<1>2. \A s \in Sessions : EmptyView.queued[s] = <<>> /\ Waiting(EmptyView, s) = {}
  BY DEF EmptyView, Waiting
<1>3. EmptyView \in View
  BY DEF EmptyView, View, NoTask
<1>4. AllAscend(EmptyView)
  BY <1>2 DEF AllAscend, Ascending
<1>5. InOrder(view, busq)
  BY <1>1, <1>3, <1>4, ReplaysNothing DEF InOrder, AscendingViews
<1> QED  BY <1>1, <1>2, <1>4, <1>5 DEF FifoInv, LogAscends, ClaimIsFirst, DeferredWait

LEMMA FifoStep ==
  NothingCancels /\ Settable = {} =>
    (TypeOK /\ InFlightInv /\ AccountsInv /\ Subscribed' /\ FifoInv /\ [Next]_vars => FifoInv')
<1> SUFFICES ASSUME NothingCancels, Settable = {}, TypeOK, InFlightInv, AccountsInv, Subscribed',
                    FifoInv, [Next]_vars
             PROVE  FifoInv'
  OBVIOUS
<1>1. CASE UNCHANGED vars
  BY <1>1, FifoSame DEF vars, logVars, busVars, claimVars, envVars
<1> QED  BY <1>1, FifoLoop, FifoRun, FifoClient, FifoProcess DEF Next

(* While nothing is cancelled, policies stay as they are and the           *)
(* subscription lasts, tasks of one session are dispatched in the order in *)
(* which they were queued, for any number of sessions, tasks, deferrals    *)
(* and crashes, and whenever the windows open and close.                   *)
THEOREM SessionsAreFifo ==
  ASSUME NothingCancels, Settable = {}
  PROVE  Spec /\ []Subscribed => SessionIsFifo
<1> DEFINE Oldest == \A t \in Tasks : Dispatches(t) =>
                       \A u \in Tasks : u < t /\ owner[u] = owner[t] => status[u] # "queued"
<1>1. TypeOK /\ InFlightInv /\ AccountsInv /\ FifoInv /\ [Next]_vars => [Oldest]_vars
  <2> SUFFICES ASSUME TypeOK, InFlightInv, AccountsInv, FifoInv, Next, NEW t \in Tasks, Dispatches(t),
                      NEW u \in Tasks, u < t, owner[u] = owner[t], status[u] = "queued"
               PROVE  FALSE
    OBVIOUS
  <2>1. Dispatch /\ t = slot.task
    BY OnlyDispatch
  <2>2. /\ slot.phase = "claiming" /\ slot.sess \in Sessions
        /\ slot.task \in Waiting(logged, slot.sess)
    BY <2>1, TakenSlot DEF Dispatch, TypeOK, AccountsInv, SlotInv
  <2>3. owner[t] = slot.sess
    BY <2>1, <2>2 DEF AccountsInv, PlacesInv
  <2>4. u \in Waiting(logged, slot.sess)
    BY <2>2, <2>3 DEF AccountsInv, PlacesInv
  <2>5. t <= u
    BY <2>1, <2>2, <2>4 DEF FifoInv, ClaimIsFirst
  <2>6. t \in Nat /\ u \in Nat
    BY ProjectionAssumption DEF Tasks
  <2> QED  BY <2>5, <2>6
<1>2. Spec /\ []Subscribed => []FifoInv
  <2>1. TypeOK /\ InFlightInv /\ AccountsInv /\ Subscribed' /\ FifoInv /\ [Next]_vars => FifoInv'
    BY FifoStep
  <2> QED  BY <2>1, FifoInit, AccountsAlways, TypeCorrect, InFlightCorrect, PTL DEF Spec
<1> QED  BY <1>1, <1>2, AccountsAlways, TypeCorrect, InFlightCorrect, PTL DEF Spec, SessionIsFifo

-----------------------------------------------------------------------------
(* The order of the ready tasks.                                           *)

(* A recursion over D: F is the body, whose value at x asks only for       *)
(* values of a smaller measure.  It has a solution.                        *)
Recurs(D, K, F, mu) ==
  /\ K # {} /\ F \in [[D -> K] -> [D -> K]] /\ mu \in [D -> Nat]
  /\ \A h, k \in [D -> K] : \A x \in D :
       (\A y \in D : mu[y] < mu[x] => h[y] = k[y]) => F[h][x] = F[k][x]

LEMMA Recursion ==
  ASSUME NEW D, NEW K, NEW F, NEW mu, Recurs(D, K, F, mu)
  PROVE  \E h \in [D -> K] : h = F[h]
<1> DEFINE H == [D -> K]
           Solves(h, m) == \A x \in D : mu[x] < m => h[x] = F[h][x]
           Solved == {m \in Nat : \E h \in H : Solves(h, m)}
<1>0. /\ F \in [H -> H] /\ \A x \in D : mu[x] \in Nat
      /\ \A h, k \in H : \A x \in D :
           (\A y \in D : mu[y] < mu[x] => h[y] = k[y]) => F[h][x] = F[k][x]
  BY DEF Recurs
<1>1. 0 \in Solved
  <2>1. PICK z \in K : TRUE
    BY DEF Recurs
  <2> DEFINE h == [x \in D |-> z]
  <2>2. h \in H /\ Solves(h, 0)
    BY <1>0
  <2> HIDE DEF h, H, Solves
  <2> QED  BY <2>2
<1>2. \A m \in Solved : m + 1 \in Solved
  <2> SUFFICES ASSUME NEW m \in Nat, NEW h \in H, Solves(h, m)
               PROVE  m + 1 \in Solved
    OBVIOUS
  <2> DEFINE k == F[h]
  <2>1. k \in H
    BY <1>0
  <2>2. ASSUME NEW x \in D, mu[x] < m + 1  PROVE k[x] = F[k][x]
    <3>1. ASSUME NEW y \in D, mu[y] < mu[x]  PROVE h[y] = k[y]
      <4>1. mu[y] \in Nat /\ mu[x] \in Nat
        BY <1>0
      <4>2. mu[y] < m
        BY <4>1, <3>1, <2>2
      <4> QED  BY <4>2
    <3> HIDE DEF k, H
    <3> QED  BY <1>0, <3>1, <2>1 DEF k
  <2>3. Solves(k, m + 1)
    BY <2>2
  <2> HIDE DEF k, Solves, H
  <2> QED  BY <2>1, <2>3
<1>3. Solved = Nat
  <2> HIDE DEF Solved
  <2>1. Solved \in SUBSET Nat
    BY DEF Solved
  <2> QED  BY <1>1, <1>2, <2>1, Induction
<1>4. ASSUME NEW h \in H, NEW k \in H, NEW m \in Nat, Solves(h, m), Solves(k, m)
      PROVE  \A x \in D : mu[x] < m => h[x] = k[x]
  <2> DEFINE Differ == {n \in Nat : \E x \in D : mu[x] = n /\ n < m /\ h[x] # k[x]}
  <2>1. Differ = {}
    <3> SUFFICES ASSUME Differ # {}  PROVE FALSE
      OBVIOUS
    <3>1. PICK n \in Differ : \A l \in Differ : n <= l
      <4>1. Differ \in SUBSET Nat
        OBVIOUS
      <4> HIDE DEF Differ
      <4> QED  BY <4>1, LeastNatural
    <3>2. PICK x \in D : mu[x] = n /\ n < m /\ h[x] # k[x]
      BY <3>1
    <3>3. ASSUME NEW y \in D, mu[y] < mu[x]  PROVE h[y] = k[y]
      <4>1. mu[y] \in Nat /\ n \in Nat
        BY <1>0
      <4>2. mu[y] < m /\ ~(n <= mu[y])
        BY <3>2, <3>3, <4>1
      <4> QED  BY <3>1, <4>1, <4>2
    <3>4. F[h][x] = F[k][x]
      <4> HIDE DEF H
      <4> QED  BY <1>0, <3>3
    <3> QED  BY <1>4, <3>2, <3>4
  <2> QED  BY <1>0, <2>1
<1> DEFINE Sol(m) == CHOOSE h \in H : Solves(h, m)
           g == [x \in D |-> Sol(mu[x] + 1)[x]]
<1>5. \A m \in Nat : Sol(m) \in H /\ Solves(Sol(m), m)
  <2> HIDE DEF H, Solves
  <2> QED  BY <1>3
<1>6. g \in H
  <2>1. ASSUME NEW x \in D  PROVE Sol(mu[x] + 1)[x] \in K
    <3>1. mu[x] + 1 \in Nat
      BY <1>0
    <3> HIDE DEF Sol
    <3> QED  BY <1>5, <3>1
  <2> HIDE DEF Sol
  <2> QED  BY <2>1
<1>7. ASSUME NEW x \in D  PROVE g[x] = F[g][x]
  <2> DEFINE h == Sol(mu[x] + 1)
  <2>0. mu[x] + 1 \in Nat /\ mu[x] < mu[x] + 1
    BY <1>0
  <2>1. h \in H /\ Solves(h, mu[x] + 1)
    BY <1>5, <2>0
  <2>2. g[x] = h[x]
    OBVIOUS
  <2> HIDE DEF h
  <2>3. h[x] = F[h][x]
    BY <2>0, <2>1
  <2>4. ASSUME NEW y \in D, mu[y] < mu[x]  PROVE h[y] = g[y]
    <3> DEFINE k == Sol(mu[y] + 1)
    <3>0. mu[y] \in Nat /\ mu[x] \in Nat /\ mu[y] + 1 \in Nat
      BY <1>0
    <3>1. k \in H /\ Solves(k, mu[y] + 1)
      BY <1>5, <3>0
    <3>2. g[y] = k[y]
      OBVIOUS
    <3> HIDE DEF k, g
    <3>3. \A z \in D : mu[z] < mu[y] + 1 => mu[z] < mu[x] + 1
      BY <1>0, <2>4, <3>0
    <3>4. Solves(h, mu[y] + 1)
      BY <2>1, <3>3
    <3>5. mu[y] < mu[y] + 1
      BY <3>0
    <3>6. \A z \in D : mu[z] < mu[y] + 1 => h[z] = k[z]
      <4> HIDE DEF H, Solves
      <4> QED  BY <1>4, <2>1, <3>0, <3>1, <3>4
    <3> QED  BY <3>2, <3>5, <3>6
  <2>5. F[h][x] = F[g][x]
    <3> HIDE DEF g, H
    <3> QED  BY <1>0, <1>6, <2>1, <2>4
  <2> QED  BY <2>2, <2>3, <2>5
<1>8. g = F[g]
  <2>1. g \in [D -> K] /\ F[g] \in [D -> K]
    <3> HIDE DEF g
    <3> QED  BY <1>0, <1>6
  <2> HIDE DEF g
  <2> QED  BY <1>7, <2>1
<1> HIDE DEF g
<1> QED  BY <1>6, <1>8

(* What is left to order: the places of the queues.                        *)
Seats(u) == {p \in Sessions \X Nat : p[2] \in 1 .. Len(u.queued[p[1]])}

Left(u) == Cardinality(Seats(u))

LEMMA SeatsFinite ==
  ASSUME IsFiniteSet(Sessions), NEW u \in View
  PROVE  IsFiniteSet(Seats(u)) /\ Left(u) \in Nat
<1> DEFINE row == [s \in Sessions |-> {s} \X (1 .. Len(u.queued[s]))]
           rows == {row[s] : s \in Sessions}
<1>1. ASSUME NEW s \in Sessions  PROVE IsFiniteSet(row[s])
  <2>1. Len(u.queued[s]) \in Nat
    BY DEF View
  <2>2. IsFiniteSet({s})
    BY FS_Singleton
  <2>3. IsFiniteSet(1 .. Len(u.queued[s]))
    <3>1. 1 \in Int /\ Len(u.queued[s]) \in Int
      BY <2>1
    <3> QED  BY <3>1, FS_Interval
  <2> QED  BY <2>2, <2>3, FS_Product
<1>2. row \in Surjection(Sessions, rows)
  BY DEF Surjection
<1>3. IsFiniteSet(rows)
  <2> HIDE DEF row, rows
  <2> QED  BY <1>2, FS_Surjection
<1>4. \A r \in rows : IsFiniteSet(r)
  BY <1>1
<1>5. IsFiniteSet(UNION rows)
  <2> HIDE DEF rows
  <2> QED  BY <1>3, <1>4, FS_UNION
<1>6. Seats(u) \in SUBSET UNION rows
  BY DEF Seats
<1>7. IsFiniteSet(Seats(u))
  <2> HIDE DEF rows
  <2> QED  BY <1>5, <1>6, FS_Subset
<1> QED  BY <1>7, FS_CardinalityType DEF Left

(* The view once the head of the queue of s is taken.                      *)
Taken(u, s) == [u EXCEPT !.queued[s] = Tail(@)]

LEMMA TakenLeaves ==
  ASSUME NEW u \in View, NEW s \in Sessions, u.queued[s] # <<>>
  PROVE  /\ Taken(u, s) \in View
         /\ \A r \in Sessions : Taken(u, s).queued[r] = IF r = s THEN Tail(u.queued[s]) ELSE u.queued[r]
         /\ Taken(u, s).running = u.running
         /\ Head(u.queued[s]) \in Tasks
         /\ IsFiniteSet(Sessions) => Left(Taken(u, s)) < Left(u)
<1>1. u.queued \in [Sessions -> Seq(Tasks)] /\ u.queued[s] \in Seq(Tasks)
  BY DEF View
<1>2. Tail(u.queued[s]) \in Seq(Tasks) /\ Head(u.queued[s]) \in Tasks
  BY <1>1
<1>3. /\ Taken(u, s) \in View
      /\ \A r \in Sessions : Taken(u, s).queued[r] = IF r = s THEN Tail(u.queued[s]) ELSE u.queued[r]
      /\ Taken(u, s).running = u.running
  BY <1>1, <1>2 DEF Taken, View
<1>4. ASSUME IsFiniteSet(Sessions)  PROVE Left(Taken(u, s)) < Left(u)
  <2> DEFINE n == Len(u.queued[s])
             p == <<s, n>>
  <2>1. n \in Nat /\ n > 0 /\ Len(Tail(u.queued[s])) = n - 1
    BY <1>1
  <2>2. p \in Seats(u)
    BY <2>1 DEF Seats
  <2>3. Seats(Taken(u, s)) \in SUBSET (Seats(u) \ {p})
    <3> SUFFICES ASSUME NEW r \in Sessions, NEW i \in Nat, <<r, i>> \in Seats(Taken(u, s))
                 PROVE  <<r, i>> \in Seats(u) /\ <<r, i>> # p
      BY DEF Seats
    <3>1. i \in 1 .. Len(Taken(u, s).queued[r])
      BY DEF Seats
    <3>2. CASE r = s
      <4>1. i \in 1 .. n - 1
        BY <1>3, <2>1, <3>1, <3>2
      <4>2. i \in 1 .. n /\ i # n
        BY <2>1, <4>1
      <4> QED  BY <3>2, <4>2 DEF Seats
    <3>3. CASE r # s
      BY <1>3, <3>1, <3>3 DEF Seats
    <3> QED  BY <3>2, <3>3
  <2> HIDE DEF p
  <2>4. IsFiniteSet(Seats(u)) /\ Left(u) \in Nat
    BY <1>4, SeatsFinite
  <2>5. IsFiniteSet(Seats(u) \ {p}) /\ Cardinality(Seats(u) \ {p}) = Left(u) - 1
    BY <2>2, <2>4, FS_RemoveElement DEF Left
  <2>6. Left(Taken(u, s)) <= Left(u) - 1
    BY <2>3, <2>5, FS_Subset DEF Left
  <2>7. Left(Taken(u, s)) \in Nat
    BY <1>3, <1>4, SeatsFinite
  <2> QED  BY <2>4, <2>6, <2>7
<1> QED  BY <1>2, <1>3, <1>4

(* Of the sessions that compete, one comes before no other.                *)
Best(u) == CHOOSE s \in Candidates(u) : \A r \in Candidates(u) : ~Before(u, r, s)

LEMMA BestChosen ==
  ASSUME NEW u \in View, index \subseteq Sessions, priority \in [Sessions -> 1 .. MaxPriority],
         Candidates(u) # {}
  PROVE  Best(u) \in Candidates(u) /\ \A r \in Candidates(u) : ~Before(u, r, Best(u))
<1> DEFINE C == Candidates(u)
           top == {m \in Nat : \E s \in C : MaxPriority - priority[s] = m}
<1>0. /\ MaxPriority \in Nat /\ Tasks \subseteq Nat
      /\ \A s \in C : s \in Sessions /\ priority[s] \in Nat /\ MaxPriority - priority[s] \in Nat
                      /\ Head(u.queued[s]) \in Tasks
  <2>1. MaxPriority \in Nat /\ Tasks \subseteq Nat
    BY DispatcherAssumption, ProjectionAssumption DEF Tasks
  <2>2. ASSUME NEW s \in C
        PROVE  s \in Sessions /\ priority[s] \in Nat /\ MaxPriority - priority[s] \in Nat
               /\ Head(u.queued[s]) \in Tasks
    <3>1. s \in Sessions /\ priority[s] \in 1 .. MaxPriority /\ u.queued[s] # <<>>
      BY DEF Candidates
    <3>2. u.queued[s] \in Seq(Tasks)
      BY <3>1 DEF View
    <3> QED  BY <2>1, <3>1, <3>2
  <2> QED  BY <2>1, <2>2
<1> HIDE DEF C
<1>1. PICK m \in top : \A l \in top : m <= l
  <2>1. top \in SUBSET Nat /\ top # {}
    BY <1>0 DEF C
  <2> HIDE DEF top
  <2> QED  BY <2>1, LeastNatural
<1> DEFINE heads == {t \in Nat : \E s \in C : MaxPriority - priority[s] = m /\ Head(u.queued[s]) = t}
<1>2. PICK t \in heads : \A l \in heads : t <= l
  <2>1. heads \in SUBSET Nat /\ heads # {}
    BY <1>0, <1>1
  <2> HIDE DEF heads
  <2> QED  BY <2>1, LeastNatural
<1>3. PICK s \in C : MaxPriority - priority[s] = m /\ Head(u.queued[s]) = t
  BY <1>2
<1>4. ASSUME NEW r \in C  PROVE ~Before(u, r, s)
  <2>1. MaxPriority - priority[r] \in top
    BY <1>0
  <2>2. m <= MaxPriority - priority[r] /\ m \in Nat
    BY <1>1, <2>1
  <2>3. ~(priority[r] > priority[s])
    BY <1>0, <1>3, <2>2
  <2>4. priority[r] = priority[s] => Head(u.queued[r]) \in heads
    BY <1>0, <1>3
  <2>5. priority[r] = priority[s] => ~(Head(u.queued[r]) < Head(u.queued[s]))
    <3>1. t \in Nat /\ Head(u.queued[r]) \in Nat
      BY <1>0, <1>2
    <3> QED  BY <1>2, <1>3, <2>4, <3>1
  <2> QED  BY <2>3, <2>5 DEF Before
<1> QED  BY <1>3, <1>4 DEF Best, C

(* What holds of a view whenever it holds of it without its best head      *)
(* holds of every view.                                                    *)
LEMMA OrderInduction ==
  ASSUME IsFiniteSet(Sessions), index \subseteq Sessions, priority \in [Sessions -> 1 .. MaxPriority],
         NEW S, \A u \in View : Candidates(u) = {} \/ Taken(u, Best(u)) \in S => u \in S
  PROVE  \A u \in View : u \in S
<1> DEFINE Bad == {n \in Nat : \E u \in View : Left(u) = n /\ u \notin S}
<1>1. Bad = {}
  <2> SUFFICES ASSUME Bad # {}  PROVE FALSE
    OBVIOUS
  <2>1. PICK n \in Bad : \A l \in Bad : n <= l
    <3>1. Bad \in SUBSET Nat
      OBVIOUS
    <3> HIDE DEF Bad
    <3> QED  BY <3>1, LeastNatural
  <2>2. PICK u \in View : Left(u) = n /\ u \notin S
    BY <2>1
  <2>3. Candidates(u) # {} /\ Taken(u, Best(u)) \notin S
    BY <2>2
  <2>4. Best(u) \in Sessions /\ u.queued[Best(u)] # <<>>
    BY <2>3, BestChosen DEF Candidates
  <2>5. Taken(u, Best(u)) \in View /\ Left(Taken(u, Best(u))) < n
    BY <2>2, <2>4, TakenLeaves
  <2>6. Left(Taken(u, Best(u))) \in Nat /\ n \in Nat
    BY <2>5, SeatsFinite, <2>1
  <2>7. Left(Taken(u, Best(u))) \in Bad
    BY <2>3, <2>5, <2>6
  <2> QED  BY <2>1, <2>5, <2>6, <2>7
<1>2. ASSUME NEW u \in View, u \notin S  PROVE FALSE
  <2>1. Left(u) \in Bad
    BY <1>2, SeatsFinite
  <2> QED  BY <1>1, <2>1
<1> QED  BY <1>2

(* order_ready_candidates, one task at a time.                             *)
LEMMA OrderUnfolds ==
  ASSUME IsFiniteSet(Sessions), index \subseteq Sessions, priority \in [Sessions -> 1 .. MaxPriority]
  PROVE  \A u \in View :
           /\ DispatchOrder(u) \in Seq(Tasks)
           /\ DispatchOrder(u) = IF Candidates(u) = {} THEN <<>>
                                 ELSE <<Head(u.queued[Best(u)])>> \o DispatchOrder(Taken(u, Best(u)))
<1> DEFINE K == Seq(Tasks)
           H == [View -> K]
           G(h) == [u \in View |-> IF Candidates(u) = {} THEN <<>>
                                   ELSE <<Head(u.queued[Best(u)])>> \o h[Taken(u, Best(u))]]
           F == [h \in H |-> G(h)]
           mu == [u \in View |-> Left(u)]
           order == CHOOSE h : h = G(h)
<1>1. ASSUME NEW u \in View, Candidates(u) # {}
      PROVE  /\ Taken(u, Best(u)) \in View /\ Left(Taken(u, Best(u))) < Left(u)
             /\ Head(u.queued[Best(u)]) \in Tasks
  <2>1. Best(u) \in Candidates(u)
    BY <1>1, BestChosen
  <2>2. Best(u) \in Sessions /\ u.queued[Best(u)] # <<>>
    BY <2>1 DEF Candidates
  <2> QED  BY <2>2, TakenLeaves
<1>2. \A h \in H : G(h) \in H
  <2> SUFFICES ASSUME NEW h \in H, NEW u \in View, Candidates(u) # {}
               PROVE  <<Head(u.queued[Best(u)])>> \o h[Taken(u, Best(u))] \in K
    OBVIOUS
  <2>1. Head(u.queued[Best(u)]) \in Tasks /\ h[Taken(u, Best(u))] \in Seq(Tasks)
    BY <1>1
  <2> QED  BY <2>1
<1>3. F \in [H -> H]
  <2> HIDE DEF G, H
  <2> QED  BY <1>2
<1>4. ASSUME NEW h \in H, NEW k \in H, NEW u \in View,
             \A w \in View : mu[w] < mu[u] => h[w] = k[w]
      PROVE  F[h][u] = F[k][u]
  <2>1. F[h] = G(h) /\ F[k] = G(k)
    <3> HIDE DEF G, H
    <3> QED  OBVIOUS
  <2>2. Candidates(u) # {} => h[Taken(u, Best(u))] = k[Taken(u, Best(u))]
    BY <1>1, <1>4
  <2>3. G(h)[u] = G(k)[u]
    <3> HIDE DEF H
    <3> QED  BY <2>2
  <2> HIDE DEF F, G, H
  <2> QED  BY <2>1, <2>3
<1>5. PICK h \in H : h = F[h]
  <2>1. mu \in [View -> Nat]
    BY SeatsFinite
  <2>2. K # {}
    <3>1. <<>> \in K
      OBVIOUS
    <3> QED  BY <3>1
  <2> HIDE DEF F, mu, K
  <2>3. Recurs(View, K, F, mu)
    BY <1>3, <1>4, <2>1, <2>2 DEF Recurs
  <2> QED  BY <2>3, Recursion
<1>6. h = G(h)
  <2> HIDE DEF G, H
  <2> QED  BY <1>5
<1>7. order = G(order)
  <2> HIDE DEF G
  <2> QED  BY <1>6
<1>8. \A u \in View : DispatchOrder(u) = order[u]
  BY DEF DispatchOrder, Best, Taken
<1> HIDE DEF order
<1>9. \A u \in View : order[u] = IF Candidates(u) = {} THEN <<>>
                               ELSE <<Head(u.queued[Best(u)])>> \o order[Taken(u, Best(u))]
  BY <1>7
<1>10. \A u \in View : order[u] \in Seq(Tasks)
  <2> DEFINE S == {u \in View : order[u] \in Seq(Tasks)}
  <2>1. ASSUME NEW u \in View, Candidates(u) = {} \/ Taken(u, Best(u)) \in S  PROVE u \in S
    <3>1. CASE Candidates(u) = {}
      <4>1. order[u] = <<>>
        BY <1>9, <3>1
      <4>2. <<>> \in Seq(Tasks)
        OBVIOUS
      <4> QED  BY <4>1, <4>2
    <3>2. CASE Candidates(u) # {}
      <4>1. Head(u.queued[Best(u)]) \in Tasks /\ order[Taken(u, Best(u))] \in Seq(Tasks)
        BY <1>1, <2>1, <3>2
      <4>2. <<Head(u.queued[Best(u)])>> \o order[Taken(u, Best(u))] \in Seq(Tasks)
        BY <4>1
      <4> QED  BY <1>9, <3>2, <4>2
    <3> QED  BY <3>1, <3>2
  <2>2. \A u \in View : u \in S
    <3> HIDE DEF S
    <3> QED  BY <2>1, OrderInduction
  <2> QED  BY <2>2
<1>11. ASSUME NEW u \in View, Candidates(u) # {}
       PROVE  DispatchOrder(Taken(u, Best(u))) = order[Taken(u, Best(u))]
  BY <1>1, <1>8, <1>11
<1> QED
  <2> HIDE DEF K, H, G, F, mu
  <2> QED  BY <1>8, <1>9, <1>10, <1>11

(* The tasks that may run now.                                             *)
Ready(u) == {t \in Tasks : \E s \in Candidates(u) : t \in Waiting(u, s)}

(* No task waits twice.                                                    *)
Apart(u) ==
  /\ AllDistinct(u)
  /\ \A r, s \in Sessions : r # s => Waiting(u, r) \cap Waiting(u, s) = {}

LEMMA TailOf ==
  ASSUME NEW q \in Seq(Tasks), q # <<>>
  PROVE  /\ \A t : t \in Elements(q) <=> t = Head(q) \/ t \in Elements(Tail(q))
         /\ Distinct(q) => Distinct(Tail(q)) /\ Head(q) \notin Elements(Tail(q))
         /\ Ascending(q) => Ascending(Tail(q)) /\ \A t \in Elements(Tail(q)) : Head(q) < t
<1> DEFINE w == Tail(q)
<1>1. /\ Len(q) \in Nat /\ Len(q) > 0 /\ Len(w) = Len(q) - 1 /\ Head(q) = q[1]
      /\ \A i \in 1 .. Len(q) - 1 : w[i] = q[i + 1]
  OBVIOUS
<1> HIDE DEF w
<1>2. \A i \in 1 .. Len(w) : i + 1 \in 1 .. Len(q) /\ w[i] = q[i + 1] /\ i + 1 # 1 /\ 1 < i + 1
  BY <1>1
<1>3. \A i \in 1 .. Len(q) : i # 1 => i - 1 \in 1 .. Len(w) /\ w[i - 1] = q[i]
  <2> SUFFICES ASSUME NEW i \in 1 .. Len(q), i # 1
               PROVE  i - 1 \in 1 .. Len(w) /\ w[i - 1] = q[i]
    OBVIOUS
  <2>1. i - 1 \in 1 .. Len(w) /\ i - 1 + 1 = i
    BY <1>1
  <2> QED  BY <1>2, <2>1
<1>4. 1 \in 1 .. Len(q)
  BY <1>1
<1>5. ASSUME NEW t  PROVE t \in Elements(q) <=> t = Head(q) \/ t \in Elements(w)
  <2>1. t \in Elements(q) => t = Head(q) \/ t \in Elements(w)
    BY <1>1, <1>3 DEF Elements
  <2>2. t = Head(q) \/ t \in Elements(w) => t \in Elements(q)
    BY <1>1, <1>2, <1>4 DEF Elements
  <2> QED  BY <2>1, <2>2
<1>6. ASSUME Distinct(q)  PROVE Distinct(w) /\ Head(q) \notin Elements(w)
  <2>1. Head(q) \notin Elements(w)
    BY <1>1, <1>2, <1>4, <1>6 DEF Distinct, Elements
  <2>2. ASSUME NEW i \in 1 .. Len(w), NEW j \in 1 .. Len(w), w[i] = w[j]  PROVE i = j
    <3>1. i + 1 = j + 1
      BY <1>2, <1>6, <2>2 DEF Distinct
    <3> QED  BY <1>1, <3>1
  <2> QED  BY <2>1, <2>2 DEF Distinct
<1>7. ASSUME Ascending(q)  PROVE Ascending(w) /\ \A t \in Elements(w) : Head(q) < t
  <2>1. \A t \in Elements(w) : Head(q) < t
    BY <1>1, <1>2, <1>4, <1>7 DEF Ascending, Elements
  <2>2. ASSUME NEW i \in 1 .. Len(w), NEW j \in 1 .. Len(w), i < j  PROVE w[i] < w[j]
    <3>1. i + 1 < j + 1
      BY <1>1, <2>2
    <3> QED  BY <1>2, <1>7, <3>1 DEF Ascending
  <2> QED  BY <2>1, <2>2 DEF Ascending
<1> QED  BY <1>5, <1>6, <1>7 DEF w

(* Taking the head of a candidate takes one task from those that are ready.*)
LEMMA TakenReady ==
  ASSUME NEW u \in View, index \subseteq Sessions, NEW s \in Candidates(u), Apart(u)
  PROVE  /\ Apart(Taken(u, s))
         /\ Head(u.queued[s]) \in Ready(u)
         /\ \A t : t \in Ready(Taken(u, s)) <=> t \in Ready(u) /\ t # Head(u.queued[s])
<1> DEFINE w == Taken(u, s)
           x == Head(u.queued[s])
<1>0. /\ s \in Sessions /\ u.queued[s] # <<>> /\ x \in Tasks
      /\ \A r \in Sessions : u.queued[r] \in Seq(Tasks)
  <2>1. s \in Sessions /\ u.queued[s] # <<>>
    BY DEF Candidates
  <2> QED  BY <2>1 DEF View
<1>1. \A r \in Sessions : w.queued[r] = IF r = s THEN Tail(u.queued[s]) ELSE u.queued[r]
  BY <1>0, TakenLeaves
<1>2. \A v, r : Waiting(v, r) = Elements(v.queued[r])
  BY DEF Waiting, Elements
<1>3. /\ \A t : t \in Waiting(u, s) <=> t = x \/ t \in Waiting(w, s)
      /\ Distinct(w.queued[s]) /\ x \notin Waiting(w, s)
  <2>1. u.queued[s] \in Seq(Tasks) /\ Distinct(u.queued[s]) /\ w.queued[s] = Tail(u.queued[s])
    BY <1>0, <1>1 DEF Apart, AllDistinct
  <2> HIDE DEF w
  <2> QED  BY <1>0, <1>2, <2>1, TailOf
<1>4. \A r \in Sessions : r # s => w.queued[r] = u.queued[r] /\ Waiting(w, r) = Waiting(u, r)
  BY <1>1, <1>2
<1>5. \A r \in Sessions : Waiting(u, r) \subseteq Tasks
  BY <1>0, <1>2 DEF Elements
<1>6. \A r \in Sessions : r \in Candidates(w) <=> r \in Candidates(u) /\ w.queued[r] # <<>>
  BY <1>0, <1>1 DEF Candidates
<1> HIDE DEF w, x
<1>7. Apart(w)
  <2>1. AllDistinct(w)
    BY <1>3, <1>4 DEF Apart, AllDistinct
  <2>2. \A r \in Sessions : Waiting(w, r) \subseteq Waiting(u, r)
    BY <1>3, <1>4
  <2>3. \A r, q \in Sessions : r # q => Waiting(w, r) \cap Waiting(w, q) = {}
    BY <2>2 DEF Apart
  <2> QED  BY <2>1, <2>3 DEF Apart
<1>8. x \in Ready(u)
  BY <1>0, <1>3 DEF Ready
<1>9. ASSUME NEW t, t \in Ready(w)  PROVE t \in Ready(u) /\ t # x
  <2>1. PICK r \in Candidates(w) : t \in Waiting(w, r)
    BY <1>9 DEF Ready
  <2>2. r \in Sessions /\ r \in Candidates(u)
    BY <1>6, <2>1 DEF Candidates
  <2>3. t \in Waiting(u, r)
    BY <1>3, <1>4, <2>1, <2>2
  <2>4. t # x
    <3>1. CASE r = s
      BY <1>3, <2>1, <3>1
    <3>2. CASE r # s
      BY <1>0, <1>3, <2>2, <2>3, <3>2 DEF Apart
    <3> QED  BY <3>1, <3>2
  <2> QED  BY <1>5, <2>2, <2>3, <2>4 DEF Ready
<1>10. ASSUME NEW t, t \in Ready(u), t # x  PROVE t \in Ready(w)
  <2>1. PICK r \in Candidates(u) : t \in Waiting(u, r)
    BY <1>10 DEF Ready
  <2>2. r \in Sessions
    BY <2>1 DEF Candidates
  <2>3. t \in Waiting(w, r)
    BY <1>3, <1>4, <1>10, <2>1, <2>2
  <2>4. w.queued[r] # <<>>
    BY <2>3 DEF Waiting
  <2>5. r \in Candidates(w)
    BY <1>6, <2>1, <2>2, <2>4
  <2> QED  BY <1>5, <2>1, <2>2, <2>3, <2>5 DEF Ready
<1> QED  BY <1>7, <1>8, <1>9, <1>10 DEF w, x

(* The order lists every ready task once.                                  *)
LEMMA OrderCovers ==
  ASSUME IsFiniteSet(Sessions), index \subseteq Sessions, priority \in [Sessions -> 1 .. MaxPriority],
         NEW u \in View, Apart(u)
  PROVE  Distinct(DispatchOrder(u)) /\ Elements(DispatchOrder(u)) = Ready(u)
<1> DEFINE S == {v \in View : Apart(v) => Distinct(DispatchOrder(v)) /\ Elements(DispatchOrder(v)) = Ready(v)}
<1>1. ASSUME NEW v \in View, Candidates(v) = {} \/ Taken(v, Best(v)) \in S, Apart(v)
      PROVE  Distinct(DispatchOrder(v)) /\ Elements(DispatchOrder(v)) = Ready(v)
  <2>1. CASE Candidates(v) = {}
    <3>1. DispatchOrder(v) = <<>> /\ Ready(v) = {}
      BY <2>1, OrderUnfolds DEF Ready
    <3>2. Distinct(<<>>) /\ Elements(<<>>) = {}
      BY DEF Distinct, Elements
    <3> QED  BY <3>1, <3>2
  <2>2. CASE Candidates(v) # {}
    <3> DEFINE w == Taken(v, Best(v))
               x == Head(v.queued[Best(v)])
               q == DispatchOrder(w)
    <3>1. Best(v) \in Candidates(v) /\ Best(v) \in Sessions /\ v.queued[Best(v)] # <<>>
      BY <2>2, BestChosen DEF Candidates
    <3>2. w \in View /\ x \in Tasks
      BY <3>1, TakenLeaves
    <3>3. q \in Seq(Tasks) /\ DispatchOrder(v) = <<x>> \o q
      BY <2>2, <3>2, OrderUnfolds
    <3>4. /\ Apart(w) /\ x \in Ready(v)
          /\ \A t : t \in Ready(w) <=> t \in Ready(v) /\ t # x
      BY <1>1, <3>1, TakenReady
    <3>5. Distinct(q) /\ Elements(q) = Ready(w)
      BY <1>1, <2>2, <3>4
    <3> HIDE DEF q, x, w
    <3>6. x \notin Elements(q)
      BY <3>4, <3>5
    <3>7. /\ Distinct(<<x>> \o q)
          /\ \A t : t \in Elements(<<x>> \o q) <=> t \in Elements(q) \/ t = x
      BY <3>2, <3>3, <3>5, <3>6, PrependDistinct
    <3>8. \A t : t \in Elements(<<x>> \o q) <=> t \in Ready(v)
      BY <3>4, <3>5, <3>7
    <3> QED  BY <3>3, <3>7, <3>8
  <2> QED  BY <2>1, <2>2
<1>2. \A v \in View : v \in S
  <2>1. \A v \in View : Candidates(v) = {} \/ Taken(v, Best(v)) \in S => v \in S
    BY <1>1
  <2> HIDE DEF S
  <2> QED  BY <2>1, OrderInduction
<1> QED  BY <1>2

(* The queues ascend, and what waits in a session belongs to it.           *)
Ranked(u) ==
  /\ AllAscend(u)
  /\ \A s \in Sessions : \A t \in Waiting(u, s) : owner[t] = s

InRank(q) == \A i, j \in 1 .. Len(q) : i < j => Outranks(q[i], q[j])

LEMMA PrependRanks ==
  ASSUME NEW q \in Seq(Tasks), NEW x \in Tasks, InRank(q), \A t \in Elements(q) : Outranks(x, t)
  PROVE  InRank(<<x>> \o q)
<1> DEFINE w == <<x>> \o q
<1>1. /\ Len(q) \in Nat /\ Len(w) = Len(q) + 1 /\ w[1] = x
      /\ \A i \in 1 .. Len(q) : w[i + 1] = q[i]
  OBVIOUS
<1> HIDE DEF w
<1>2. \A i \in 1 .. Len(w) : i # 1 => (i - 1 \in 1 .. Len(q) /\ w[i] = q[i - 1] /\ w[i] \in Elements(q))
  <2> SUFFICES ASSUME NEW i \in 1 .. Len(w), i # 1
               PROVE  i - 1 \in 1 .. Len(q) /\ w[i] = q[i - 1] /\ w[i] \in Elements(q)
    OBVIOUS
  <2>1. i - 1 \in 1 .. Len(q) /\ i - 1 + 1 = i
    BY <1>1
  <2> QED  BY <1>1, <2>1 DEF Elements
<1>3. ASSUME NEW i \in 1 .. Len(w), NEW j \in 1 .. Len(w), i < j  PROVE Outranks(w[i], w[j])
  <2>1. j # 1 /\ i \in Nat /\ j \in Nat
    BY <1>1, <1>3
  <2>2. CASE i = 1
    BY <1>1, <1>2, <2>1, <2>2
  <2>3. CASE i # 1
    <3>1. /\ i - 1 \in 1 .. Len(q) /\ j - 1 \in 1 .. Len(q) /\ i - 1 < j - 1
          /\ w[i] = q[i - 1] /\ w[j] = q[j - 1]
      BY <1>2, <1>3, <2>1, <2>3
    <3> QED  BY <3>1 DEF InRank
  <2> QED  BY <2>2, <2>3
<1> QED  BY <1>3 DEF InRank, w

(* The best head comes before whatever else is ready.                      *)
LEMMA BestOutranks ==
  ASSUME NEW u \in View, index \subseteq Sessions, priority \in [Sessions -> 1 .. MaxPriority],
         Candidates(u) # {}, Apart(u), Ranked(u)
  PROVE  /\ Ranked(Taken(u, Best(u)))
         /\ \A t \in Ready(Taken(u, Best(u))) : Outranks(Head(u.queued[Best(u)]), t)
<1> DEFINE b == Best(u)
           w == Taken(u, b)
           x == Head(u.queued[b])
<1>0. b \in Candidates(u) /\ \A r \in Candidates(u) : ~Before(u, r, b)
  BY BestChosen
<1> HIDE DEF b
<1>1. /\ b \in Sessions /\ u.queued[b] # <<>> /\ x \in Tasks
      /\ \A r \in Sessions : u.queued[r] \in Seq(Tasks)
  <2>1. b \in Sessions /\ u.queued[b] # <<>>
    BY <1>0 DEF Candidates
  <2> QED  BY <2>1 DEF View
<1>2. \A r \in Sessions : w.queued[r] = IF r = b THEN Tail(u.queued[b]) ELSE u.queued[r]
  BY <1>1, TakenLeaves
<1>3. \A v, r : Waiting(v, r) = Elements(v.queued[r])
  BY DEF Waiting, Elements
<1> HIDE DEF w, x
<1>4. /\ x = Head(u.queued[b])
      /\ \A t : t \in Waiting(u, b) <=> t = x \/ t \in Waiting(w, b)
      /\ Ascending(w.queued[b]) /\ \A t \in Waiting(w, b) : x < t
  <2>1. u.queued[b] \in Seq(Tasks) /\ Ascending(u.queued[b]) /\ w.queued[b] = Tail(u.queued[b])
    BY <1>1, <1>2 DEF Ranked, AllAscend
  <2> QED  BY <1>1, <1>3, <2>1, TailOf DEF x
<1>5. \A r \in Sessions : r # b => w.queued[r] = u.queued[r] /\ Waiting(w, r) = Waiting(u, r)
  BY <1>2, <1>3
<1>6. Ranked(w)
  <2>1. AllAscend(w)
    BY <1>4, <1>5 DEF Ranked, AllAscend
  <2>2. \A r \in Sessions : Waiting(w, r) \subseteq Waiting(u, r)
    BY <1>4, <1>5
  <2> QED  BY <2>1, <2>2 DEF Ranked
<1>7. ASSUME NEW t \in Ready(w)  PROVE Outranks(x, t)
  <2>1. PICK r \in Candidates(w) : t \in Waiting(w, r)
    BY DEF Ready
  <2>2. r \in Sessions /\ CanDispatch(r) /\ r \in index /\ t \in Tasks
    BY <2>1 DEF Candidates, Ready
  <2>3. owner[x] = b
    BY <1>1, <1>4 DEF Ranked
  <2>4. CASE r = b
    <3>1. x < t /\ owner[t] = b
      BY <1>1, <1>4, <2>1, <2>4 DEF Ranked
    <3> QED  BY <2>3, <3>1 DEF Outranks
  <2>5. CASE r # b
    <3>1. t \in Waiting(u, r) /\ u.queued[r] # <<>>
      BY <1>5, <2>1, <2>2, <2>5 DEF Waiting
    <3>2. r \in Candidates(u) /\ owner[t] = r
      BY <2>2, <3>1 DEF Candidates, Ranked
    <3> DEFINE y == Head(u.queued[r])
    <3>3. y \in Waiting(u, r) /\ y \in Tasks /\ (t = y \/ y < t)
      <4>1. u.queued[r] \in Seq(Tasks) /\ Ascending(u.queued[r])
        BY <1>1, <2>2 DEF Ranked, AllAscend
      <4>2. /\ \A z : z \in Waiting(u, r) <=> z = y \/ z \in Elements(Tail(u.queued[r]))
            /\ \A z \in Elements(Tail(u.queued[r])) : y < z
        BY <1>3, <3>1, <4>1, TailOf
      <4> QED  BY <3>1, <4>1, <4>2
    <3>4. y # x
      BY <2>2, <2>3, <2>5, <3>3 DEF Ranked
    <3>5. ~(priority[r] > priority[b]) /\ (priority[r] = priority[b] => ~(y < x))
      BY <1>0, <1>4, <3>2 DEF Before
    <3> HIDE DEF y
    <3>6. priority[r] \in Nat /\ priority[b] \in Nat /\ x \in Nat /\ y \in Nat /\ t \in Nat
      BY <1>1, <2>2, <3>3, DispatcherAssumption, ProjectionAssumption DEF Tasks
    <3>7. priority[b] > priority[r] \/ (priority[b] = priority[r] /\ x < t)
      BY <3>3, <3>4, <3>5, <3>6
    <3> QED  BY <2>3, <3>2, <3>7 DEF Outranks
  <2> QED  BY <2>4, <2>5
<1> QED  BY <1>6, <1>7 DEF w, x, b

(* The order is the order of priority and arrival.                         *)
LEMMA OrderRanks ==
  ASSUME IsFiniteSet(Sessions), index \subseteq Sessions, priority \in [Sessions -> 1 .. MaxPriority],
         NEW u \in View, Apart(u), Ranked(u)
  PROVE  InRank(DispatchOrder(u))
<1> DEFINE S == {v \in View : Apart(v) /\ Ranked(v) => InRank(DispatchOrder(v))}
<1>1. ASSUME NEW v \in View, Candidates(v) = {} \/ Taken(v, Best(v)) \in S, Apart(v), Ranked(v)
      PROVE  InRank(DispatchOrder(v))
  <2>1. CASE Candidates(v) = {}
    <3>1. DispatchOrder(v) = <<>>
      BY <2>1, OrderUnfolds
    <3>2. InRank(<<>>)
      BY DEF InRank
    <3> QED  BY <3>1, <3>2
  <2>2. CASE Candidates(v) # {}
    <3> DEFINE w == Taken(v, Best(v))
               x == Head(v.queued[Best(v)])
               q == DispatchOrder(w)
    <3>1. Best(v) \in Candidates(v) /\ Best(v) \in Sessions /\ v.queued[Best(v)] # <<>>
      BY <2>2, BestChosen DEF Candidates
    <3>2. w \in View /\ x \in Tasks
      BY <3>1, TakenLeaves
    <3>3. q \in Seq(Tasks) /\ DispatchOrder(v) = <<x>> \o q
      BY <2>2, <3>2, OrderUnfolds
    <3>4. Apart(w)
      BY <1>1, <3>1, TakenReady
    <3>5. Ranked(w) /\ \A t \in Ready(w) : Outranks(x, t)
      BY <1>1, <2>2, BestOutranks
    <3>6. InRank(q) /\ Elements(q) = Ready(w)
      BY <1>1, <2>2, <3>2, <3>4, <3>5, OrderCovers
    <3> HIDE DEF q, x, w
    <3> QED  BY <3>2, <3>3, <3>5, <3>6, PrependRanks
  <2> QED  BY <2>1, <2>2
<1>2. \A v \in View : v \in S
  <2>1. \A v \in View : Candidates(v) = {} \/ Taken(v, Best(v)) \in S => v \in S
    BY <1>1
  <2> HIDE DEF S
  <2> QED  BY <2>1, OrderInduction
<1> QED  BY <1>2

(* The slot is taken for the winner of v.                                  *)
ClaimedFrom(v) == \E s \in Sessions : Winner(v, s) /\ slot'.task = Head(v.queued[s])

(* A claim is made while the process is up, for a winner of the projection *)
(* as it is or, in the loop, as the event at hand leaves it.               *)
LEMMA ClaimMade ==
  ASSUME TypeOK, Next, slot'.phase = "claiming", slot.phase # "claiming"
  PROVE  /\ mode = "up" /\ mode' = "up"
         /\ \/ ClaimedFrom(view) /\ (busq' = busq \/ (subscribed => busq' # <<>>))
            \/ ClaimedFrom(Apply(view, Head(busq))) /\ busq # <<>> /\ busq' = Tail(busq)
<1> DEFINE Claimed ==
             /\ mode = "up" /\ mode' = "up"
             /\ \/ ClaimedFrom(view) /\ (busq' = busq \/ (subscribed => busq' # <<>>))
                \/ ClaimedFrom(Apply(view, Head(busq))) /\ busq # <<>> /\ busq' = Tail(busq)
<1>1. ASSUME NEW caller, NEW v, Claim(caller, v)  PROVE mode = "up" /\ ClaimedFrom(v)
  BY <1>1 DEF Claim, FreeSlot, ClaimedFrom
<1>2. ASSUME NEW e, Emit(e)  PROVE subscribed => busq' # <<>>
  <2> SUFFICES ASSUME subscribed  PROVE busq' # <<>>
    OBVIOUS
  <2>1. \/ busq' = Append(busq, e)
        \/ busq' = Append(busq, CloseMark)
    BY <1>2 DEF Emit, Publish
  <2>2. busq \in Seq(BusEvents)
    BY DEF TypeOK, BusEvents
  <2>3. ASSUME NEW x  PROVE Append(busq, x) # <<>>
    <3>1. busq \in Seq(BusEvents \cup {x})
      BY <2>2
    <3> DEFINE q == Append(busq, x)
    <3>2. Len(q) = Len(busq) + 1 /\ Len(busq) \in Nat
      BY <3>1
    <3> HIDE DEF q
    <3>3. q # <<>>
      BY <3>2
    <3> QED  BY <3>3 DEF q
  <2> QED  BY <2>1, <2>3
<1>3. UNCHANGED slot => FALSE
  OBVIOUS
<1>4. CASE LoopStart \/ Tick
  <2>1. \E caller : Claim(caller, view) /\ busq' = busq /\ mode' = mode
    BY <1>3, <1>4 DEF LoopStart, Tick, MaybeDispatchInLoop, busVars, claimVars
  <2> QED  BY <1>1, <2>1
<1>5. CASE LoopApply
  <2>1. Claim("loop", Apply(view, Head(busq)))
    BY <1>3, <1>5 DEF LoopApply, MaybeDispatchInLoop, claimVars
  <2>2. mode' = mode /\ busq # <<>> /\ busq' = Tail(busq)
    BY <1>5 DEF LoopApply
  <2> QED  BY <1>1, <2>1, <2>2
<1>6. CASE RunStep
  <2>1. CASE RunInspected
    <3>1. Claim("run", view) /\ UNCHANGED <<mode, busq>>
      BY <2>1 DEF RunInspected, unchangedByRun, busVars
    <3> QED  BY <1>1, <3>1
  <2>2. ASSUME NEW type, Finish(type), UNCHANGED unchangedByRun  PROVE Claimed
    <3>1. Claim("run", view) /\ UNCHANGED mode /\ Emit(Event(type, slot.sess, slot.task))
      BY <2>2 DEF Finish, unchangedByRun
    <3> QED  BY <1>1, <1>2, <3>1
  <2>3. CASE RunCompletes
    BY <2>3 DEF RunCompletes, TypeOK, Slots
  <2>4. CASE RunFails \/ RunRateLimited
    <3>1. slot' # [slot EXCEPT !.phase = "backoff", !.attempt = @ + 1]
      BY DEF TypeOK, Slots, FreeSlot
    <3>2. UNCHANGED unchangedByRun /\ \E type : Finish(type)
      BY <2>4, <3>1 DEF RunFails, RunRateLimited
    <3> QED  BY <2>2, <3>2
  <2>5. CASE BackoffEnds
    <3>1. slot' # [slot EXCEPT !.phase = "running"]
      BY DEF TypeOK, Slots, FreeSlot
    <3>2. UNCHANGED unchangedByRun /\ Finish("deferred")
      BY <2>5, <3>1 DEF BackoffEnds
    <3> QED  BY <2>2, <3>2
  <2> QED  BY <1>6, <2>1, <2>3, <2>4, <2>5 DEF RunStep
<1>7. CASE LoopClosed \/ AgentOutput \/ DeleteCancels \/ DeleteEnds \/ Toggle \/ Restart \/ ClientStep
  BY <1>3, <1>7 DEF LoopClosed, AgentOutput, DeleteCancels, DeleteEnds, Toggle, Restart, ClientStep,
     Enqueue, Cancel, Trigger, SetPolicy, ClearPolicy, SetDefaultPolicy, SetPriority, SendMessage,
     MessageEnds, FetchSession, DeleteBegins, claimVars
<1>8. CASE Dispatch \/ Stop \/ Crash
  BY <1>8 DEF Dispatch, Stop, Crash, FreeSlot
<1> QED  BY <1>4, <1>5, <1>6, <1>7, <1>8 DEF Next, LoopStep

(* While nothing is cancelled, policies stay as they are and the           *)
(* subscription lasts, a claim that is made with nothing in the buffer is  *)
(* for the task GET /v1/queue lists first, and the whole list is in the    *)
(* order of priority and arrival, for any sessions, priorities, tasks,     *)
(* deferrals and crashes.                                                  *)
THEOREM ClaimsFollowTheQueue ==
  ASSUME IsFiniteSet(Sessions), NothingCancels, Settable = {}
  PROVE  Spec /\ []Subscribed => ClaimsInOrder
<1> DEFINE First == slot'.phase = "claiming" /\ slot.phase # "claiming" /\ (busq = <<>> \/ busq' = <<>>)
                      => LET ready == DispatchOrder(logged)
                         IN /\ ready # <<>>
                            /\ ready[1] = slot'.task
                            /\ \A i, j \in DOMAIN ready : i < j => Outranks(ready[i], ready[j])
<1>1. TypeOK /\ ConvergenceInv /\ RerunInv /\ FifoInv /\ Subscribed /\ [Next]_vars => [First]_vars
  <2> SUFFICES ASSUME TypeOK, ConvergenceInv, RerunInv, FifoInv, Subscribed, Next,
                      slot'.phase = "claiming", slot.phase # "claiming", busq = <<>> \/ busq' = <<>>
               PROVE  /\ DispatchOrder(logged) # <<>>
                      /\ DispatchOrder(logged)[1] = slot'.task
                      /\ \A i, j \in DOMAIN DispatchOrder(logged) :
                           i < j => Outranks(DispatchOrder(logged)[i], DispatchOrder(logged)[j])
    OBVIOUS
  <2>0. /\ index \subseteq Sessions /\ priority \in [Sessions -> 1 .. MaxPriority] /\ logged \in View
        /\ busq \in Seq(BusEvents)
    BY DEF TypeOK, BusEvents
  <2>1. /\ mode = "up" /\ mode' = "up"
        /\ \/ ClaimedFrom(view) /\ (busq' = busq \/ (subscribed => busq' # <<>>))
           \/ ClaimedFrom(Apply(view, Head(busq))) /\ busq # <<>> /\ busq' = Tail(busq)
    BY ClaimMade
  <2>2. subscribed /\ Replays(view, busq, logged)
    BY <2>1 DEF Subscribed, ConvergenceInv
  <2>3. PICK s \in Sessions : Winner(logged, s) /\ slot'.task = Head(logged.queued[s])
    <3>1. CASE ClaimedFrom(view) /\ busq = <<>>
      <4>1. view = logged
        BY <2>2, <3>1, NothingReplayed
      <4> QED  BY <3>1, <4>1 DEF ClaimedFrom
    <3>2. CASE ClaimedFrom(Apply(view, Head(busq))) /\ busq # <<>> /\ Tail(busq) = <<>>
      <4>1. Replays(Apply(view, Head(busq)), <<>>, logged)
        BY <2>0, <2>2, <3>2, ReplaysOneLess DEF Replays
      <4>2. Apply(view, Head(busq)) = logged
        BY <4>1, NothingReplayed
      <4> QED  BY <3>2, <4>2 DEF ClaimedFrom
    <3> QED  BY <2>1, <2>2, <3>1, <3>2
  <2>4. Apart(logged) /\ Ranked(logged)
    <3>1. AllDistinct(logged) /\ \A r \in Sessions : \A t \in Waiting(logged, r) : owner[t] = r
      BY DEF RerunInv, LogFits
    <3>2. \A r, q \in Sessions : r # q => Waiting(logged, r) \cap Waiting(logged, q) = {}
      BY <3>1
    <3>3. AllAscend(logged)
      BY DEF FifoInv, LogAscends
    <3> QED  BY <3>1, <3>2, <3>3 DEF Apart, Ranked
  <2>5. s \in Candidates(logged) /\ s = Best(logged)
    <3>1. s \in Candidates(logged) /\ \A r \in Candidates(logged) \ {s} : Before(logged, s, r)
      BY <2>3 DEF Winner
    <3>2. Best(logged) \in Candidates(logged) /\ ~Before(logged, s, Best(logged))
      BY <2>0, <3>1, BestChosen
    <3> QED  BY <3>1, <3>2
  <2> DEFINE ready == DispatchOrder(logged)
             rest == DispatchOrder(Taken(logged, s))
             x == Head(logged.queued[s])
  <2>6. ready \in Seq(Tasks) /\ ready = <<x>> \o rest
    BY <2>0, <2>5, OrderUnfolds
  <2>7. rest \in Seq(Tasks) /\ x \in Tasks
    <3>1. logged.queued[s] # <<>>
      BY <2>5 DEF Candidates
    <3>2. Taken(logged, s) \in View /\ x \in Tasks
      BY <2>0, <3>1, TakenLeaves
    <3> QED  BY <2>0, <3>2, OrderUnfolds
  <2>8. InRank(ready)
    BY <2>0, <2>4, OrderRanks
  <2> HIDE DEF ready, rest
  <2>9. ready # <<>> /\ ready[1] = x /\ DOMAIN ready = 1 .. Len(ready)
    BY <2>6, <2>7
  <2>10. \A i, j \in DOMAIN ready : i < j => Outranks(ready[i], ready[j])
    BY <2>8, <2>9 DEF InRank
  <2> QED  BY <2>3, <2>9, <2>10 DEF ready
<1>2. Spec /\ []Subscribed => []FifoInv
  <2>1. TypeOK /\ InFlightInv /\ AccountsInv /\ Subscribed' /\ FifoInv /\ [Next]_vars => FifoInv'
    BY FifoStep
  <2> QED  BY <2>1, FifoInit, AccountsAlways, TypeCorrect, InFlightCorrect, PTL DEF Spec
<1>3. Spec => []RerunInv
  BY RerunInit, RerunStep, TypeCorrect, PTL DEF Spec
<1>4. Spec => []ConvergenceInv
  BY ConvergenceInit, ConvergenceStep, TypeCorrect, PTL DEF Spec
<1> QED  BY <1>1, <1>2, <1>3, <1>4, TypeCorrect, PTL DEF Spec, ClaimsInOrder

-----------------------------------------------------------------------------
(* What clients are told.  The projection is never a view that the queue   *)
(* routes cannot show, and differs from the log only where an event of its *)
(* buffer is about to change it.                                           *)

(* The event e does to u only what it says: it dispatches with nothing in  *)
(* flight, and adds no task that waits already.                            *)
Calm(u, e) ==
  /\ e.type = "dispatched" => \A s \in Sessions : u.running[s] = NoTask
  /\ Adds(e) => e.task \notin Waiting(u, e.sess)

(* A replay through projections in G, each event of it calm.               *)
PacedIn(G, v, q, w) ==
  \E h \in [Nat -> G] :
    /\ h[1] = v /\ h[Len(q) + 1] = w
    /\ \A i \in 1 .. Len(q) : h[i + 1] = Apply(h[i], q[i]) /\ Calm(h[i], q[i])

LEMMA PacedNothing ==
  ASSUME NEW G, NEW v \in G
  PROVE  PacedIn(G, v, <<>>, v)
<1> DEFINE h == [i \in Nat |-> v]
<1>1. h \in [Nat -> G] /\ h[1] = v /\ Len(<<>>) + 1 = 1
  OBVIOUS
<1>2. 1 .. Len(<<>>) = {}
  OBVIOUS
<1> HIDE DEF h
<1> QED  BY <1>1, <1>2 DEF PacedIn

LEMMA PacedOneMore ==
  ASSUME NEW G, NEW v, NEW w, NEW q \in Seq(BusEvents), NEW e \in BusEvents,
         PacedIn(G, v, q, w), Calm(w, e), Apply(w, e) \in G
  PROVE  PacedIn(G, v, Append(q, e), Apply(w, e))
<1> DEFINE n == Len(q)
<1>1. PICK h \in [Nat -> G] :
        /\ h[1] = v /\ h[n + 1] = w
        /\ \A i \in 1 .. n : h[i + 1] = Apply(h[i], q[i]) /\ Calm(h[i], q[i])
  BY DEF PacedIn
<1>2. /\ n \in Nat /\ Len(Append(q, e)) = n + 1 /\ Append(q, e)[n + 1] = e
      /\ \A i \in 1 .. n : Append(q, e)[i] = q[i]
  OBVIOUS
<1> DEFINE g == [h EXCEPT ![n + 2] = Apply(w, e)]
<1> HIDE DEF n
<1>4. n + 2 \in Nat
  BY <1>2
<1>5. g \in [Nat -> G]
  BY <1>1, <1>4
<1>6. \A i \in Nat : g[i] = IF i = n + 2 THEN Apply(w, e) ELSE h[i]
  BY <1>1, <1>4
<1> HIDE DEF g
<1>7. g[1] = v /\ g[n + 1 + 1] = Apply(w, e)
  BY <1>1, <1>2, <1>6
<1>8. \A i \in 1 .. n + 1 :
        g[i + 1] = Apply(g[i], Append(q, e)[i]) /\ Calm(g[i], Append(q, e)[i])
  <2> SUFFICES ASSUME NEW i \in 1 .. n + 1
               PROVE  g[i + 1] = Apply(g[i], Append(q, e)[i]) /\ Calm(g[i], Append(q, e)[i])
    OBVIOUS
  <2>1. CASE i = n + 1
    <3>1. g[i] = w /\ g[i + 1] = Apply(w, e)
      BY <1>1, <1>2, <1>6, <2>1
    <3> QED  BY <1>2, <2>1, <3>1
  <2>2. CASE i \in 1 .. n
    <3>1. g[i] = h[i] /\ g[i + 1] = h[i + 1]
      BY <1>2, <1>6, <2>2
    <3> QED  BY <1>1, <1>2, <2>2, <3>1
  <2> QED  BY <1>2, <2>1, <2>2
<1> QED  BY <1>2, <1>5, <1>7, <1>8 DEF PacedIn

LEMMA PacedOneLess ==
  ASSUME NEW G, NEW v, NEW w, NEW q \in Seq(BusEvents), q # <<>>, PacedIn(G, v, q, w)
  PROVE  PacedIn(G, Apply(v, Head(q)), Tail(q), w)
<1> DEFINE n == Len(q)
<1>1. PICK h \in [Nat -> G] :
        /\ h[1] = v /\ h[n + 1] = w
        /\ \A i \in 1 .. n : h[i + 1] = Apply(h[i], q[i]) /\ Calm(h[i], q[i])
  BY DEF PacedIn
<1>2. /\ n \in Nat \ {0} /\ Len(Tail(q)) = n - 1 /\ Head(q) = q[1]
      /\ \A i \in 1 .. n - 1 : Tail(q)[i] = q[i + 1]
  OBVIOUS
<1> HIDE DEF n
<1> DEFINE g == [i \in Nat |-> h[i + 1]]
<1>3. g \in [Nat -> G] /\ \A i \in Nat : g[i] = h[i + 1]
  BY <1>1
<1> HIDE DEF g
<1>4. g[1] = Apply(v, Head(q)) /\ g[n - 1 + 1] = w
  BY <1>1, <1>2, <1>3
<1>5. ASSUME NEW i \in 1 .. n - 1
      PROVE  g[i + 1] = Apply(g[i], Tail(q)[i]) /\ Calm(g[i], Tail(q)[i])
  <2>1. i + 1 \in 1 .. n /\ i \in Nat /\ i + 1 \in Nat
    BY <1>2
  <2>2. g[i] = h[i + 1] /\ g[i + 1] = h[i + 1 + 1]
    BY <1>3, <2>1
  <2> QED  BY <1>1, <1>2, <2>1, <2>2
<1> QED  BY <1>2, <1>3, <1>4, <1>5 DEF PacedIn

LEMMA PacedWidens ==
  ASSUME NEW G, NEW H, G \subseteq H, NEW v, NEW w, NEW q, PacedIn(G, v, q, w)
  PROVE  PacedIn(H, v, q, w)
<1>1. [Nat -> G] \subseteq [Nat -> H]
  OBVIOUS
<1> QED  BY <1>1 DEF PacedIn

LEMMA PacedEnds ==
  ASSUME NEW G, NEW v, NEW w, NEW q \in Seq(BusEvents), PacedIn(G, v, q, w)
  PROVE  v \in G /\ w \in G
<1>1. Len(q) + 1 \in Nat /\ 1 \in Nat
  OBVIOUS
<1> QED  BY <1>1 DEF PacedIn

(* What no calm event of q changes is at the end what it was at the start. *)
Unmoved(G, F, e) ==
  \A u \in G : Calm(u, e) /\ Apply(u, e) \in G => F[Apply(u, e)] = F[u]

LEMMA PacedKeeps ==
  ASSUME NEW G, NEW F, NEW v, NEW w, NEW q \in Seq(BusEvents), PacedIn(G, v, q, w),
         \A i \in 1 .. Len(q) : Unmoved(G, F, q[i])
  PROVE  F[v] = F[w]
<1> DEFINE n == Len(q)
<1>1. PICK h \in [Nat -> G] :
        /\ h[1] = v /\ h[n + 1] = w
        /\ \A i \in 1 .. n : h[i + 1] = Apply(h[i], q[i]) /\ Calm(h[i], q[i])
  BY DEF PacedIn
<1>2. n \in Nat
  OBVIOUS
<1>3. \A i \in 1 .. n : Unmoved(G, F, q[i])
  OBVIOUS
<1> HIDE DEF n
<1> DEFINE S == {i \in Nat : i <= n => F[h[i + 1]] = F[v]}
<1>4. 0 \in S
  BY <1>1
<1>5. ASSUME NEW i \in S  PROVE i + 1 \in S
  <2> SUFFICES ASSUME i + 1 <= n  PROVE F[h[i + 1 + 1]] = F[v]
    OBVIOUS
  <2>1. i \in Nat /\ i + 1 \in 1 .. n /\ i <= n /\ i + 1 \in Nat /\ i + 1 + 1 \in Nat
    BY <1>2
  <2>2. F[h[i + 1]] = F[v]
    BY <2>1
  <2>3. h[i + 1 + 1] = Apply(h[i + 1], q[i + 1]) /\ Calm(h[i + 1], q[i + 1])
    BY <1>1, <2>1
  <2>4. h[i + 1] \in G /\ h[i + 1 + 1] \in G
    BY <1>1, <2>1
  <2>5. F[h[i + 1 + 1]] = F[h[i + 1]]
    BY <1>3, <2>1, <2>3, <2>4 DEF Unmoved
  <2> QED  BY <2>2, <2>5
<1>6. S = Nat
  <2>1. S \in SUBSET Nat
    OBVIOUS
  <2> HIDE DEF S
  <2> QED  BY <1>4, <1>5, <2>1, Induction
<1>7. n \in S
  BY <1>2, <1>6
<1> QED  BY <1>1, <1>2, <1>7

-----------------------------------------------------------------------------
(* The views the queue routes can show: each task once, in the session it  *)
(* was queued on, one in flight, and no session that the live index lacks. *)
ShownWith(ow, st, ix) ==
  {v \in View :
    /\ AllDistinct(v)
    /\ \A s \in Sessions : \A t \in Waiting(v, s) : Known(ow, st, t, s) /\ v.running[s] # t
    /\ \A s \in Sessions : v.running[s] # NoTask => Known(ow, st, v.running[s], s)
    /\ \A r, s \in Sessions : v.running[r] # NoTask /\ v.running[s] # NoTask => r = s
    /\ Pending(v) \subseteq ix}

Shown == ShownWith(owner, status, index)

(* Whatever the log leaves waiting or running, its session is loaded.      *)
IndexInv == mode = "up" => Pending(logged) \subseteq index

(* From the projection, over the buffered events, to the log, there are    *)
(* only views that can be shown.                                           *)
RenderInv ==
  mode = "up" =>
    \E w \in View : PacedIn(Shown, view, busq, w) /\ (subscribed => w = logged)

LEMMA ShownGrows ==
  ASSUME NEW ow, NEW st, NEW ix, NEW ow1, NEW st1, NEW ix1, ix \subseteq ix1,
         \A t \in Tasks : \A s : Known(ow, st, t, s) => Known(ow1, st1, t, s)
  PROVE  ShownWith(ow, st, ix) \subseteq ShownWith(ow1, st1, ix1)
<1> SUFFICES ASSUME NEW v \in ShownWith(ow, st, ix)  PROVE v \in ShownWith(ow1, st1, ix1)
  OBVIOUS
<1>1. v \in View /\ \A s \in Sessions : v.running[s] \in Tasks \cup {NoTask}
  BY DEF ShownWith, View
<1>2. \A s \in Sessions : \A t \in Waiting(v, s) : t \in Tasks
  BY <1>1 DEF Waiting, View
<1> QED  BY <1>1, <1>2 DEF ShownWith

LogShown == logged \in Shown

LEMMA LogIsShown ==
  TypeOK /\ LogFits /\ LogHasOneInFlight /\ IndexInv /\ mode = "up" => LogShown
<1> SUFFICES ASSUME TypeOK, LogFits, LogHasOneInFlight, Pending(logged) \subseteq index
             PROVE  logged \in Shown
  BY DEF IndexInv, LogShown
<1>1. ASSUME NEW s \in Sessions, NEW t \in Waiting(logged, s)
      PROVE  KnownAs(t, s) /\ logged.running[s] # t
  <2>1. t \in Tasks
    BY DEF TypeOK, View, Waiting
  <2>2. t # NoTask
    BY <2>1, ProjectionAssumption DEF Tasks, NoTask
  <2> QED  BY <2>2 DEF LogFits, Known, KnownAs
<1>2. \A s \in Sessions : logged.running[s] # NoTask => KnownAs(logged.running[s], s)
  BY DEF LogFits, Known, KnownAs
<1>3. logged \in View /\ AllDistinct(logged)
  BY DEF TypeOK, LogFits
<1>4. \A r, s \in Sessions : logged.running[r] # NoTask /\ logged.running[s] # NoTask => r = s
  BY DEF LogHasOneInFlight
<1> QED  BY <1>1, <1>2, <1>3, <1>4 DEF Shown, ShownWith, KnownAs

(* Only task.queued makes a session pending.                               *)
LEMMA PendingAfter ==
  ASSUME NEW v \in View, NEW e \in TaskEvent, NEW s \in Pending(Apply(v, e))
  PROVE  s \in Pending(v) \/ (e.type = "queued" /\ s = e.sess)
<1>0. /\ e.sess \in Sessions /\ e.task \in Tasks /\ e.type \in EventTypes /\ s \in Sessions
      /\ v.queued \in [Sessions -> Seq(Tasks)] /\ v.running \in [Sessions -> Tasks \cup {NoTask}]
      /\ v.retrying \in [Sessions -> BOOLEAN]
      /\ v = [queued |-> v.queued, running |-> v.running, retrying |-> v.retrying]
  BY DEF TaskEvent, View, Pending
<1>1. Without(<<>>, e.task) = <<>>
  BY DEF Without
<1>2. e.task # NoTask
  BY <1>0, ProjectionAssumption DEF Tasks, NoTask
<1>3. e.task \in Waiting(v, e.sess) => v.queued[e.sess] # <<>>
  BY DEF Waiting
<1>4. CASE e.type = "queued"
  BY <1>0, <1>4 DEF Apply, OnQueued, Pending, TerminalTypes
<1>5. CASE e.type = "dispatched"
  BY <1>0, <1>1, <1>3, <1>5 DEF Apply, OnDispatched, Pending, TerminalTypes
<1>6. CASE e.type = "retrying"
  BY <1>0, <1>6 DEF Apply, OnRetrying, Pending, TerminalTypes
<1>7. CASE e.type = "deferred"
  BY <1>0, <1>2, <1>7 DEF Apply, OnDeferred, Pending, TerminalTypes
<1>8. CASE e.type \in TerminalTypes
  BY <1>0, <1>1, <1>2, <1>8 DEF Apply, OnTerminal, Pending, TerminalTypes
<1> QED  BY <1>0, <1>4, <1>5, <1>6, <1>7, <1>8 DEF EventTypes

(* What a step that logs the event e does.                                 *)
Writes(e) ==
  /\ Logs(e) /\ Calm(logged, e)
  /\ e.type = "queued" => e.sess \in index
  /\ UNCHANGED <<mode, view, index>>

(* What a step that logs nothing leaves.                                   *)
Idles ==
  /\ UNCHANGED <<mode, view, logged, status, owner, busq>>
  /\ index \subseteq index' /\ (subscribed' => subscribed)

LEMMA LogsCalmly ==
  ASSUME TypeOK, LogFits, NEW e \in TaskEvent, Logs(e), e.type = "dispatched" => NothingInFlight
  PROVE  Calm(logged, e)
<1>1. ASSUME Adds(e), e.task \in Waiting(logged, e.sess)  PROVE FALSE
  <2>1. e.sess \in Sessions
    BY DEF TaskEvent
  <2>2. status[e.task] = "queued"
    BY <1>1, <2>1 DEF LogFits
  <2> QED  BY <1>1, <2>2 DEF Logs, Adds
<1> QED  BY <1>1 DEF Calm, NothingInFlight

LEMMA RunWrites ==
  ASSUME TypeOK, RerunInv, InFlightInv, mode' = "up", Dispatch \/ RunStep
  PROVE  Idles \/ \E e \in TaskEvent : Writes(e)
<1>1. slot.phase # "free" /\ UNCHANGED <<mode, view, index, owner>>
  BY DEF Dispatch, RunStep, RunCompletes, RunInspected, RunFails, RunRateLimited, BackoffEnds,
         Running, unchangedByRun
<1>2. ASSUME NEW type \in EventTypes \ {"queued"}, Emit(Event(type, slot.sess, slot.task)),
             type = "deferred" => slot.phase \in {"running", "backoff"},
             type = "dispatched" => slot.phase = "claiming"
      PROVE  \E e \in TaskEvent : Writes(e)
  <2> DEFINE e == Event(type, slot.sess, slot.task)
  <2>1. e \in TaskEvent /\ Logs(e) /\ e.type = type
    BY <1>1, <1>2, SlotLogs
  <2> HIDE DEF e
  <2>2. e.type = "dispatched" => NothingInFlight
    BY <1>2, <2>1 DEF InFlightInv, NoRunBeforeDispatch, NothingInFlight
  <2>3. Calm(logged, e)
    BY <2>1, <2>2, LogsCalmly DEF RerunInv
  <2> QED  BY <1>1, <1>2, <2>1, <2>3 DEF Writes
<1>3. /\ "dispatched" \in EventTypes \ {"queued"} /\ "completed" \in EventTypes \ {"queued"}
      /\ "failed" \in EventTypes \ {"queued"} /\ "deferred" \in EventTypes \ {"queued"}
      /\ "retrying" \in EventTypes \ {"queued"}
  BY DEF EventTypes, TerminalTypes
<1>4. CASE Dispatch
  BY <1>2, <1>3, <1>4 DEF Dispatch
<1>5. CASE RunCompletes
  BY <1>2, <1>3, <1>5 DEF RunCompletes
<1>6. CASE RunInspected
  BY <1>1, <1>6 DEF RunInspected, busVars, Idles
<1>7. CASE RunFails
  BY <1>2, <1>3, <1>7 DEF RunFails, Finish
<1>8. CASE RunRateLimited
  BY <1>2, <1>3, <1>8 DEF RunRateLimited, Finish, Running
<1>9. CASE BackoffEnds
  BY <1>1, <1>2, <1>3, <1>9 DEF BackoffEnds, Finish, busVars, Running, Idles
<1> QED  BY <1>4, <1>5, <1>6, <1>7, <1>8, <1>9 DEF RunStep

LEMMA ClientWrites ==
  ASSUME TypeOK, RerunInv, ClientStep \/ DeleteCancels \/ DeleteEnds
  PROVE  Idles \/ \E e \in TaskEvent : Writes(e)
<1>1. UNCHANGED <<mode, view>> /\ index \subseteq index'
  BY DEF ClientStep, Enqueue, Cancel, Trigger, SetPolicy, ClearPolicy, SetDefaultPolicy,
         SetPriority, SendMessage, MessageEnds, FetchSession, DeleteBegins, DeleteCancels,
         DeleteEnds, unchangedByClient
<1>2. ASSUME NEW s \in Sessions, NEW t \in Tasks, Emit(Event("cancelled", s, t)),
             UNCHANGED <<owner, index>>, KnownAs(t, s)
      PROVE  \E e \in TaskEvent : Writes(e)
  <2> DEFINE e == Event("cancelled", s, t)
  <2>1. e \in TaskEvent /\ e.type = "cancelled" /\ e.sess = s /\ e.task = t
    BY DEF Event, TaskEvent, EventTypes, TerminalTypes
  <2>2. Logs(e)
    BY <1>2, <2>1 DEF Logs
  <2> HIDE DEF e
  <2>3. Calm(logged, e)
    BY <2>1 DEF Calm, Adds
  <2> QED  BY <1>1, <1>2, <2>1, <2>2, <2>3 DEF Writes
<1>3. ASSUME NEW s \in Sessions, Enqueue(s)  PROVE \E e \in TaskEvent : Writes(e)
  <2>1. PICK t \in Tasks :
          /\ status[t] = "absent" /\ owner' = [owner EXCEPT ![t] = s]
          /\ Emit(Event("queued", s, t))
    BY <1>3 DEF Enqueue
  <2> DEFINE e == Event("queued", s, t)
  <2>2. e \in TaskEvent /\ e.type = "queued" /\ e.sess = s /\ e.task = t
    BY DEF Event, TaskEvent, EventTypes, TerminalTypes
  <2>3. Logs(e)
    BY <2>1, <2>2 DEF Logs
  <2> HIDE DEF e
  <2>4. Calm(logged, e)
    BY <2>2, <2>3, LogsCalmly DEF RerunInv
  <2>5. s \in index /\ index' = index
    BY <1>3 DEF Enqueue, unchangedByClient
  <2> QED  BY <1>1, <2>2, <2>3, <2>4, <2>5 DEF Writes
<1>4. ASSUME NEW s \in Sessions, NEW t \in Tasks, Cancel(s, t)
      PROVE  \E e \in TaskEvent : Writes(e)
  <2>1. KnownAs(t, s)
    BY <1>4 DEF Cancel, RerunInv, OwnersFit
  <2> QED  BY <1>2, <1>4, <2>1 DEF Cancel, unchangedByClient
<1>5. CASE DeleteCancels
  <2>1. /\ destroying \in [sess : Sessions, todo : Seq(Tasks)] /\ destroying.todo # <<>>
        /\ destroying # NotDestroying
    BY <1>5 DEF DeleteCancels, TypeOK, NotDestroying
  <2>2. /\ destroying.sess \in Sessions /\ Head(destroying.todo) \in Tasks
        /\ 1 \in 1 .. Len(destroying.todo) /\ Head(destroying.todo) = destroying.todo[1]
    BY <2>1
  <2>3. KnownAs(Head(destroying.todo), destroying.sess)
    BY <2>1, <2>2 DEF RerunInv, OwnersFit
  <2> QED  BY <1>2, <1>5, <2>2, <2>3 DEF DeleteCancels
<1>6. CASE DeleteEnds
  BY <1>1, <1>6 DEF DeleteEnds, busVars, Idles
<1>7. CASE ClientStep
  <2>1. ASSUME NEW s \in Sessions,
               Trigger(s) \/ (\E p \in Policies : SetPolicy(s, p)) \/ ClearPolicy(s)
                 \/ (\E p \in 1 .. MaxPriority : SetPriority(s, p)) \/ SendMessage(s)
                 \/ MessageEnds(s) \/ FetchSession(s) \/ DeleteBegins(s)
        PROVE  UNCHANGED <<logged, status, owner, busq, subscribed>>
    BY <2>1 DEF Trigger, SetPolicy, ClearPolicy, SetPriority, SendMessage, MessageEnds,
                FetchSession, DeleteBegins, logVars, busVars
  <2>2. ASSUME NEW p \in Policies, SetDefaultPolicy(p)
        PROVE  UNCHANGED <<logged, status, owner, busq, subscribed>>
    BY <2>2 DEF SetDefaultPolicy, busVars
  <2> QED  BY <1>1, <1>3, <1>4, <1>7, <2>1, <2>2 DEF ClientStep, Idles
<1> QED  BY <1>5, <1>6, <1>7

-----------------------------------------------------------------------------
LEMMA IndexInit == Init => IndexInv
  BY DEF Init, IndexInv, Pending

LEMMA IndexStep == TypeOK /\ RerunInv /\ InFlightInv /\ IndexInv /\ [Next]_vars => IndexInv'
<1> SUFFICES ASSUME TypeOK, RerunInv, InFlightInv, IndexInv, [Next]_vars, mode' = "up"
             PROVE  Pending(logged') \subseteq index'
  BY DEF IndexInv, Pending
<1>1. CASE Idles
  BY <1>1 DEF Idles, IndexInv
<1>2. ASSUME NEW e \in TaskEvent, Writes(e)  PROVE Pending(logged') \subseteq index'
  <2>1. /\ logged' = Apply(logged, e) /\ logged \in View /\ index' = index
        /\ Pending(logged) \subseteq index /\ (e.type = "queued" => e.sess \in index)
    BY <1>2 DEF Writes, Logs, Emit, TypeOK, IndexInv
  <2> QED  BY <2>1, PendingAfter
<1>3. CASE AgentOutput \/ LoopStep \/ Tick \/ Toggle
  BY <1>3 DEF AgentOutput, unchangedByRun, LoopStep, LoopStart, LoopApply, LoopClosed, Tick, Toggle,
     logVars, IndexInv
<1>4. CASE Restart
  <2>1. /\ index' = Pending(logged)
        /\ logged' = Recovered(logged, {s \in Pending(logged) : logged.running[s] # NoTask})
    BY <1>4 DEF Restart
  <2>2. logged.running \in [Sessions -> Tasks \cup {NoTask}]
    BY DEF TypeOK, View
  <2> QED  BY <2>1, <2>2 DEF Recovered, Pending, TypeOK, View
<1>5. CASE UNCHANGED vars
  BY <1>1, <1>5 DEF vars, logVars, busVars, Idles
<1> QED
  BY <1>1, <1>2, <1>3, <1>4, <1>5, RunWrites, ClientWrites DEF Next, Stop, Crash

LEMMA RenderInit == TypeOK /\ LogFits /\ LogHasOneInFlight /\ IndexInv /\ Init => RenderInv
<1> SUFFICES ASSUME TypeOK, LogFits, LogHasOneInFlight, IndexInv, Init  PROVE RenderInv
  OBVIOUS
<1>1. mode = "up" /\ view = logged /\ busq = <<>> /\ logged \in View
  BY DEF Init, TypeOK
<1>2. logged \in Shown
  BY <1>1, LogIsShown DEF LogShown
<1>3. PacedIn(Shown, view, busq, logged)
  BY <1>1, <1>2, PacedNothing
<1> QED  BY <1>1, <1>3 DEF RenderInv

(* The event e has been published, and the log is its effect.              *)
LEMMA PublishPaced ==
  ASSUME TypeOK, mode = "up", RenderInv, Shown \subseteq Shown', NEW e \in BusEvents, Publish(e),
         UNCHANGED view, logged' = Apply(logged, e), Calm(logged, e), logged' \in Shown'
  PROVE  RenderInv'
<1> DEFINE G == Shown'
<1>1. PICK w \in View : PacedIn(Shown, view, busq, w) /\ (subscribed => w = logged)
  BY DEF RenderInv
<1>2. PacedIn(G, view, busq, w) /\ busq \in Seq(BusEvents)
  BY <1>1, PacedWidens DEF TypeOK, BusEvents
<1>3. CASE ~subscribed
  BY <1>1, <1>2, <1>3 DEF Publish, busVars, RenderInv
<1>4. CASE subscribed /\ busq' = Append(busq, e)
  <2>1. w = logged
    BY <1>1, <1>4
  <2> HIDE DEF G
  <2>2. Apply(w, e) \in G
    BY <2>1 DEF G
  <2>3. Calm(w, e)
    BY <2>1
  <2>4. PacedIn(G, view, Append(busq, e), Apply(w, e))
    BY <1>2, <2>2, <2>3, PacedOneMore
  <2>5. PacedIn(G, view', busq', logged')
    BY <1>4, <2>1, <2>4
  <2>6. logged' \in View
    BY DEF Shown, ShownWith
  <2> QED  BY <2>5, <2>6 DEF G, RenderInv
<1>5. CASE subscribed /\ busq' = Append(busq, CloseMark) /\ ~subscribed'
  <2>1. CloseMark \in BusEvents /\ Calm(w, CloseMark)
    BY DEF BusEvents, Calm, CloseMark, Adds
  <2>2. Apply(w, CloseMark) = w
    BY <1>1, <2>1, ApplyBus
  <2> HIDE DEF G
  <2>3. w \in G
    BY <1>2, PacedEnds
  <2>4. PacedIn(G, view, Append(busq, CloseMark), Apply(w, CloseMark))
    BY <1>2, <2>1, <2>2, <2>3, PacedOneMore
  <2>5. PacedIn(G, view', busq', w)
    BY <1>5, <2>2, <2>4
  <2> QED  BY <1>5, <2>5 DEF G, RenderInv
<1> QED  BY <1>3, <1>4, <1>5 DEF Publish, TypeOK

LEMMA RenderStep ==
  ASSUME TypeOK, TypeOK', RerunInv, RerunInv', InFlightInv, InFlightInv', IndexInv, IndexInv',
         RenderInv, [Next]_vars
  PROVE  RenderInv'
<1> SUFFICES ASSUME mode' = "up"  PROVE RenderInv'
  BY DEF RenderInv
<1>0. logged' \in Shown'
  <2>1. LogFits' /\ LogHasOneInFlight' /\ (mode = "up")'
    BY DEF RerunInv, InFlightInv
  <2>2. LogShown'
    BY <2>1, LogIsShown, PTL
  <2> QED  BY <2>2 DEF LogShown
<1>1. ASSUME mode = "up", \A t \in Tasks : \A s : KnownAs(t, s) => Known(owner', status', t, s),
             index \subseteq index'
      PROVE  Shown \subseteq Shown'
  BY <1>1, ShownGrows DEF Shown, KnownAs
<1>2. CASE Idles
  <2>1. mode = "up" /\ Shown \subseteq Shown'
    BY <1>1, <1>2 DEF Idles, KnownAs
  <2>2. PICK w \in View : PacedIn(Shown, view, busq, w) /\ (subscribed => w = logged)
    BY <2>1 DEF RenderInv
  <2>3. PacedIn(Shown', view, busq, w)
    BY <2>1, <2>2, PacedWidens
  <2> QED  BY <1>2, <2>2, <2>3 DEF Idles, RenderInv
<1>3. ASSUME NEW e \in TaskEvent, Writes(e)  PROVE RenderInv'
  <2>1. /\ mode = "up" /\ index' = index /\ UNCHANGED view /\ Calm(logged, e)
        /\ logged' = Apply(logged, e) /\ Publish(e) /\ e \in BusEvents
    BY <1>3 DEF Writes, Logs, Emit, BusEvents
  <2>2. Shown \subseteq Shown'
    BY <1>1, <1>3, <2>1, LogsStatus DEF Writes
  <2> QED  BY <1>0, <2>1, <2>2, PublishPaced
<1>4. CASE AgentOutput
  <2>1. /\ OutputMark \in BusEvents /\ Publish(OutputMark)
        /\ UNCHANGED <<mode, view, logged, index, owner, status>>
    BY <1>4 DEF AgentOutput, BusEvents, unchangedByRun
  <2>2. logged' = Apply(logged, OutputMark) /\ Calm(logged, OutputMark)
    BY <2>1, ApplyBus DEF TypeOK, Calm, OutputMark, Adds
  <2>3. Shown \subseteq Shown'
    BY <1>1, <2>1 DEF KnownAs
  <2> QED  BY <1>0, <2>1, <2>2, <2>3, PublishPaced
<1>5. CASE LoopApply \/ LoopClosed
  <2>1. /\ busq # <<>> /\ busq' = Tail(busq)
        /\ UNCHANGED <<mode, logged, subscribed, owner, status, index>>
    BY <1>5 DEF LoopApply, LoopClosed, logVars
  <2>2. busq \in Seq(BusEvents) /\ view \in View /\ Head(busq) \in BusEvents
    BY <2>1 DEF TypeOK, BusEvents
  <2>3. view' = Apply(view, Head(busq))
    BY <1>5, <2>2, ApplyBus DEF LoopApply, LoopClosed
  <2>4. PICK w \in View : PacedIn(Shown, view, busq, w) /\ (subscribed => w = logged)
    BY <2>1 DEF RenderInv
  <2>5. PacedIn(Shown, view', busq', w)
    BY <2>1, <2>2, <2>3, <2>4, PacedOneLess
  <2>6. Shown' = Shown
    BY <2>1 DEF Shown
  <2> QED  BY <2>1, <2>4, <2>5, <2>6 DEF RenderInv
<1>6. CASE LoopStart \/ Tick \/ Toggle \/ UNCHANGED vars
  BY <1>2, <1>6 DEF LoopStart, Tick, Toggle, vars, logVars, busVars, Idles
<1>7. CASE Restart
  <2>1. view' = logged' /\ busq' = <<>> /\ logged' \in View
    BY <1>7 DEF Restart, TypeOK
  <2>2. PacedIn(Shown', view', busq', logged')
    BY <1>0, <2>1, PacedNothing
  <2> QED  BY <2>1, <2>2 DEF RenderInv
<1> QED
  BY <1>2, <1>3, <1>4, <1>5, <1>6, <1>7, RunWrites, ClientWrites DEF Next, LoopStep, Stop, Crash

-----------------------------------------------------------------------------
(* A sequence of as many members of a finite set as it has, no two the     *)
(* same, lists them all.                                                   *)
LEMMA ListsAll ==
  ASSUME NEW S, IsFiniteSet(S), NEW f \in [1 .. Cardinality(S) -> S],
         \A i, j \in 1 .. Cardinality(S) : f[i] = f[j] => i = j
  PROVE  f \in Seq(S) /\ Len(f) = Cardinality(S) /\ Distinct(f) /\ Elements(f) = S
<1> DEFINE n == Cardinality(S)
<1>1. n \in Nat
  BY FS_CardinalityType
<1> HIDE DEF n
<1>2. f \in [1 .. n -> S] /\ \A i, j \in 1 .. n : f[i] = f[j] => i = j
  BY DEF n
<1>3. f \in Seq(S) /\ Len(f) = n
  BY <1>1, <1>2
<1>4. f \in Injection(1 .. n, S)
  BY <1>2 DEF Injection, IsInjective
<1>5. IsFiniteSet(1 .. n) /\ Cardinality(1 .. n) = n
  <2>1. IsFiniteSet(1 .. n) /\ Cardinality(1 .. n) = IF 1 > n THEN 0 ELSE n - 1 + 1
    BY <1>1, FS_Interval
  <2> QED  BY <1>1, <2>1
<1>6. f \in Surjection(1 .. n, S)
  BY <1>4, <1>5, FS_Injection DEF n
<1>7. \A x \in S : \E i \in 1 .. n : f[i] = x
  BY <1>6 DEF Surjection
<1>8. Elements(f) = S
  <2>1. Elements(f) = {f[i] : i \in 1 .. n}
    BY <1>3 DEF Elements
  <2>2. \A i \in 1 .. n : f[i] \in S
    BY <1>2
  <2>3. \A x : x \in Elements(f) <=> x \in S
    BY <1>7, <2>1, <2>2
  <2> QED  BY <2>3
<1> QED  BY <1>2, <1>3, <1>8 DEF Distinct, n

LEMMA SeqOfSet ==
  ASSUME NEW S, IsFiniteSet(S)
  PROVE  SetToSeq(S) \in Seq(S) /\ Distinct(SetToSeq(S)) /\ Elements(SetToSeq(S)) = S
<1> DEFINE n == Cardinality(S)
<1>1. PICK g \in Bijection(1 .. n, S) : TRUE
  BY FS_CardinalityType DEF ExistsBijection
<1>2. g \in [1 .. n -> S] /\ IsInjective(g)
  BY <1>1 DEF Bijection, Injection
<1> DEFINE f == CHOOSE h \in [1 .. n -> S] : IsInjective(h)
<1>3. f \in [1 .. n -> S] /\ IsInjective(f)
  BY <1>2
<1>4. SetToSeq(S) = f
  BY DEF SetToSeq
<1> HIDE DEF f, n
<1>5. \A i, j \in 1 .. n : f[i] = f[j] => i = j
  BY <1>3 DEF IsInjective
<1> QED  BY <1>3, <1>4, <1>5, ListsAll DEF n

(* A strict order of S, as a set of pairs.                                 *)
Orders(R, S) ==
  /\ \A x \in S : <<x, x>> \notin R
  /\ \A x, y, z \in S : <<x, y>> \in R /\ <<y, z>> \in R => <<x, z>> \in R
  /\ \A x, y \in S : x = y \/ <<x, y>> \in R \/ <<y, x>> \in R

Below(R, S, x) == {y \in S : <<y, x>> \in R}

LEMMA BelowGrows ==
  ASSUME NEW S, IsFiniteSet(S), NEW R, Orders(R, S), NEW x \in S, NEW y \in S, <<x, y>> \in R
  PROVE  /\ Cardinality(Below(R, S, x)) \in Nat /\ Cardinality(Below(R, S, y)) \in Nat
         /\ Cardinality(Below(R, S, x)) < Cardinality(Below(R, S, y))
<1> DEFINE A == Below(R, S, x)
           B == Below(R, S, y)
<1>1. A \in SUBSET B /\ B \in SUBSET S /\ x \in B /\ x \notin A
  BY DEF Orders, Below
<1> HIDE DEF A, B
<1>2. IsFiniteSet(B)
  BY <1>1, FS_Subset
<1>3. IsFiniteSet(A) /\ Cardinality(A) <= Cardinality(B) /\ (Cardinality(B) = Cardinality(A) => B = A)
  BY <1>1, <1>2, FS_Subset
<1>4. Cardinality(A) \in Nat /\ Cardinality(B) \in Nat
  BY <1>2, <1>3, FS_CardinalityType
<1>5. Cardinality(A) < Cardinality(B)
  BY <1>1, <1>3, <1>4
<1> QED  BY <1>4, <1>5 DEF A, B

(* A finite set can be listed in order, and whatever lists it in order     *)
(* lists it all.                                                           *)
Sorts(f, R, S) ==
  /\ f \in [1 .. Cardinality(S) -> S]
  /\ \A i, j \in 1 .. Cardinality(S) : i < j => <<f[i], f[j]>> \in R

LEMMA SortedExists ==
  ASSUME NEW S, IsFiniteSet(S), NEW R, Orders(R, S)
  PROVE  \E f : Sorts(f, R, S)
<1> DEFINE n == Cardinality(S)
           T == 1 .. n
           rank == [x \in S |-> Cardinality(Below(R, S, x)) + 1]
<1>1. n \in Nat
  BY FS_CardinalityType
<1>2. IsFiniteSet(T) /\ Cardinality(T) = n
  <2>1. IsFiniteSet(T) /\ Cardinality(T) = IF 1 > n THEN 0 ELSE n - 1 + 1
    BY <1>1, FS_Interval
  <2> QED  BY <1>1, <2>1
<1>3. ASSUME NEW x \in S  PROVE rank[x] \in T
  <2> DEFINE A == Below(R, S, x)
  <2>1. A \in SUBSET S /\ x \notin A
    BY DEF Orders, Below
  <2>2. IsFiniteSet(A) /\ Cardinality(A) <= n /\ (n = Cardinality(A) => S = A)
    BY <2>1, FS_Subset
  <2>3. Cardinality(A) \in Nat /\ Cardinality(A) # n
    BY <2>1, <2>2, FS_CardinalityType
  <2>4. rank[x] = Cardinality(A) + 1
    OBVIOUS
  <2> HIDE DEF A, n, rank
  <2>5. Cardinality(A) + 1 \in 1 .. n
    BY <1>1, <2>2, <2>3
  <2> QED  BY <2>4, <2>5
<1>4. ASSUME NEW x \in S, NEW y \in S, <<x, y>> \in R  PROVE rank[x] < rank[y]
  <2>1. /\ Cardinality(Below(R, S, x)) \in Nat /\ Cardinality(Below(R, S, y)) \in Nat
        /\ Cardinality(Below(R, S, x)) < Cardinality(Below(R, S, y))
    BY <1>4, BelowGrows
  <2>2. rank[x] = Cardinality(Below(R, S, x)) + 1 /\ rank[y] = Cardinality(Below(R, S, y)) + 1
    OBVIOUS
  <2> HIDE DEF rank
  <2> QED  BY <2>1, <2>2
<1>5. rank \in [S -> T]
  BY <1>3
<1> HIDE DEF rank, n
<1>6. \A x \in S : rank[x] \in Int
  BY <1>3
<1>7. ASSUME NEW x \in S, NEW y \in S, rank[x] = rank[y]  PROVE x = y
  <2>1. ~(rank[x] < rank[y]) /\ ~(rank[y] < rank[x])
    BY <1>6, <1>7
  <2>2. <<x, y>> \notin R /\ <<y, x>> \notin R
    BY <1>4, <2>1
  <2> QED  BY <2>2 DEF Orders
<1>8. rank \in Injection(S, T)
  BY <1>5, <1>7 DEF Injection, IsInjective
<1>9. rank \in Surjection(S, T)
  BY <1>2, <1>8, FS_Injection DEF n
<1>10. \A i \in T : \E x \in S : rank[x] = i
  BY <1>9 DEF Surjection
<1> DEFINE f == [i \in T |-> CHOOSE x \in S : rank[x] = i]
<1>11. f \in [T -> S] /\ \A i \in T : rank[f[i]] = i
  BY <1>10
<1> HIDE DEF f
<1>12. ASSUME NEW i \in T, NEW j \in T, i < j  PROVE <<f[i], f[j]>> \in R
  <2>1. f[i] \in S /\ f[j] \in S /\ rank[f[i]] = i /\ rank[f[j]] = j /\ i \in Int /\ j \in Int
    BY <1>1, <1>11
  <2>2. f[i] # f[j] /\ ~(rank[f[j]] < rank[f[i]])
    BY <1>12, <2>1
  <2> QED  BY <1>4, <2>1, <2>2 DEF Orders
<1> QED  BY <1>11, <1>12 DEF Sorts, n

LEMMA SortedListsAll ==
  ASSUME NEW S, IsFiniteSet(S), NEW R, Orders(R, S), NEW f, Sorts(f, R, S)
  PROVE  f \in Seq(S) /\ Len(f) = Cardinality(S) /\ Distinct(f) /\ Elements(f) = S
<1> DEFINE n == Cardinality(S)
<1>1. n \in Nat
  BY FS_CardinalityType
<1>2. /\ f \in [1 .. n -> S]
      /\ \A i, j \in 1 .. n : i < j => <<f[i], f[j]>> \in R
  BY DEF Sorts
<1> HIDE DEF n
<1>3. ASSUME NEW i \in 1 .. n, NEW j \in 1 .. n, f[i] = f[j]  PROVE i = j
  <2>1. i \in Int /\ j \in Int /\ f[i] \in S /\ <<f[i], f[j]>> \notin R /\ <<f[j], f[i]>> \notin R
    BY <1>1, <1>2, <1>3 DEF Orders
  <2> QED  BY <1>2, <2>1
<1> QED  BY <1>2, <1>3, ListsAll DEF n

-----------------------------------------------------------------------------
LEMMA OccursOnce ==
  ASSUME NEW q \in Seq(Tasks), Distinct(q), NEW t
  PROVE  Occurrences(t, q) = IF t \in Elements(q) THEN 1 ELSE 0
<1> DEFINE I == {i \in DOMAIN q : q[i] = t}
<1>1. DOMAIN q = 1 .. Len(q)
  OBVIOUS
<1>2. CASE t \in Elements(q)
  <2>1. PICK k \in 1 .. Len(q) : q[k] = t
    BY <1>2 DEF Elements
  <2>2. I = {k}
    BY <1>1, <2>1 DEF Distinct
  <2>3. Cardinality({k}) = 1
    BY FS_Singleton
  <2> QED  BY <1>2, <2>2, <2>3 DEF Occurrences
<1>3. CASE t \notin Elements(q)
  <2>1. I = {}
    BY <1>1, <1>3 DEF Elements
  <2>2. Cardinality({}) = 0
    BY FS_EmptySet
  <2> QED  BY <1>3, <2>1, <2>2 DEF Occurrences
<1> QED  BY <1>2, <1>3

LEMMA ConcatLists ==
  ASSUME NEW p \in Seq(Tasks), NEW q \in Seq(Tasks), Distinct(p), Distinct(q),
         Elements(p) \cap Elements(q) = {}
  PROVE  p \o q \in Seq(Tasks) /\ Distinct(p \o q) /\ Elements(p \o q) = Elements(p) \cup Elements(q)
<1> DEFINE w == p \o q
           m == Len(p)
           n == Len(q)
<1>1. w \in Seq(Tasks) /\ Len(w) = m + n /\ m \in Nat /\ n \in Nat
  OBVIOUS
<1>2. \A i \in 1 .. m + n : w[i] = IF i <= m THEN p[i] ELSE q[i - m]
  OBVIOUS
<1>3. /\ \A i, j \in 1 .. m : p[i] = p[j] => i = j
      /\ \A i, j \in 1 .. n : q[i] = q[j] => i = j
      /\ \A i \in 1 .. m, j \in 1 .. n : p[i] # q[j]
  BY DEF Distinct, Elements
<1> HIDE DEF w, m, n
<1>4. ASSUME NEW i \in 1 .. m + n, NEW j \in 1 .. m + n, w[i] = w[j]  PROVE i = j
  <2>1. i \in Int /\ j \in Int /\ (i <= m => i \in 1 .. m) /\ (i > m => i - m \in 1 .. n)
        /\ (j <= m => j \in 1 .. m) /\ (j > m => j - m \in 1 .. n)
    BY <1>1
  <2>2. CASE i <= m /\ j <= m
    BY <1>2, <1>3, <1>4, <2>1, <2>2
  <2>3. CASE i > m /\ j > m
    <3>1. q[i - m] = q[j - m]
      BY <1>1, <1>2, <1>4, <2>1, <2>3
    <3>2. i - m = j - m
      BY <1>3, <2>1, <2>3, <3>1
    <3> QED  BY <1>1, <2>1, <3>2
  <2>4. CASE i <= m /\ j > m
    <3>1. p[i] = q[j - m]
      BY <1>1, <1>2, <1>4, <2>1, <2>4
    <3> QED  BY <1>3, <2>1, <2>4, <3>1
  <2>5. CASE i > m /\ j <= m
    <3>1. q[i - m] = p[j]
      BY <1>1, <1>2, <1>4, <2>1, <2>5
    <3> QED  BY <1>3, <2>1, <2>5, <3>1
  <2> QED  BY <1>1, <2>1, <2>2, <2>3, <2>4, <2>5
<1>5. \A x : x \in Elements(w) <=> x \in Elements(p) \/ x \in Elements(q)
  <2>1. ASSUME NEW i \in 1 .. m + n  PROVE w[i] \in Elements(p) \/ w[i] \in Elements(q)
    <3>1. (i <= m => i \in 1 .. m) /\ (i > m => i - m \in 1 .. n) /\ i \in Int
      BY <1>1
    <3> QED  BY <1>1, <1>2, <3>1 DEF Elements, m, n
  <2>2. ASSUME NEW i \in 1 .. m  PROVE i \in 1 .. m + n /\ w[i] = p[i]
    BY <1>1, <1>2
  <2>3. ASSUME NEW i \in 1 .. n  PROVE m + i \in 1 .. m + n /\ w[m + i] = q[i]
    <3>1. m + i \in 1 .. m + n /\ ~(m + i <= m) /\ (m + i) - m = i
      BY <1>1
    <3> QED  BY <1>2, <3>1
  <2>4. Elements(w) = {w[i] : i \in 1 .. m + n}
    BY <1>1 DEF Elements
  <2>5. Elements(p) = {p[i] : i \in 1 .. m} /\ Elements(q) = {q[i] : i \in 1 .. n}
    BY DEF Elements, m, n
  <2>6. \A x \in Elements(w) : x \in Elements(p) \/ x \in Elements(q)
    BY <2>1, <2>4
  <2>7. \A x \in Elements(p) : x \in Elements(w)
    BY <2>2, <2>4, <2>5
  <2>8. \A x \in Elements(q) : x \in Elements(w)
    <3> SUFFICES ASSUME NEW i \in 1 .. n  PROVE q[i] \in Elements(w)
      BY <2>5
    <3> QED  BY <2>3, <2>4
  <2> QED  BY <2>6, <2>7, <2>8
<1>6. Distinct(w)
  BY <1>1, <1>4 DEF Distinct
<1> QED  BY <1>1, <1>5, <1>6 DEF w

-----------------------------------------------------------------------------
(* What it means for a task to be in one of the three parts of the answer. *)
GatedTasks(v) == {e.task : e \in Gated(v)}

LEMMA GatedIs ==
  ASSUME NEW v \in View
  PROVE  /\ \A e \in Gated(v) : /\ e = [sess |-> e.sess, task |-> e.task]
                                /\ e.sess \in Sessions /\ e.task \in Tasks
                                /\ e.task \in Waiting(v, e.sess) /\ ~CanDispatch(e.sess)
         /\ \A s \in Sessions : \A t \in Waiting(v, s) :
              ~CanDispatch(s) => [sess |-> s, task |-> t] \in Gated(v)
<1>1. \A s \in Sessions : \A t \in Waiting(v, s) : t \in Tasks /\ s \in Pending(v)
  BY DEF Waiting, Pending, View
<1>2. \A s \in Pending(v) : s \in Sessions
  BY DEF Pending
<1> QED  BY <1>1, <1>2 DEF Gated

LEMMA ShownApart ==
  ASSUME NEW v \in Shown
  PROVE  /\ v \in View /\ Apart(v) /\ Pending(v) \subseteq index
         /\ \A s \in Sessions : v.running[s] \in Tasks \cup {NoTask}
         /\ \A r, s \in Sessions : Waiting(v, r) \cap Waiting(v, s) # {} => r = s
         /\ \A r, s \in Sessions : v.running[r] \notin Waiting(v, s)
         /\ \A r, s \in Sessions : v.running[r] # NoTask /\ v.running[s] # NoTask => r = s
<1>1. /\ v \in View /\ AllDistinct(v) /\ Pending(v) \subseteq index
      /\ \A s \in Sessions : \A t \in Waiting(v, s) : KnownAs(t, s) /\ v.running[s] # t
      /\ \A s \in Sessions : v.running[s] # NoTask => KnownAs(v.running[s], s)
      /\ \A r, s \in Sessions : v.running[r] # NoTask /\ v.running[s] # NoTask => r = s
  BY DEF Shown, ShownWith, KnownAs
<1>2. \A s \in Sessions : v.running[s] \in Tasks \cup {NoTask}
  BY <1>1 DEF View
<1>3. \A r, s \in Sessions : Waiting(v, r) \cap Waiting(v, s) # {} => r = s
  BY <1>1 DEF Known, KnownAs
<1>4. ASSUME NEW r \in Sessions, NEW s \in Sessions, v.running[r] \in Waiting(v, s)  PROVE FALSE
  <2>1. v.running[r] # NoTask
    <3>1. v.running[r] \in Tasks
      BY <1>1, <1>4 DEF Waiting, View
    <3> QED  BY <3>1, ProjectionAssumption DEF Tasks, NoTask
  <2>2. r = s
    BY <1>1, <1>4, <2>1 DEF Known, KnownAs
  <2> QED  BY <1>1, <1>4, <2>2
<1>5. Apart(v)
  BY <1>1, <1>3 DEF Apart
<1> QED  BY <1>1, <1>2, <1>3, <1>4, <1>5

LEMMA GatedApart ==
  ASSUME NEW v \in Shown
  PROVE  /\ \A e, f \in Gated(v) : e.task = f.task => e = f
         /\ IsFiniteSet(Gated(v))
<1>1. v \in View /\ \A r, s \in Sessions : Waiting(v, r) \cap Waiting(v, s) # {} => r = s
  BY ShownApart
<1>2. \A e \in Gated(v) : /\ e = [sess |-> e.sess, task |-> e.task]
                          /\ e.sess \in Sessions /\ e.task \in Tasks
                          /\ e.task \in Waiting(v, e.sess)
  BY <1>1, GatedIs
<1>3. ASSUME NEW e \in Gated(v), NEW f \in Gated(v), e.task = f.task  PROVE e = f
  <2>1. e.sess = f.sess
    BY <1>1, <1>2, <1>3
  <2> QED  BY <1>2, <1>3, <2>1
<1> DEFINE g == [e \in Gated(v) |-> e.task]
<1>4. g \in Injection(Gated(v), Tasks)
  <2>1. g \in [Gated(v) -> Tasks]
    BY <1>2
  <2>2. \A e, f \in Gated(v) : g[e] = g[f] => e = f
    BY <1>3
  <2> HIDE DEF g
  <2> QED  BY <2>1, <2>2 DEF Injection, IsInjective
<1>5. IsFiniteSet(Tasks)
  BY ProjectionAssumption, FS_Interval DEF Tasks
<1>6. IsFiniteSet(Gated(v))
  <2> HIDE DEF g
  <2> QED  BY <1>4, <1>5, FS_Injection
<1> QED  BY <1>3, <1>6

(* The gated tasks can be sorted by the key of _scheduled, in one way.     *)
LEMMA ScheduledLists ==
  ASSUME TypeOK, NEW v \in Shown
  PROVE  /\ Scheduled(v) \in Seq(Gated(v)) /\ Distinct(Scheduled(v))
         /\ Elements(Scheduled(v)) = Gated(v)
<1> DEFINE S == Gated(v)
           R == {p \in S \X S : ScheduledBefore(p[1], p[2])}
<1>1. \A e \in S : e.sess \in Sessions /\ e.task \in Nat /\ priority[e.sess] \in Nat
  <2>1. v \in View
    BY ShownApart
  <2>2. \A e \in S : e.sess \in Sessions /\ e.task \in Tasks
    BY <2>1, GatedIs
  <2>3. MaxPriority \in Nat /\ MaxTasks \in Nat
    BY DispatcherAssumption, ProjectionAssumption
  <2>4. \A s \in Sessions : priority[s] \in Nat
    BY <2>3 DEF TypeOK
  <2> QED  BY <2>2, <2>3, <2>4 DEF Tasks
<1>2. IsFiniteSet(S) /\ \A e, f \in S : e.task = f.task => e = f
  BY GatedApart
<1> HIDE DEF S
<1>3. \A e \in S : Reason(e) \in {"window", "manual"}
  BY DEF Reason
<1>4. Orders(R, S)
  <2>1. \A e, f \in S : <<e, f>> \in R <=> ScheduledBefore(e, f)
    OBVIOUS
  <2>2. \A e \in S : ~ScheduledBefore(e, e)
    BY <1>1 DEF ScheduledBefore
  <2>3. \A e, f, g \in S : ScheduledBefore(e, f) /\ ScheduledBefore(f, g) => ScheduledBefore(e, g)
    BY <1>1, <1>3 DEF ScheduledBefore
  <2>4. \A e, f \in S : e = f \/ ScheduledBefore(e, f) \/ ScheduledBefore(f, e)
    BY <1>1, <1>2, <1>3 DEF ScheduledBefore
  <2> HIDE DEF R
  <2>5. \A e, f, g \in S : <<e, f>> \in R /\ <<f, g>> \in R => <<e, g>> \in R
    BY <2>1, <2>3
  <2>6. \A e, f \in S : e = f \/ <<e, f>> \in R \/ <<f, e>> \in R
    BY <2>1, <2>4
  <2> QED  BY <2>1, <2>2, <2>5, <2>6 DEF Orders
<1>5. \A f : Sorts(f, R, S) <=>
        /\ f \in [1 .. Cardinality(S) -> S]
        /\ \A i, j \in DOMAIN f : i < j => ScheduledBefore(f[i], f[j])
  BY DEF Sorts
<1> HIDE DEF R
<1>6. \E f : Sorts(f, R, S)
  BY <1>2, <1>4, SortedExists
<1>7. Scheduled(v) = CHOOSE f \in [1 .. Cardinality(S) -> S] :
                       \A i, j \in DOMAIN f : i < j => ScheduledBefore(f[i], f[j])
  BY DEF Scheduled, S
<1>8. Sorts(Scheduled(v), R, S)
  BY <1>5, <1>6, <1>7
<1> QED  BY <1>2, <1>4, <1>8, SortedListsAll DEF S

LEMMA ScheduledTasks ==
  ASSUME TypeOK, NEW v \in Shown
  PROVE  LET scheduled == Scheduled(v)
             tasks == [i \in DOMAIN scheduled |-> scheduled[i].task]
         IN tasks \in Seq(Tasks) /\ Distinct(tasks) /\ Elements(tasks) = GatedTasks(v)
<1> DEFINE q == Scheduled(v)
           tasks == [i \in DOMAIN q |-> q[i].task]
<1>1. q \in Seq(Gated(v)) /\ Distinct(q) /\ Elements(q) = Gated(v)
  BY ScheduledLists
<1>2. \A e, f \in Gated(v) : e.task = f.task => e = f
  BY GatedApart
<1>3. \A e \in Gated(v) : e.task \in Tasks
  BY ShownApart, GatedIs
<1> HIDE DEF q
<1>4. DOMAIN q = 1 .. Len(q) /\ Len(q) \in Nat /\ \A i \in 1 .. Len(q) : q[i] \in Gated(v)
  BY <1>1
<1>5. tasks \in Seq(Tasks) /\ Len(tasks) = Len(q) /\ \A i \in 1 .. Len(q) : tasks[i] = q[i].task
  BY <1>3, <1>4
<1> HIDE DEF tasks
<1>6. Distinct(tasks)
  BY <1>1, <1>2, <1>4, <1>5 DEF Distinct
<1>7. Elements(tasks) = GatedTasks(v)
  <2>1. \A i \in 1 .. Len(q) : tasks[i] \in GatedTasks(v)
    BY <1>4, <1>5 DEF GatedTasks
  <2>2. ASSUME NEW e \in Gated(v)  PROVE e.task \in Elements(tasks)
    <3>1. PICK i \in 1 .. Len(q) : q[i] = e
      BY <1>1 DEF Elements
    <3> QED  BY <1>5, <3>1 DEF Elements
  <2>3. Elements(tasks) = {tasks[i] : i \in 1 .. Len(q)}
    BY <1>5 DEF Elements
  <2>4. \A x \in GatedTasks(v) : x \in Elements(tasks)
    BY <2>2 DEF GatedTasks
  <2> QED  BY <2>1, <2>3, <2>4
<1> QED  BY <1>5, <1>6, <1>7 DEF q, tasks

LEMMA InFlightLists ==
  ASSUME NEW v \in Shown
  PROVE  /\ InFlight(v) \subseteq Tasks /\ IsFiniteSet(InFlight(v)) /\ Cardinality(InFlight(v)) <= 1
         /\ SetToSeq(InFlight(v)) \in Seq(Tasks) /\ Distinct(SetToSeq(InFlight(v)))
         /\ Elements(SetToSeq(InFlight(v))) = InFlight(v)
<1> DEFINE S == InFlight(v)
<1>1. /\ \A s \in Sessions : v.running[s] \in Tasks \cup {NoTask}
      /\ \A r, s \in Sessions : v.running[r] # NoTask /\ v.running[s] # NoTask => r = s
  BY ShownApart
<1>2. S \subseteq Tasks /\ \A x, y \in S : x = y
  BY <1>1 DEF InFlight
<1> HIDE DEF S
<1>3. IsFiniteSet(S) /\ Cardinality(S) <= 1
  <2>1. CASE S = {}
    BY <2>1, FS_EmptySet
  <2>2. CASE S # {}
    <3>1. PICK x \in S : TRUE
      BY <2>2
    <3>2. S = {x}
      BY <1>2, <3>1
    <3>3. IsFiniteSet({x}) /\ Cardinality({x}) = 1
      BY FS_Singleton
    <3> QED  BY <3>2, <3>3
  <2> QED  BY <2>1, <2>2
<1>4. SetToSeq(S) \in Seq(S) /\ Distinct(SetToSeq(S)) /\ Elements(SetToSeq(S)) = S
  BY <1>3, SeqOfSet
<1>5. SetToSeq(S) \in Seq(Tasks)
  BY <1>2, <1>4
<1> QED  BY <1>2, <1>3, <1>4, <1>5 DEF S

(* A view that can be shown is shown whole: every task it has is in one of *)
(* the three lists, once.                                                  *)
RendersAll(v) ==
  /\ Renders(v)
  /\ LET ready == DispatchOrder(v)
         scheduled == Scheduled(v)
         tasks == [i \in DOMAIN scheduled |-> scheduled[i].task]
         shown == SetToSeq(InFlight(v)) \o ready \o tasks
     IN \A t \in Tasks :
          Occurrences(t, shown) =
            IF \E s \in Sessions : t \in Waiting(v, s) \cup {v.running[s]} THEN 1 ELSE 0

LEMMA ShownRenders ==
  ASSUME IsFiniteSet(Sessions), TypeOK, NEW v \in Shown
  PROVE  RendersAll(v)
<1> DEFINE p == SetToSeq(InFlight(v))
           q == DispatchOrder(v)
           scheduled == Scheduled(v)
           r == [i \in DOMAIN scheduled |-> scheduled[i].task]
<1>1. /\ v \in View /\ Apart(v) /\ Pending(v) \subseteq index
      /\ \A s \in Sessions : v.running[s] \in Tasks \cup {NoTask}
      /\ \A s, u \in Sessions : Waiting(v, s) \cap Waiting(v, u) # {} => s = u
      /\ \A s, u \in Sessions : v.running[s] \notin Waiting(v, u)
  BY ShownApart
<1>2. index \subseteq Sessions /\ priority \in [Sessions -> 1 .. MaxPriority]
  BY DEF TypeOK
<1>3. /\ InFlight(v) \subseteq Tasks /\ Cardinality(InFlight(v)) <= 1
      /\ p \in Seq(Tasks) /\ Distinct(p) /\ Elements(p) = InFlight(v)
  BY InFlightLists
<1>4. q \in Seq(Tasks) /\ Distinct(q) /\ Elements(q) = Ready(v)
  BY <1>1, <1>2, OrderUnfolds, OrderCovers
<1>5. r \in Seq(Tasks) /\ Distinct(r) /\ Elements(r) = GatedTasks(v)
  BY ScheduledTasks
<1> HIDE DEF p, q, r, scheduled
<1>6. /\ \A t \in InFlight(v) : \E s \in Sessions : t = v.running[s]
      /\ \A t \in Tasks : \A s \in Sessions : t = v.running[s] => t \in InFlight(v)
  <2>1. \A t \in Tasks : t # NoTask
    BY ProjectionAssumption DEF Tasks, NoTask
  <2> QED  BY <2>1 DEF InFlight
<1>7. /\ \A t \in Ready(v) : \E s \in Sessions : t \in Waiting(v, s) /\ CanDispatch(s)
      /\ \A t \in Tasks : \A s \in Sessions : t \in Waiting(v, s) /\ CanDispatch(s) => t \in Ready(v)
  <2>1. \A s \in Sessions : \A t \in Waiting(v, s) : v.queued[s] # <<>> /\ s \in Pending(v)
    BY DEF Waiting, Pending
  <2> QED  BY <1>1, <1>2, <2>1 DEF Ready, Candidates
<1>8. /\ \A t \in GatedTasks(v) : \E s \in Sessions : t \in Waiting(v, s) /\ ~CanDispatch(s)
      /\ \A t \in Tasks : \A s \in Sessions :
           t \in Waiting(v, s) /\ ~CanDispatch(s) => t \in GatedTasks(v)
  <2>1. \A e \in Gated(v) : /\ e.sess \in Sessions /\ e.task \in Waiting(v, e.sess)
                            /\ ~CanDispatch(e.sess)
    BY <1>1, GatedIs
  <2>2. ASSUME NEW t \in Tasks, NEW s \in Sessions, t \in Waiting(v, s), ~CanDispatch(s)
        PROVE  t \in GatedTasks(v)
    <3>1. [sess |-> s, task |-> t] \in Gated(v)
      BY <1>1, <2>2, GatedIs
    <3>2. [sess |-> s, task |-> t].task = t
      OBVIOUS
    <3> QED  BY <3>1, <3>2 DEF GatedTasks
  <2> QED  BY <2>1, <2>2 DEF GatedTasks
<1>9. /\ Elements(p) \cap Elements(q) = {}
      /\ (Elements(p) \cup Elements(q)) \cap Elements(r) = {}
  BY <1>1, <1>3, <1>4, <1>5, <1>6, <1>7, <1>8
<1>10. /\ p \o q \in Seq(Tasks) /\ Distinct(p \o q) /\ Elements(p \o q) = Elements(p) \cup Elements(q)
  BY <1>3, <1>4, <1>9, ConcatLists
<1> DEFINE w == p \o q
           shown == w \o r
<1>11. /\ shown \in Seq(Tasks) /\ Distinct(shown)
       /\ Elements(shown) = Elements(p) \cup Elements(q) \cup Elements(r)
  <2>1. w \in Seq(Tasks) /\ Distinct(w) /\ Elements(w) \cap Elements(r) = {}
        /\ Elements(w) = Elements(p) \cup Elements(q)
    BY <1>9, <1>10
  <2> HIDE DEF w
  <2>2. shown \in Seq(Tasks) /\ Distinct(shown) /\ Elements(shown) = Elements(w) \cup Elements(r)
    BY <1>5, <2>1, ConcatLists
  <2> QED  BY <2>1, <2>2
<1>12. \A t \in Tasks : t \in Elements(shown) <=>
         \E s \in Sessions : t \in Waiting(v, s) \cup {v.running[s]}
  BY <1>3, <1>4, <1>5, <1>6, <1>7, <1>8, <1>11
<1> HIDE DEF shown
<1>13. \A t \in Tasks : Occurrences(t, shown) =
         IF \E s \in Sessions : t \in Waiting(v, s) \cup {v.running[s]} THEN 1 ELSE 0
  <2>1. \A t : Occurrences(t, shown) = IF t \in Elements(shown) THEN 1 ELSE 0
    BY <1>11, OccursOnce
  <2> QED  BY <1>12, <2>1
<1>14. Renders(v)
  BY <1>1, <1>3 DEF Renders
<1> QED  BY <1>13, <1>14 DEF RendersAll, shown, w, p, q, r, scheduled

-----------------------------------------------------------------------------
(* An event of the bus that is not about t of s leaves it where it is.     *)
LEMMA OthersStay ==
  ASSUME NEW v \in Shown, NEW e \in BusEvents, Calm(v, e), NEW s \in Sessions, NEW t \in Tasks,
         e.type \in EventTypes => ~(e.sess = s /\ e.task = t)
  PROVE  /\ t \in Waiting(Apply(v, e), s) <=> t \in Waiting(v, s)
         /\ Apply(v, e).running[s] = t <=> v.running[s] = t
<1>0. v \in View /\ AllDistinct(v) /\ t # NoTask
  BY ProjectionAssumption DEF Shown, ShownWith, Tasks, NoTask
<1>1. CASE e \in {CloseMark, OutputMark}
  BY <1>0, <1>1, ApplyBus
<1>2. CASE e \in TaskEvent
  <2>1. /\ e.type \in EventTypes /\ ~(e.sess = s /\ e.task = t)
        /\ Adds(e) => e.task \notin Waiting(v, e.sess)
    BY <1>2 DEF TaskEvent, Calm
  <2>2. /\ t \in Waiting(Apply(v, e), s) <=>
             \/ t \in Waiting(v, s) /\ ~(Leaves(v, e) /\ s = e.sess /\ t = e.task)
             \/ Enters(v, e) /\ s = e.sess /\ t = e.task
        /\ Apply(v, e).running[s] =
             IF s = e.sess /\ e.type = "dispatched" /\ e.task \in Waiting(v, s) THEN e.task
             ELSE IF s = e.sess /\ Ends(v, e) THEN NoTask
             ELSE v.running[s]
    BY <1>0, <1>2, <2>1, EventMoves
  <2>3. e.type = "dispatched" => v.running[s] = NoTask
    BY DEF Calm
  <2>4. Ends(v, e) => v.running[e.sess] = e.task
    BY DEF Ends
  <2> QED  BY <1>0, <2>1, <2>2, <2>3, <2>4
<1> QED  BY <1>1, <1>2 DEF BusEvents

(* An event of another session leaves what s has.                          *)
LEMMA OthersKept ==
  ASSUME NEW v \in View, NEW e \in BusEvents, NEW s \in Sessions,
         e.type \in EventTypes => e.sess # s
  PROVE  /\ Apply(v, e).queued[s] = v.queued[s] /\ Apply(v, e).running[s] = v.running[s]
         /\ Apply(v, e).retrying[s] = v.retrying[s]
<1>1. CASE e \in {CloseMark, OutputMark}
  BY <1>1, ApplyBus
<1>2. CASE e \in TaskEvent
  <2>1. e.type \in EventTypes /\ e.sess \in Sessions /\ e.sess # s
    BY <1>2 DEF TaskEvent
  <2>2. /\ v.queued \in [Sessions -> Seq(Tasks)] /\ v.running \in [Sessions -> Tasks \cup {NoTask}]
        /\ v.retrying \in [Sessions -> BOOLEAN]
        /\ v = [queued |-> v.queued, running |-> v.running, retrying |-> v.retrying]
    BY DEF View
  <2>3. CASE e.type = "queued"
    BY <2>1, <2>2, <2>3 DEF Apply, OnQueued, TerminalTypes
  <2>4. CASE e.type = "dispatched"
    BY <2>1, <2>2, <2>4 DEF Apply, OnDispatched, TerminalTypes
  <2>5. CASE e.type = "retrying"
    BY <2>1, <2>2, <2>5 DEF Apply, OnRetrying, TerminalTypes
  <2>6. CASE e.type = "deferred"
    BY <2>1, <2>2, <2>6 DEF Apply, OnDeferred, TerminalTypes
  <2>7. CASE e.type \in TerminalTypes
    BY <2>1, <2>2, <2>7 DEF Apply, OnTerminal, TerminalTypes
  <2> QED  BY <2>1, <2>3, <2>4, <2>5, <2>6, <2>7 DEF EventTypes
<1> QED  BY <1>1, <1>2 DEF BusEvents

-----------------------------------------------------------------------------
(* The buffer has no event of t of s, no event of s, or no task event.     *)
NoneOfTask(q, s, t) ==
  \A i \in 1 .. Len(q) : q[i].type \in EventTypes => ~(q[i].sess = s /\ q[i].task = t)
NoneOf(q, s) == \A i \in 1 .. Len(q) : q[i].type \in EventTypes => q[i].sess # s
NoneAtAll(q) == \A s \in Sessions : NoneOf(q, s)

LEMMA TaskExplained ==
  ASSUME NEW v, NEW w, NEW q \in Seq(BusEvents), PacedIn(Shown, v, q, w),
         NEW s \in Sessions, NEW t \in Tasks, NoneOfTask(q, s, t)
  PROVE  /\ t \in Waiting(v, s) <=> t \in Waiting(w, s)
         /\ v.running[s] = t <=> w.running[s] = t
<1> DEFINE F == [u \in Shown |-> IF t \in Waiting(u, s) THEN 1 ELSE 0]
           R == [u \in Shown |-> IF u.running[s] = t THEN 1 ELSE 0]
<1>1. ASSUME NEW i \in 1 .. Len(q)  PROVE Unmoved(Shown, F, q[i]) /\ Unmoved(Shown, R, q[i])
  <2>1. q[i] \in BusEvents /\ (q[i].type \in EventTypes => ~(q[i].sess = s /\ q[i].task = t))
    BY DEF NoneOfTask
  <2>2. \A u \in Shown : Calm(u, q[i]) =>
          /\ t \in Waiting(Apply(u, q[i]), s) <=> t \in Waiting(u, s)
          /\ Apply(u, q[i]).running[s] = t <=> u.running[s] = t
    BY <2>1, OthersStay
  <2> QED  BY <2>2 DEF Unmoved
<1>2. v \in Shown /\ w \in Shown
  BY PacedEnds
<1>3. /\ F[v] = IF t \in Waiting(v, s) THEN 1 ELSE 0
      /\ F[w] = IF t \in Waiting(w, s) THEN 1 ELSE 0
      /\ R[v] = IF v.running[s] = t THEN 1 ELSE 0
      /\ R[w] = IF w.running[s] = t THEN 1 ELSE 0
  BY <1>2
<1> HIDE DEF F, R
<1>4. F[v] = F[w]
  <2>1. \A i \in 1 .. Len(q) : Unmoved(Shown, F, q[i])
    BY <1>1
  <2> QED  BY <2>1, PacedKeeps
<1>5. R[v] = R[w]
  <2>1. \A i \in 1 .. Len(q) : Unmoved(Shown, R, q[i])
    BY <1>1
  <2> QED  BY <2>1, PacedKeeps
<1> QED  BY <1>3, <1>4, <1>5

LEMMA SessionExplained ==
  ASSUME NEW v, NEW w, NEW q \in Seq(BusEvents), PacedIn(Shown, v, q, w),
         NEW s \in Sessions, NoneOf(q, s)
  PROVE  v.queued[s] = w.queued[s] /\ v.running[s] = w.running[s] /\ v.retrying[s] = w.retrying[s]
<1> DEFINE F == [u \in Shown |-> <<u.queued[s], u.running[s], u.retrying[s]>>]
<1>1. ASSUME NEW i \in 1 .. Len(q)  PROVE Unmoved(Shown, F, q[i])
  <2>1. q[i] \in BusEvents /\ (q[i].type \in EventTypes => q[i].sess # s)
    BY DEF NoneOf
  <2>2. \A u \in Shown : u \in View
    BY DEF Shown, ShownWith
  <2>3. \A u \in Shown : /\ Apply(u, q[i]).queued[s] = u.queued[s]
                         /\ Apply(u, q[i]).running[s] = u.running[s]
                         /\ Apply(u, q[i]).retrying[s] = u.retrying[s]
    BY <2>1, <2>2, OthersKept
  <2> QED  BY <2>3 DEF Unmoved
<1>2. v \in Shown /\ w \in Shown
  BY PacedEnds
<1>3. /\ F[v] = <<v.queued[s], v.running[s], v.retrying[s]>>
      /\ F[w] = <<w.queued[s], w.running[s], w.retrying[s]>>
  BY <1>2
<1> HIDE DEF F
<1>4. F[v] = F[w]
  BY <1>1, PacedKeeps
<1> QED  BY <1>3, <1>4

LEMMA QueueExplained ==
  ASSUME NEW v, NEW w, NEW q \in Seq(BusEvents), PacedIn(Shown, v, q, w), NoneAtAll(q)
  PROVE  v = w
<1> DEFINE F == [u \in Shown |-> u]
<1>1. ASSUME NEW i \in 1 .. Len(q)  PROVE Unmoved(Shown, F, q[i])
  <2>1. q[i] \in BusEvents /\ q[i] \notin TaskEvent
    BY DEF TaskEvent, NoneAtAll, NoneOf
  <2>2. \A u \in Shown : u \in View
    BY DEF Shown, ShownWith
  <2>3. \A u \in Shown : Apply(u, q[i]) = u
    BY <2>1, <2>2, ApplyBus DEF BusEvents
  <2> QED  BY <2>3 DEF Unmoved
<1>2. F[v] = F[w]
  <2> HIDE DEF F
  <2>1. \A i \in 1 .. Len(q) : Unmoved(Shown, F, q[i])
    BY <1>1
  <2> QED  BY <2>1, PacedKeeps
<1>3. v \in Shown /\ w \in Shown
  BY PacedEnds
<1> QED  BY <1>2, <1>3

-----------------------------------------------------------------------------
LEMMA AnswersExplained ==
  ASSUME TypeOK, PacedIn(Shown, view, busq, logged), NEW s \in Sessions, NEW t \in Tasks
  PROVE  /\ CancelAnswer(view, s, t) # CancelAnswer(logged, s, t)
              => Behind(LAMBDA e : e.sess = s /\ e.task = t)
         /\ TaskTools(view, s, t) # TaskTools(logged, s, t)
              => Behind(LAMBDA e : e.sess = s)
         /\ PolicyTools(view, s) # PolicyTools(logged, s)
              => Behind(LAMBDA e : e.sess \in Sessions)
<1>0. busq \in Seq(BusEvents) /\ DOMAIN busq = 1 .. Len(busq)
  BY DEF TypeOK, BusEvents
<1>1. ASSUME ~Behind(LAMBDA e : e.sess = s /\ e.task = t)
      PROVE  CancelAnswer(view, s, t) = CancelAnswer(logged, s, t)
  <2>1. NoneOfTask(busq, s, t)
    BY <1>0, <1>1 DEF Behind, NoneOfTask
  <2>2. /\ t \in Waiting(view, s) <=> t \in Waiting(logged, s)
        /\ view.running[s] = t <=> logged.running[s] = t
    BY <1>0, <2>1, TaskExplained
  <2> QED  BY <2>2 DEF CancelAnswer
<1>2. ASSUME ~Behind(LAMBDA e : e.sess = s)
      PROVE  TaskTools(view, s, t) = TaskTools(logged, s, t)
  <2>1. NoneOf(busq, s)
    BY <1>0, <1>2 DEF Behind, NoneOf
  <2>2. /\ view.queued[s] = logged.queued[s] /\ view.running[s] = logged.running[s]
        /\ view.retrying[s] = logged.retrying[s]
    BY <1>0, <2>1, SessionExplained
  <2>3. Waiting(view, s) = Waiting(logged, s)
    BY <2>2 DEF Waiting
  <2>4. /\ ListAnswer(view, s) = ListAnswer(logged, s)
        /\ CancelAnswer(view, s, t) = CancelAnswer(logged, s, t)
        /\ MessageAnswer(view, s) = MessageAnswer(logged, s)
    BY <2>2, <2>3 DEF ListAnswer, CancelAnswer, MessageAnswer, InFlightStatus
  <2> QED  BY <2>4 DEF TaskTools
<1>3. ASSUME ~Behind(LAMBDA e : e.sess \in Sessions)
      PROVE  PolicyTools(view, s) = PolicyTools(logged, s)
  <2>1. NoneAtAll(busq)
    BY <1>0, <1>3 DEF Behind, NoneAtAll, NoneOf
  <2>2. view = logged
    BY <1>0, <2>1, QueueExplained
  <2> QED  BY <2>2
<1> QED  BY <1>1, <1>2, <1>3

(* No answer of the queue is a 500, GET /v1/queue shows every task of the  *)
(* projection once and in a session a client can re-rank and re-schedule,  *)
(* and what is answered otherwise than the log says is about to be changed *)
(* by a buffered event of that very task, session or queue, for any finite *)
(* set of sessions, any tasks, buffer, client operations and crashes.      *)
THEOREM AnswersAreExplained ==
  ASSUME IsFiniteSet(Sessions)
  PROVE  Spec => []AnswersHold
<1>1. TypeOK /\ RenderInv => AnswersHold
  <2> SUFFICES ASSUME TypeOK, RenderInv, mode = "up"
               PROVE  /\ RendersAll(view) /\ QueueAnswer(view).code = 200
                      /\ \A s \in Sessions, p \in Settable, n \in 1 .. MaxPriority :
                           Waiting(view, s) # {} \/ view.running[s] # NoTask =>
                             LET tools == SettingTools(s, p, n)
                             IN tools.mad_set_session_dispatch_policy.policy = p
                                /\ tools.mad_set_session_priority.priority = n
                      /\ subscribed => PacedIn(Shown, view, busq, logged)
    BY AnswersExplained DEF AnswersHold, GlobalQueueRenders, RendersAll
  <2>1. PICK w \in View : PacedIn(Shown, view, busq, w) /\ (subscribed => w = logged)
    BY DEF RenderInv
  <2>2. view \in Shown
    BY <2>1, PacedEnds DEF TypeOK, BusEvents
  <2>3. RendersAll(view)
    BY <2>2, ShownRenders
  <2>4. QueueAnswer(view).code = 200
    BY <2>3 DEF RendersAll, QueueAnswer
  <2>5. ASSUME NEW s \in Sessions, NEW p \in Settable, NEW n \in 1 .. MaxPriority,
               Waiting(view, s) # {} \/ view.running[s] # NoTask
        PROVE  LET tools == SettingTools(s, p, n)
               IN tools.mad_set_session_dispatch_policy.policy = p
                  /\ tools.mad_set_session_priority.priority = n
    <3>1. s \in Pending(view)
      BY <2>5 DEF Pending, Waiting
    <3>2. s \in index
      BY <2>2, <3>1, ShownApart
    <3> QED  BY <3>2 DEF SettingTools, Told, UpdatePolicyAnswer, PriorityAnswer, IfKnown
  <2> QED  BY <2>1, <2>3, <2>4, <2>5
<1>2. Spec => []RerunInv
  BY RerunInit, RerunStep, TypeCorrect, PTL DEF Spec
<1>3. Spec => []IndexInv
  BY <1>2, IndexInit, IndexStep, TypeCorrect, InFlightCorrect, PTL DEF Spec
<1>4. TypeOK /\ RerunInv /\ InFlightInv /\ IndexInv /\ Init => RenderInv
  BY RenderInit DEF RerunInv, InFlightInv
<1>5. TypeOK /\ TypeOK' /\ RerunInv /\ RerunInv' /\ InFlightInv /\ InFlightInv' /\ IndexInv /\ IndexInv'
        /\ RenderInv /\ [Next]_vars => RenderInv'
  BY RenderStep
<1>6. Spec => []RenderInv
  BY <1>2, <1>3, <1>4, <1>5, TypeCorrect, InFlightCorrect, PTL DEF Spec
<1> QED  BY <1>1, <1>6, TypeCorrect, PTL
=============================================================================
