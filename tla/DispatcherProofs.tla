------------------------- MODULE DispatcherProofs -------------------------
(***************************************************************************)
(* What holds of the dispatcher for any sessions, any number of tasks, any *)
(* buffer capacity and any set of client operations: its variables keep    *)
(* their types, the log never has two tasks in flight, and a restart       *)
(* leaves no orphan.                                                       *)
(***************************************************************************)
EXTENDS Dispatcher, SequenceTheorems, TLAPS

-----------------------------------------------------------------------------
(* The fold of TaskProjection: it stays in View, and what one event does   *)
(* to the tasks in flight.                                                 *)

(* Removing a task from a queue leaves a queue.                            *)
LEMMA WithoutType ==
  ASSUME NEW queue \in Seq(Tasks), NEW t
  PROVE  Without(queue, t) \in Seq(Tasks)
<1>1. CASE \E i \in 1 .. Len(queue) : queue[i] = t
  <2>1. PICK i \in 1 .. Len(queue) : i = CHOOSE j \in 1 .. Len(queue) : queue[j] = t
    BY <1>1
  <2>2. Without(queue, t) = RemoveAt(queue, i)
    BY <1>1, <2>1 DEF Without
  <2>3. /\ SubSeq(queue, 1, i - 1) \in Seq(Tasks)
        /\ SubSeq(queue, i + 1, Len(queue)) \in Seq(Tasks)
    <3>1. \A j \in 1 .. Len(queue) : queue[j] \in Tasks
      OBVIOUS
    <3>2. \A j \in 1 .. i - 1 : queue[j] \in Tasks
      BY <3>1
    <3>3. \A j \in i + 1 .. Len(queue) : queue[j] \in Tasks
      BY <3>1
    <3>4. i \in Int /\ i - 1 \in Int /\ i + 1 \in Int /\ Len(queue) \in Int /\ 1 \in Int
      OBVIOUS
    <3>5. SubSeq(queue, 1, i - 1) \in Seq(Tasks)
      BY <3>2, <3>4, SubSeqProperties
    <3>6. SubSeq(queue, i + 1, Len(queue)) \in Seq(Tasks)
      BY <3>3, <3>4, SubSeqProperties
    <3> QED
      BY <3>5, <3>6
  <2> QED
    BY <2>2, <2>3 DEF RemoveAt
<1>2. CASE ~ \E i \in 1 .. Len(queue) : queue[i] = t
  BY <1>2 DEF Without
<1> QED
  BY <1>1, <1>2

(* Every event the projection looks at takes a view to a view.             *)
LEMMA ApplyType ==
  ASSUME NEW v \in View, NEW e \in TaskEvent
  PROVE  Apply(v, e) \in View
<1> USE DEF View
<1>1. /\ e.sess \in Sessions /\ e.task \in Tasks
      /\ e.type \in EventTypes
  BY DEF TaskEvent
<1>2. OnQueued(v, e) \in View
  <2>1. Append(v.queued[e.sess], e.task) \in Seq(Tasks)
    BY <1>1
  <2> QED
    BY <1>1, <2>1 DEF OnQueued
<1>3. OnDispatched(v, e) \in View
  <2>1. Without(v.queued[e.sess], e.task) \in Seq(Tasks)
    BY <1>1, WithoutType
  <2> QED
    BY <1>1, <2>1 DEF OnDispatched
<1>4. OnRetrying(v, e) \in View
  BY <1>1 DEF OnRetrying
<1>5. OnDeferred(v, e) \in View
  <2>1. <<e.task>> \o v.queued[e.sess] \in Seq(Tasks)
    BY <1>1
  <2> QED
    BY <1>1, <2>1 DEF OnDeferred
<1>6. OnTerminal(v, e) \in View
  <2>1. Without(v.queued[e.sess], e.task) \in Seq(Tasks)
    BY <1>1, WithoutType
  <2> QED
    BY <1>1, <2>1 DEF OnTerminal
<1> QED
  BY <1>1, <1>2, <1>3, <1>4, <1>5, <1>6 DEF Apply, EventTypes, TerminalTypes

(* A dispatch puts in flight the task it names, if it was waiting, and     *)
(* leaves every other session alone.                                       *)
LEMMA DispatchedRunning ==
  ASSUME NEW v \in View, NEW e \in TaskEvent, e.type = "dispatched",
         NEW s \in Sessions
  PROVE  \/ Apply(v, e).running[s] = v.running[s]
         \/ s = e.sess /\ Apply(v, e).running[s] = e.task
<1>1. Apply(v, e) = OnDispatched(v, e)
  BY DEF Apply, TerminalTypes
<1> QED
  BY <1>1 DEF OnDispatched, View, TaskEvent

(* No other event puts a task in flight.                                   *)
LEMMA OthersRunning ==
  ASSUME NEW v \in View, NEW e \in TaskEvent, e.type # "dispatched",
         NEW s \in Sessions
  PROVE  Apply(v, e).running[s] \in {v.running[s], NoTask}
<1>1. Apply(v, e) \in {OnQueued(v, e), OnRetrying(v, e),
                          OnDeferred(v, e), OnTerminal(v, e)}
  BY DEF Apply, TaskEvent, EventTypes, TerminalTypes
<1>2. OnQueued(v, e).running = v.running
  BY DEF OnQueued, View
<1>3. OnRetrying(v, e).running = v.running
  BY DEF OnRetrying, View
<1>4. OnDeferred(v, e).running[s] \in {v.running[s], NoTask}
  BY DEF OnDeferred, View, TaskEvent
<1>5. OnTerminal(v, e).running[s] \in {v.running[s], NoTask}
  BY DEF OnTerminal, View, TaskEvent
<1> QED
  BY <1>1, <1>2, <1>3, <1>4, <1>5

(* The event that ends or defers the task in flight leaves none in its     *)
(* session.                                                                *)
LEMMA EndedRunning ==
  ASSUME NEW v \in View, NEW e \in TaskEvent,
         e.type \in TerminalTypes \cup {"deferred"},
         v.running[e.sess] \in {e.task, NoTask}
  PROVE  Apply(v, e).running[e.sess] = NoTask
<1>1. \/ Apply(v, e) = OnDeferred(v, e)
      \/ Apply(v, e) = OnTerminal(v, e)
  BY DEF Apply, TerminalTypes
<1>2. OnDeferred(v, e).running[e.sess] = NoTask
  BY DEF OnDeferred, View, TaskEvent
<1>3. OnTerminal(v, e).running[e.sess] = NoTask
  BY DEF OnTerminal, View, TaskEvent
<1> QED
  BY <1>1, <1>2, <1>3

-----------------------------------------------------------------------------
(* What one event does to the tasks that wait, when no queue has a task    *)
(* twice.                                                                  *)

Distinct(queue) == \A i, j \in 1 .. Len(queue) : queue[i] = queue[j] => i = j

Elements(queue) == {queue[i] : i \in 1 .. Len(queue)}

(* Removing a task closes the gap it leaves.                               *)
LEMMA WithoutAt ==
  ASSUME NEW q \in Seq(Tasks), NEW t, t \in Elements(q)
  PROVE  \E k \in 1 .. Len(q) :
           /\ q[k] = t
           /\ Len(Without(q, t)) = Len(q) - 1
           /\ \A j \in 1 .. Len(q) - 1 : Without(q, t)[j] = IF j < k THEN q[j] ELSE q[j + 1]
<1>1. PICK k \in 1 .. Len(q) : q[k] = t /\ Without(q, t) = RemoveAt(q, k)
  BY DEF Without, Elements
<1>2. /\ SubSeq(q, 1, k - 1) \in Seq(Tasks) /\ Len(SubSeq(q, 1, k - 1)) = k - 1
      /\ \A j \in 1 .. k - 1 : SubSeq(q, 1, k - 1)[j] = q[j]
  OBVIOUS
<1>3. /\ SubSeq(q, k + 1, Len(q)) \in Seq(Tasks) /\ Len(SubSeq(q, k + 1, Len(q))) = Len(q) - k
      /\ \A j \in 1 .. Len(q) - k : SubSeq(q, k + 1, Len(q))[j] = q[k + j]
  OBVIOUS
<1> DEFINE a == SubSeq(q, 1, k - 1)
           b == SubSeq(q, k + 1, Len(q))
<1>4. Without(q, t) = a \o b
  BY <1>1 DEF RemoveAt
<1>5. a \in Seq(Tasks) /\ b \in Seq(Tasks) /\ Len(a) = k - 1 /\ Len(b) = Len(q) - k
  BY <1>2, <1>3
<1>6. /\ \A j \in 1 .. k - 1 : a[j] = q[j]
      /\ \A j \in 1 .. Len(q) - k : b[j] = q[k + j]
  BY <1>2, <1>3
<1> HIDE DEF a, b
<1>7. /\ Len(a \o b) = Len(a) + Len(b)
      /\ \A j \in 1 .. Len(a) + Len(b) :
           (a \o b)[j] = IF j <= Len(a) THEN a[j] ELSE b[j - Len(a)]
  BY <1>5, ConcatProperties
<1>8. Len(q) \in Nat
  OBVIOUS
<1>9. ASSUME NEW j \in 1 .. Len(q) - 1
      PROVE  (a \o b)[j] = IF j < k THEN q[j] ELSE q[j + 1]
  <2>1. (a \o b)[j] = IF j <= k - 1 THEN a[j] ELSE b[j - (k - 1)]
    BY <1>5, <1>7, <1>8
  <2>2. CASE j < k
    BY <1>6, <1>8, <2>1, <2>2
  <2>3. CASE j >= k
    <3>1. j - (k - 1) \in 1 .. Len(q) - k /\ k + (j - (k - 1)) = j + 1
      BY <1>8, <2>3
    <3>2. b[j - (k - 1)] = q[k + (j - (k - 1))]
      BY <1>6, <3>1
    <3>3. k \in Int /\ j \in Int /\ ~(j <= k - 1) /\ ~(j < k)
      BY <1>8, <2>3
    <3> QED  BY <2>1, <3>1, <3>2, <3>3
  <2>4. j \in Int /\ k \in Int
    BY <1>8
  <2>5. j < k \/ j >= k
    BY <2>4
  <2> QED  BY <2>2, <2>3, <2>5
<1> QED  BY <1>1, <1>4, <1>5, <1>7, <1>8, <1>9

LEMMA WithoutDistinct ==
  ASSUME NEW q \in Seq(Tasks), NEW t, Distinct(q)
  PROVE  /\ Distinct(Without(q, t))
         /\ \A u : u \in Elements(Without(q, t)) <=> u \in Elements(q) /\ u # t
<1>1. CASE t \notin Elements(q)
  BY <1>1 DEF Without, Elements
<1>2. CASE t \in Elements(q)
  <2> DEFINE w == Without(q, t)
  <2>1. PICK k \in 1 .. Len(q) :
          /\ q[k] = t
          /\ Len(w) = Len(q) - 1
          /\ \A j \in 1 .. Len(q) - 1 : w[j] = IF j < k THEN q[j] ELSE q[j + 1]
    BY <1>2, WithoutAt
  <2>2. Len(q) \in Nat
    OBVIOUS
  <2> HIDE DEF w
  <2>3. Distinct(w)
    BY <2>1, <2>2 DEF Distinct
  <2>4. ASSUME NEW u, u \in Elements(w)  PROVE u \in Elements(q) /\ u # t
    <3>1. PICK j \in 1 .. Len(q) - 1 : u = w[j]
      BY <2>1, <2>4 DEF Elements
    <3>2. \E i \in 1 .. Len(q) : i # k /\ u = q[i]
      BY <2>1, <2>2, <3>1
    <3> QED  BY <2>1, <3>2 DEF Distinct, Elements
  <2>5. ASSUME NEW u, u \in Elements(q), u # t  PROVE u \in Elements(w)
    <3>1. PICK i \in 1 .. Len(q) : u = q[i]
      BY <2>5 DEF Elements
    <3>2. i # k
      BY <2>1, <2>5, <3>1
    <3>3. \E j \in 1 .. Len(q) - 1 : w[j] = q[i]
      <4>1. CASE i < k
        BY <2>1, <2>2, <4>1
      <4>2. CASE i > k
        <5>1. i - 1 \in 1 .. Len(q) - 1 /\ ~(i - 1 < k) /\ i - 1 + 1 = i
          BY <2>2, <4>2
        <5> QED  BY <2>1, <5>1
      <4> QED  BY <3>2, <4>1, <4>2
    <3> QED  BY <2>1, <3>1, <3>3 DEF Elements
  <2> QED  BY <2>3, <2>4, <2>5 DEF w
<1> QED  BY <1>1, <1>2

LEMMA AppendDistinct ==
  ASSUME NEW q \in Seq(Tasks), NEW t, Distinct(q), t \notin Elements(q)
  PROVE  /\ Distinct(Append(q, t))
         /\ \A u : u \in Elements(Append(q, t)) <=> u \in Elements(q) \/ u = t
<1>1. /\ Len(q) \in Nat /\ Len(Append(q, t)) = Len(q) + 1 /\ Append(q, t)[Len(q) + 1] = t
      /\ \A i \in 1 .. Len(q) : Append(q, t)[i] = q[i]
  OBVIOUS
<1>2. ASSUME NEW u  PROVE u \in Elements(Append(q, t)) <=> u \in Elements(q) \/ u = t
  BY <1>1 DEF Elements
<1>3. Distinct(Append(q, t))
  BY <1>1 DEF Distinct, Elements
<1> QED  BY <1>2, <1>3

LEMMA PrependDistinct ==
  ASSUME NEW q \in Seq(Tasks), NEW t \in Tasks, Distinct(q), t \notin Elements(q)
  PROVE  /\ Distinct(<<t>> \o q)
         /\ \A u : u \in Elements(<<t>> \o q) <=> u \in Elements(q) \/ u = t
<1> DEFINE w == <<t>> \o q
<1>1. /\ Len(q) \in Nat /\ Len(w) = Len(q) + 1 /\ w[1] = t
      /\ \A i \in 1 .. Len(q) : w[i + 1] = q[i]
  OBVIOUS
<1> HIDE DEF w
<1>2. \A i \in 1 .. Len(w) : i = 1 \/ (i - 1 \in 1 .. Len(q) /\ w[i] = q[i - 1])
  <2> SUFFICES ASSUME NEW i \in 1 .. Len(w), i # 1
               PROVE  i - 1 \in 1 .. Len(q) /\ w[i] = q[i - 1]
    OBVIOUS
  <2>1. i - 1 \in 1 .. Len(q) /\ i - 1 + 1 = i
    BY <1>1
  <2> QED  BY <1>1, <2>1
<1>3. ASSUME NEW u  PROVE u \in Elements(w) <=> u \in Elements(q) \/ u = t
  <2>1. ASSUME u \in Elements(q)  PROVE u \in Elements(w)
    <3>1. PICK i \in 1 .. Len(q) : u = q[i]
      BY <2>1 DEF Elements
    <3>2. i + 1 \in 1 .. Len(w) /\ w[i + 1] = u
      BY <1>1, <3>1
    <3> QED  BY <3>2 DEF Elements
  <2>2. t \in Elements(w)
    <3>1. 1 \in 1 .. Len(w)
      BY <1>1
    <3> QED  BY <1>1, <3>1 DEF Elements
  <2> QED  BY <1>1, <1>2, <2>1, <2>2 DEF Elements
<1>4. Distinct(w)
  <2> SUFFICES ASSUME NEW i \in 1 .. Len(w), NEW j \in 1 .. Len(w), w[i] = w[j]  PROVE i = j
    BY DEF Distinct
  <2>1. i = 1 <=> j = 1
    BY <1>1, <1>2 DEF Elements
  <2>2. CASE i # 1
    <3>1. i - 1 = j - 1
      BY <1>2, <2>1, <2>2 DEF Distinct
    <3> QED  BY <1>1, <3>1
  <2> QED  BY <2>1, <2>2
<1> QED  BY <1>3, <1>4 DEF w

AllDistinct(v) == \A s \in Sessions : Distinct(v.queued[s])

(* The events that put a task in a queue, and what e does to v.            *)
Adds(e) == e.type \in {"queued", "deferred"}
Enters(v, e) == e.type = "queued" \/ (e.type = "deferred" /\ v.running[e.sess] = e.task)
Leaves(v, e) ==
  e.type = "dispatched" \/ (e.type \in TerminalTypes /\ v.running[e.sess] # e.task)
Ends(v, e) ==
  e.type \in TerminalTypes \cup {"deferred"} /\ v.running[e.sess] = e.task

(* One event moves one task: what waits and what is in flight after it.    *)
LEMMA EventMoves ==
  ASSUME NEW v \in View, NEW e \in TaskEvent, AllDistinct(v),
         Adds(e) => e.task \notin Waiting(v, e.sess)
  PROVE  /\ AllDistinct(Apply(v, e))
         /\ \A s \in Sessions, t \in Tasks :
              t \in Waiting(Apply(v, e), s) <=>
                \/ t \in Waiting(v, s) /\ ~(Leaves(v, e) /\ s = e.sess /\ t = e.task)
                \/ Enters(v, e) /\ s = e.sess /\ t = e.task
         /\ \A s \in Sessions :
              Apply(v, e).running[s] =
                IF s = e.sess /\ e.type = "dispatched" /\ e.task \in Waiting(v, s) THEN e.task
                ELSE IF s = e.sess /\ Ends(v, e) THEN NoTask
                ELSE v.running[s]
<1> DEFINE w == Apply(v, e)
<1>0. /\ e.sess \in Sessions /\ e.task \in Tasks /\ e.type \in EventTypes
      /\ v.queued \in [Sessions -> Seq(Tasks)]
      /\ v.running \in [Sessions -> Tasks \cup {NoTask}]
      /\ v.queued[e.sess] \in Seq(Tasks)
  BY DEF TaskEvent, View
<1>1. w \in View
  BY ApplyType
<1>2. \A u, s : Waiting(u, s) = Elements(u.queued[s])
  BY DEF Waiting, Elements
<1>3. \A s \in Sessions :
        w.running[s] =
          IF s = e.sess /\ e.type = "dispatched" /\ e.task \in Waiting(v, s) THEN e.task
          ELSE IF s = e.sess /\ Ends(v, e) THEN NoTask
          ELSE v.running[s]
  BY <1>0 DEF Apply, OnQueued, OnDispatched, OnRetrying, OnDeferred, OnTerminal, View, EventTypes,
              TerminalTypes, Ends
<1>4. \A s \in Sessions \ {e.sess} : w.queued[s] = v.queued[s]
  BY <1>0 DEF Apply, OnQueued, OnDispatched, OnRetrying, OnDeferred, OnTerminal, View, EventTypes,
              TerminalTypes
<1>5. w.queued[e.sess] =
        IF e.type = "queued" THEN Append(v.queued[e.sess], e.task)
        ELSE IF e.type = "deferred" /\ Enters(v, e) THEN <<e.task>> \o v.queued[e.sess]
        ELSE IF Leaves(v, e) THEN Without(v.queued[e.sess], e.task)
        ELSE v.queued[e.sess]
  <2>1. e.type = "dispatched" /\ e.task \notin Waiting(v, e.sess)
          => Without(v.queued[e.sess], e.task) = v.queued[e.sess]
    BY DEF Without, Waiting
  <2> QED
    BY <1>0, <2>1 DEF Apply, OnQueued, OnDispatched, OnRetrying, OnDeferred, OnTerminal, View,
                      EventTypes, TerminalTypes, Enters, Leaves
<1> HIDE DEF w
<1>6. Distinct(v.queued[e.sess])
  BY <1>0 DEF AllDistinct
<1>7. /\ Distinct(w.queued[e.sess])
      /\ \A t \in Tasks :
           t \in Elements(w.queued[e.sess]) <=>
             \/ t \in Elements(v.queued[e.sess]) /\ ~(Leaves(v, e) /\ t = e.task)
             \/ Enters(v, e) /\ t = e.task
  <2>1. CASE e.type = "queued"
    <3>1. Enters(v, e) /\ ~Leaves(v, e)
      BY <2>1 DEF Enters, Leaves, TerminalTypes
    <3>2. e.task \notin Elements(v.queued[e.sess])
      BY <1>2, <2>1 DEF Adds
    <3> QED  BY <1>0, <1>5, <1>6, <2>1, <3>1, <3>2, AppendDistinct
  <2>2. CASE e.type = "deferred" /\ Enters(v, e)
    <3>1. ~Leaves(v, e)
      BY <2>2 DEF Leaves, TerminalTypes
    <3>2. e.task \notin Elements(v.queued[e.sess])
      BY <1>2, <2>2 DEF Adds
    <3> QED  BY <1>0, <1>5, <1>6, <2>2, <3>1, <3>2, PrependDistinct
  <2>3. CASE Leaves(v, e)
    <3>1. ~Enters(v, e)
      BY <2>3 DEF Enters, Leaves, TerminalTypes
    <3>2. w.queued[e.sess] = Without(v.queued[e.sess], e.task)
      BY <1>5, <2>3, <3>1 DEF Enters
    <3> QED  BY <1>0, <1>6, <2>3, <3>1, <3>2, WithoutDistinct
  <2>4. CASE ~Enters(v, e) /\ ~Leaves(v, e)
    <3>1. w.queued[e.sess] = v.queued[e.sess]
      BY <1>5, <2>4 DEF Enters
    <3> QED  BY <1>6, <2>4, <3>1
  <2> QED  BY <2>1, <2>2, <2>3, <2>4 DEF Enters
<1>8. AllDistinct(w)
  BY <1>4, <1>7 DEF AllDistinct
<1>9. \A s \in Sessions, t \in Tasks :
        t \in Waiting(w, s) <=>
          \/ t \in Waiting(v, s) /\ ~(Leaves(v, e) /\ s = e.sess /\ t = e.task)
          \/ Enters(v, e) /\ s = e.sess /\ t = e.task
  BY <1>2, <1>4, <1>7
<1> QED  BY <1>3, <1>8, <1>9 DEF w

-----------------------------------------------------------------------------
(* The building blocks: publishing, emitting, claiming.                    *)

BusEvents == TaskEvent \cup {CloseMark, OutputMark}

LEMMA PublishType ==
  ASSUME busq \in Seq(BusEvents), subscribed \in BOOLEAN,
         NEW e \in BusEvents, Publish(e)
  PROVE  busq' \in Seq(BusEvents) /\ subscribed' \in BOOLEAN
<1>1. CloseMark \in BusEvents
  BY DEF BusEvents
<1>2. \A x \in BusEvents : Append(busq, x) \in Seq(BusEvents)
  BY AppendProperties
<1>3. \/ busq' = busq /\ subscribed' = subscribed
      \/ busq' = Append(busq, e) /\ subscribed' = subscribed
      \/ busq' = Append(busq, CloseMark) /\ subscribed' = FALSE
  BY DEF Publish, busVars
<1> QED
  BY <1>1, <1>2, <1>3

LEMMA EmitType ==
  ASSUME TypeOK, NEW e \in TaskEvent, Emit(e)
  PROVE  /\ logged' \in View
         /\ status' \in [Tasks -> Statuses]
         /\ busq' \in Seq(BusEvents)
         /\ subscribed' \in BOOLEAN
<1>1. logged' \in View
  BY ApplyType DEF TypeOK, Emit
<1>2. e.task \in Tasks /\ e.type \in EventTypes
  BY DEF TaskEvent
<1>3. status' \in [Tasks -> Statuses]
  BY <1>2 DEF TypeOK, Emit, StatusAfter, Statuses, EventTypes, TerminalTypes
<1>4. busq' \in Seq(BusEvents) /\ subscribed' \in BOOLEAN
  <2>1. busq \in Seq(BusEvents) /\ subscribed \in BOOLEAN
    BY DEF TypeOK, BusEvents
  <2>2. e \in BusEvents /\ Publish(e)
    BY DEF BusEvents, Emit
  <2> QED
    BY <2>1, <2>2, PublishType
<1> QED
  BY <1>1, <1>3, <1>4

(* A taken slot names a session and a task.                                *)
LEMMA TakenSlot ==
  ASSUME slot \in Slots, slot.phase # "free"
  PROVE  /\ slot.sess \in Sessions
         /\ slot.task \in Tasks
         /\ slot.by \in {"loop", "tick", "run"}
         /\ slot.attempt \in 0 .. MaxAttempts
         /\ slot.phase \in {"claiming", "abandoned", "running", "backoff", "inspecting"}
         /\ slot = [phase |-> slot.phase, sess |-> slot.sess, task |-> slot.task,
                    by |-> slot.by, attempt |-> slot.attempt]
BY DEF Slots, FreeSlot

LEMMA ClaimType ==
  ASSUME TypeOK, NEW v \in View, NEW caller \in {"loop", "tick", "run"},
         Claim(caller, v)
  PROVE  /\ slot' \in Slots
         /\ drain' \in [Sessions -> Nat]
         /\ announced' \subseteq Tasks
<1>1. CASE mode # "up" \/ Candidates(v) = {}
  BY <1>1 DEF Claim, TypeOK, Slots, Winner
<1>2. CASE ~(mode # "up" \/ Candidates(v) = {})
  <2>1. PICK s \in Sessions :
          /\ Winner(v, s)
          /\ slot' = [phase |-> "claiming", sess |-> s, task |-> Head(v.queued[s]),
                      by |-> caller, attempt |-> 0]
          /\ drain' = [drain EXCEPT ![s] = IF @ > 0 THEN @ - 1 ELSE 0]
          /\ announced' = announced \ {Head(v.queued[s])}
    BY <1>2 DEF Claim
  <2>2. Head(v.queued[s]) \in Tasks
    <3>1. v.queued[s] # <<>> /\ v.queued[s] \in Seq(Tasks)
      BY <2>1 DEF Winner, Candidates, View
    <3> QED
      BY <3>1
  <2>3. slot' \in Slots
    <3>1. 0 \in 0 .. MaxAttempts
      BY DispatcherAssumption
    <3> QED
      BY <2>1, <2>2, <3>1 DEF Slots
  <2>4. drain' \in [Sessions -> Nat]
    BY <2>1 DEF TypeOK
  <2>5. announced' \subseteq Tasks
    BY <2>1 DEF TypeOK
  <2> QED
    BY <2>3, <2>4, <2>5
<1> QED
  BY <1>1, <1>2

(* The loop's call of _maybe_dispatch_next.                                *)
LEMMA LoopClaimType ==
  ASSUME TypeOK, NEW v \in View, MaybeDispatchInLoop(v)
  PROVE  /\ slot' \in Slots
         /\ drain' \in [Sessions -> Nat]
         /\ announced' \subseteq Tasks
         /\ loop' \in {"starting", "idle", "claiming", "closed"}
<1>1. CASE slot.phase = "free"
  <2>1. Claim("loop", v) /\ LoopAfterClaim
    BY <1>1 DEF MaybeDispatchInLoop
  <2>2. loop' \in {"claiming", "idle"}
    BY <2>1 DEF LoopAfterClaim
  <2> QED
    BY <2>1, <2>2, ClaimType
<1>2. CASE slot.phase # "free"
  BY <1>2 DEF MaybeDispatchInLoop, claimVars, TypeOK
<1> QED
  BY <1>1, <1>2

(* Running(phase) with a phase other than "free": the event the run emits. *)
LEMMA RunEvent ==
  ASSUME slot \in Slots, slot.phase # "free", NEW type \in EventTypes
  PROVE  Event(type, slot.sess, slot.task) \in TaskEvent
BY TakenSlot DEF Event, TaskEvent

LEMMA FinishType ==
  ASSUME TypeOK, slot.phase # "free", NEW type \in EventTypes, Finish(type)
  PROVE  /\ logged' \in View
         /\ status' \in [Tasks -> Statuses]
         /\ busq' \in Seq(BusEvents)
         /\ subscribed' \in BOOLEAN
         /\ slot' \in Slots
         /\ drain' \in [Sessions -> Nat]
         /\ announced' \subseteq Tasks
<1>1. Event(type, slot.sess, slot.task) \in TaskEvent
  BY RunEvent DEF TypeOK
<1>2. Emit(Event(type, slot.sess, slot.task)) /\ Claim("run", view)
  BY DEF Finish
<1>3. view \in View
  BY DEF TypeOK
<1> QED
  BY <1>1, <1>2, <1>3, EmitType, ClaimType
-----------------------------------------------------------------------------
(* Every variable keeps a value of its kind.                               *)

LEMMA TypeInit == Init => TypeOK
<1> SUFFICES ASSUME Init PROVE TypeOK
  OBVIOUS
<1>1. EmptyView \in View
  BY DEF EmptyView, View, NoTask
<1>2. override \in [Sessions -> Policies \cup {Inherit}]
  BY DispatcherAssumption DEF Init
<1>3. priority \in [Sessions -> 1 .. MaxPriority]
  BY DispatcherAssumption DEF Init
<1>4. crashes \in 0 .. MaxCrashes
  BY DispatcherAssumption DEF Init
<1>5. slot \in Slots
  BY DEF Init, Slots
<1>6. drain \in [Sessions -> Nat]
  BY DEF Init
<1>7. status \in [Tasks -> Statuses] /\ owner \in [Tasks -> Sessions \cup {"none"}]
  BY DEF Init, Statuses
<1>8. default \in Policies
  BY DEF Init, Policies
<1>9. busq \in Seq(TaskEvent \cup {CloseMark, OutputMark})
  BY DEF Init
<1> QED
  BY <1>1, <1>2, <1>3, <1>4, <1>5, <1>6, <1>7, <1>8, <1>9 DEF Init, TypeOK

(* The steps of the dispatch loop and of the tick.                         *)
LEMMA TypeLoop ==
  ASSUME TypeOK, LoopStep \/ Tick
  PROVE  TypeOK'
<1>1. CASE LoopStart
  <2>1. view \in View /\ MaybeDispatchInLoop(view)
    BY <1>1 DEF TypeOK, LoopStart
  <2>2. /\ slot' \in Slots /\ drain' \in [Sessions -> Nat] /\ announced' \subseteq Tasks
        /\ loop' \in {"starting", "idle", "claiming", "closed"}
    BY <2>1, LoopClaimType
  <2> QED
    BY <1>1, <2>2 DEF LoopStart, TypeOK, logVars, busVars, envVars
<1>2. CASE LoopApply
  <2> DEFINE e == Head(busq)
             v == Apply(view, e)
  <2>1. e \in TaskEvent \cup {OutputMark}
    BY <1>2 DEF LoopApply, TypeOK
  <2>2. v \in View
    <3>1. CASE e \in TaskEvent
      BY <3>1, ApplyType DEF TypeOK
    <3>2. CASE e = OutputMark
      BY <3>2 DEF TypeOK, Apply, OutputMark, TerminalTypes
    <3> QED
      BY <2>1, <3>1, <3>2
  <2>3. view' = v /\ busq' = Tail(busq) /\ busq # <<>>
    BY <1>2 DEF LoopApply
  <2>4. busq' \in Seq(TaskEvent \cup {CloseMark, OutputMark})
    BY <2>3 DEF TypeOK
  <2>5. /\ slot' \in Slots /\ drain' \in [Sessions -> Nat] /\ announced' \subseteq Tasks
        /\ loop' \in {"starting", "idle", "claiming", "closed"}
    <3>1. CASE MaybeDispatchInLoop(v)
      BY <3>1, <2>2, LoopClaimType
    <3>2. CASE /\ e.type = "queued"
               /\ announced' = announced \cup {e.task}
               /\ UNCHANGED <<loop, slot, drain>>
      <4>1. e \in TaskEvent
        BY <2>1, <3>2 DEF OutputMark
      <4> QED
        BY <3>2, <4>1 DEF TypeOK, TaskEvent
    <3>3. CASE UNCHANGED <<loop, claimVars>>
      BY <3>3 DEF TypeOK, claimVars
    <3> QED
      BY <1>2, <3>1, <3>2, <3>3 DEF LoopApply
  <2>6. UNCHANGED <<logVars, mode, index, subscribed, adhoc, destroying, envVars, promised>>
    BY <1>2 DEF LoopApply
  <2> HIDE DEF e, v
  <2> QED
    BY <2>2, <2>3, <2>4, <2>5, <2>6 DEF TypeOK, logVars, envVars
<1>3. CASE LoopClosed
  <2>1. busq' \in Seq(TaskEvent \cup {CloseMark, OutputMark})
    BY <1>3 DEF LoopClosed, TypeOK
  <2> QED
    BY <1>3, <2>1 DEF LoopClosed, TypeOK, logVars, claimVars, envVars
<1>4. CASE Tick
  <2>1. view \in View /\ Claim("tick", view)
    BY <1>4 DEF TypeOK, Tick
  <2>2. slot' \in Slots /\ drain' \in [Sessions -> Nat] /\ announced' \subseteq Tasks
    BY <2>1, ClaimType
  <2> QED
    BY <1>4, <2>2 DEF Tick, TypeOK, logVars, busVars, envVars
<1> QED
  BY <1>1, <1>2, <1>3, <1>4 DEF LoopStep

(* The steps of the task in flight.                                        *)
LEMMA TypeRun ==
  ASSUME TypeOK, Dispatch \/ RunStep \/ AgentOutput
  PROVE  TypeOK'
<1>0. \A type \in EventTypes : slot.phase # "free" =>
        Event(type, slot.sess, slot.task) \in TaskEvent
  BY RunEvent DEF TypeOK
<1>1. CASE Dispatch
  <2>1. slot.phase = "claiming" /\ Emit(Event("dispatched", slot.sess, slot.task))
    BY <1>1 DEF Dispatch
  <2>2. /\ logged' \in View /\ status' \in [Tasks -> Statuses]
        /\ busq' \in Seq(BusEvents) /\ subscribed' \in BOOLEAN
    BY <1>0, <2>1, EmitType DEF EventTypes
  <2>3. slot' \in Slots
    <3>1. slot' = [slot EXCEPT !.phase = "running"]
      BY <1>1 DEF Dispatch
    <3> QED
      BY <2>1, <3>1, TakenSlot DEF TypeOK, Slots
  <2>4. loop' \in {"starting", "idle", "claiming", "closed"}
    BY <1>1 DEF Dispatch, TypeOK
  <2> QED
    BY <1>1, <2>2, <2>3, <2>4 DEF Dispatch, TypeOK, BusEvents, envVars
<1>2. ASSUME NEW type \in EventTypes, slot.phase # "free", Finish(type), UNCHANGED unchangedByRun
      PROVE  TypeOK'
  <2>1. /\ logged' \in View /\ status' \in [Tasks -> Statuses]
        /\ busq' \in Seq(BusEvents) /\ subscribed' \in BOOLEAN
        /\ slot' \in Slots /\ drain' \in [Sessions -> Nat] /\ announced' \subseteq Tasks
    BY <1>2, FinishType
  <2> QED
    BY <1>2, <2>1 DEF TypeOK, unchangedByRun, BusEvents, envVars
<1>3. ASSUME NEW type \in EventTypes, NEW phase \in {"running", "backoff", "inspecting"},
             NEW attempt \in 0 .. MaxAttempts, slot.phase # "free",
             Emit(Event(type, slot.sess, slot.task)),
             slot' = [slot EXCEPT !.phase = phase, !.attempt = attempt],
             UNCHANGED <<unchangedByRun, drain, announced>>
      PROVE  TypeOK'
  <2>1. /\ logged' \in View /\ status' \in [Tasks -> Statuses]
        /\ busq' \in Seq(BusEvents) /\ subscribed' \in BOOLEAN
    BY <1>0, <1>3, EmitType
  <2>2. slot' \in Slots
    BY <1>3, TakenSlot DEF TypeOK, Slots
  <2> QED
    BY <1>3, <2>1, <2>2 DEF TypeOK, unchangedByRun, BusEvents, envVars
<1>4. CASE RunCompletes
  <2>1. slot.phase # "free" /\ slot.attempt \in 0 .. MaxAttempts
    BY <1>4, TakenSlot DEF RunCompletes, Running, Up, TypeOK
  <2>2. slot' = [slot EXCEPT !.phase = "inspecting", !.attempt = slot.attempt]
    BY <1>4, <2>1, TakenSlot DEF RunCompletes, TypeOK
  <2> QED
    BY <1>4, <2>1, <2>2, <1>3 DEF RunCompletes, EventTypes, TerminalTypes
<1>5. CASE RunInspected
  <2>1. view \in View /\ Claim("run", view)
    BY <1>5 DEF TypeOK, RunInspected
  <2>2. slot' \in Slots /\ drain' \in [Sessions -> Nat] /\ announced' \subseteq Tasks
    BY <2>1, ClaimType
  <2> QED
    BY <1>5, <2>2 DEF RunInspected, TypeOK, unchangedByRun, busVars, envVars
<1>6. CASE RunFails
  BY <1>6, <1>2 DEF RunFails, Running, Up, EventTypes, TerminalTypes
<1>7. CASE RunRateLimited
  <2>1. slot.phase = "running" /\ UNCHANGED unchangedByRun
    BY <1>7 DEF RunRateLimited, Running, Up
  <2>2. CASE Finish("deferred") \/ Finish("failed")
    BY <2>1, <2>2, <1>2 DEF EventTypes, TerminalTypes
  <2>3. CASE /\ slot.attempt < MaxAttempts
             /\ Emit(Event("retrying", slot.sess, slot.task))
             /\ slot' = [slot EXCEPT !.phase = "backoff", !.attempt = @ + 1]
             /\ UNCHANGED <<drain, announced>>
    <3>1. slot.attempt + 1 \in 0 .. MaxAttempts
      BY <2>1, <2>3, TakenSlot, DispatcherAssumption DEF TypeOK
    <3> QED
      BY <2>1, <2>3, <3>1, <1>3 DEF EventTypes
  <2> QED
    BY <1>7, <2>2, <2>3 DEF RunRateLimited
<1>8. CASE BackoffEnds
  <2>1. slot.phase = "backoff" /\ UNCHANGED unchangedByRun
    BY <1>8 DEF BackoffEnds, Running, Up
  <2>2. CASE Finish("deferred")
    BY <2>1, <2>2, <1>2 DEF EventTypes
  <2>3. CASE /\ slot' = [slot EXCEPT !.phase = "running"]
             /\ UNCHANGED <<drain, announced, logged, status, busVars>>
    <3>1. slot' \in Slots
      BY <2>1, <2>3, TakenSlot DEF TypeOK, Slots
    <3> QED
      BY <2>1, <2>3, <3>1 DEF TypeOK, unchangedByRun, busVars, envVars
  <2> QED
    BY <1>8, <2>2, <2>3 DEF BackoffEnds
<1>9. CASE AgentOutput
  <2>1. OutputMark \in BusEvents /\ Publish(OutputMark)
    BY <1>9 DEF AgentOutput, BusEvents
  <2>2. busq' \in Seq(BusEvents) /\ subscribed' \in BOOLEAN
    BY <2>1, PublishType DEF TypeOK, BusEvents
  <2> QED
    BY <1>9, <2>2 DEF AgentOutput, TypeOK, unchangedByRun, claimVars, BusEvents, envVars
<1> QED
  BY <1>1, <1>4, <1>5, <1>6, <1>7, <1>8, <1>9 DEF RunStep

(* The clients' requests.                                                  *)
LEMMA TypeClient ==
  ASSUME TypeOK, ClientStep
  PROVE  TypeOK'
<1>0. \A type \in EventTypes, s \in Sessions, t \in Tasks : Event(type, s, t) \in TaskEvent
  BY DEF Event, TaskEvent
<1>1. ASSUME NEW s \in Sessions, Enqueue(s)
      PROVE  TypeOK'
  <2>1. PICK t \in Tasks : /\ owner' = [owner EXCEPT ![t] = s]
                           /\ Emit(Event("queued", s, t))
    BY <1>1 DEF Enqueue
  <2>2. /\ logged' \in View /\ status' \in [Tasks -> Statuses]
        /\ busq' \in Seq(BusEvents) /\ subscribed' \in BOOLEAN
    BY <1>0, <2>1, EmitType DEF EventTypes
  <2>3. owner' \in [Tasks -> Sessions \cup {"none"}]
    BY <2>1 DEF TypeOK
  <2> QED
    BY <1>1, <2>2, <2>3 DEF Enqueue, TypeOK, unchangedByClient, claimVars, BusEvents, envVars
<1>2. ASSUME NEW s \in Sessions, NEW t \in Tasks, Cancel(s, t)
      PROVE  TypeOK'
  <2>1. Emit(Event("cancelled", s, t))
    BY <1>2 DEF Cancel
  <2>2. /\ logged' \in View /\ status' \in [Tasks -> Statuses]
        /\ busq' \in Seq(BusEvents) /\ subscribed' \in BOOLEAN
    BY <1>0, <2>1, EmitType DEF EventTypes, TerminalTypes
  <2> QED
    BY <1>2, <2>2 DEF Cancel, TypeOK, unchangedByClient, claimVars, BusEvents, envVars
<1>3. ASSUME NEW s \in Sessions, Trigger(s)
      PROVE  TypeOK'
  <2>1. view.queued[s] \in Seq(Tasks)
    BY DEF TypeOK, View
  <2>2. Waiting(view, s) \subseteq Tasks
    BY <2>1 DEF Waiting
  <2>3. drain' \in [Sessions -> Nat]
    BY <1>3, <2>1 DEF Trigger, TypeOK
  <2>4. promised' \subseteq Tasks
    BY <1>3, <2>2 DEF Trigger, TypeOK
  <2> QED
    BY <1>3, <2>3, <2>4 DEF Trigger, TypeOK, unchangedByClient, logVars, busVars, envVars
<1>4. ASSUME NEW s \in Sessions, NEW p \in Policies \cup {Inherit}, SetPolicy(s, p)
      PROVE  TypeOK'
  BY <1>4 DEF SetPolicy, TypeOK, unchangedByClient, busVars, envVars
<1>5. ASSUME NEW s \in Sessions, NEW p \in 1 .. MaxPriority, SetPriority(s, p)
      PROVE  TypeOK'
  BY <1>5 DEF SetPriority, TypeOK, unchangedByClient, busVars, claimVars, envVars
<1>6. ASSUME NEW s \in Sessions, SendMessage(s) \/ MessageEnds(s)
      PROVE  TypeOK'
  BY <1>6 DEF SendMessage, MessageEnds, TypeOK, unchangedByClient, logVars, busVars,
              claimVars, envVars
<1>7. ASSUME NEW s \in Sessions, FetchSession(s)
      PROVE  TypeOK'
  BY <1>7 DEF FetchSession, TypeOK, logVars, busVars, claimVars, envVars
<1>8. ASSUME NEW s \in Sessions, DeleteBegins(s)
      PROVE  TypeOK'
  <2>1. view.queued[s] \in Seq(Tasks)
    BY DEF TypeOK, View
  <2> QED
    BY <1>8, <2>1 DEF DeleteBegins, TypeOK, logVars, busVars, claimVars, envVars
<1>9. ASSUME NEW p \in Policies, SetDefaultPolicy(p)
      PROVE  TypeOK'
  BY <1>9 DEF SetDefaultPolicy, TypeOK, unchangedByClient, busVars, claimVars, envVars
<1> QED
  BY <1>1, <1>2, <1>3, <1>4, <1>5, <1>6, <1>7, <1>8, <1>9 DEF ClientStep, ClearPolicy

(* The delete handler, shutdown, crash, restart and time.                  *)
LEMMA TypeProcess ==
  ASSUME TypeOK, DeleteCancels \/ DeleteEnds \/ Stop \/ Crash \/ Restart \/ Toggle
  PROVE  TypeOK'
<1>1. CASE DeleteCancels
  <2>1. /\ destroying \in [sess : Sessions, todo : Seq(Tasks)]
        /\ destroying.todo # <<>>
    BY <1>1 DEF DeleteCancels, TypeOK, NotDestroying
  <2>2. Head(destroying.todo) \in Tasks /\ Tail(destroying.todo) \in Seq(Tasks)
    BY <2>1
  <2>3. Event("cancelled", destroying.sess, Head(destroying.todo)) \in TaskEvent
    BY <2>1, <2>2 DEF Event, TaskEvent, EventTypes, TerminalTypes
  <2>4. /\ logged' \in View /\ status' \in [Tasks -> Statuses]
        /\ busq' \in Seq(BusEvents) /\ subscribed' \in BOOLEAN
    BY <1>1, <2>3, EmitType DEF DeleteCancels
  <2>5. destroying' \in [sess : Sessions, todo : Seq(Tasks)]
    BY <1>1, <2>1, <2>2 DEF DeleteCancels
  <2> QED
    BY <1>1, <2>4, <2>5 DEF DeleteCancels, TypeOK, claimVars, BusEvents, envVars
<1>2. CASE DeleteEnds
  <2>1. destroying.sess \in Sessions
    BY <1>2 DEF DeleteEnds, TypeOK
  <2> QED
    BY <1>2, <2>1 DEF DeleteEnds, TypeOK, busVars, claimVars, envVars
<1>3. CASE Stop
  <2>1. slot' \in Slots
    BY <1>3, TakenSlot DEF Stop, TypeOK, Slots
  <2>2. busq' \in Seq(TaskEvent \cup {CloseMark, OutputMark})
    BY <1>3 DEF Stop
  <2> QED
    BY <1>3, <2>1, <2>2 DEF Stop, TypeOK, logVars, envVars
<1>4. CASE Crash
  <2>1. EmptyView \in View
    BY DEF EmptyView, View, NoTask
  <2>2. crashes' \in 0 .. MaxCrashes
    BY <1>4, DispatcherAssumption DEF Crash, TypeOK
  <2>3. /\ busq' \in Seq(TaskEvent \cup {CloseMark, OutputMark})
        /\ drain' \in [Sessions -> Nat]
        /\ slot' \in Slots
    BY <1>4 DEF Crash, Slots
  <2> QED
    BY <1>4, <2>1, <2>2, <2>3 DEF Crash, TypeOK, logVars
<1>5. CASE Restart
  <2> DEFINE orphaned == {s \in Pending(logged) : logged.running[s] # NoTask}
  <2>1. Pending(logged) \subseteq Sessions
    BY DEF Pending
  <2>2. Recovered(logged, orphaned) \in View
    BY DEF Recovered, TypeOK, View
  <2>3. /\ logged' = Recovered(logged, orphaned) /\ view' = Recovered(logged, orphaned)
        /\ index' = Pending(logged)
    BY <1>5 DEF Restart
  <2>4. status' \in [Tasks -> Statuses]
    <3>1. \A t \in Tasks : status'[t] \in {"failed", status[t]}
      BY <1>5 DEF Restart
    <3>2. status' = [t \in Tasks |-> status'[t]]
      BY <1>5 DEF Restart
    <3> QED
      BY <3>1, <3>2 DEF TypeOK, Statuses, TerminalTypes
  <2>5. busq' \in Seq(TaskEvent \cup {CloseMark, OutputMark})
    BY <1>5 DEF Restart
  <2> HIDE DEF orphaned
  <2> QED
    BY <1>5, <2>1, <2>2, <2>3, <2>4, <2>5 DEF Restart, TypeOK, claimVars, envVars
<1>6. CASE Toggle
  BY <1>6 DEF Toggle, TypeOK, logVars, busVars, claimVars
<1> QED
  BY <1>1, <1>2, <1>3, <1>4, <1>5, <1>6

LEMMA TypeInductive == TypeOK /\ [Next]_vars => TypeOK'
<1> SUFFICES ASSUME TypeOK, [Next]_vars PROVE TypeOK'
  OBVIOUS
<1>1. CASE UNCHANGED vars
  BY <1>1 DEF TypeOK, vars, logVars, busVars, claimVars, envVars
<1> QED
  BY <1>1, TypeLoop, TypeRun, TypeClient, TypeProcess DEF Next

(* TypeOK holds in every reachable state, whatever the constants.          *)
THEOREM TypeCorrect == Spec => []TypeOK
BY TypeInit, TypeInductive, PTL DEF Spec
-----------------------------------------------------------------------------
(* One task in flight.  LogHasOneInFlight alone is not inductive: that a   *)
(* dispatch finds nothing in flight rests on the slot, which says what is  *)
(* in flight while the process is up (NoOrphanWhileUp), and on a claim     *)
(* being made only when nothing is (NoRunBeforeDispatch), which a claim    *)
(* that outlives stop() carries on its own.                                *)
InFlightInv == LogHasOneInFlight /\ NoOrphanWhileUp /\ NoRunBeforeDispatch

NothingInFlight == \A s \in Sessions : logged.running[s] = NoTask

(* With nothing in flight the invariant holds.                             *)
LEMMA NothingSuffices == NothingInFlight => InFlightInv
BY DEF NothingInFlight, InFlightInv, LogHasOneInFlight, NoOrphanWhileUp, NoRunBeforeDispatch

(* The invariant survives a step that only takes tasks out of flight and   *)
(* keeps the slot.                                                         *)
LEMMA ShrinkSuffices ==
  ASSUME InFlightInv,
         \A s \in Sessions : logged'.running[s] \in {logged.running[s], NoTask},
         slot' = slot, mode' = mode
  PROVE  InFlightInv'
BY DEF InFlightInv, LogHasOneInFlight, NoOrphanWhileUp, NoRunBeforeDispatch

(* When no run is alive in a process that is up, nothing is in flight.     *)
LEMMA IdleSlot ==
  ASSUME InFlightInv, mode = "up", slot.phase \notin {"running", "backoff"}
  PROVE  NothingInFlight
BY DEF InFlightInv, NoOrphanWhileUp, NothingInFlight

LEMMA EmitShrinks ==
  ASSUME TypeOK, NEW e \in TaskEvent, e.type # "dispatched", Emit(e)
  PROVE  \A s \in Sessions : logged'.running[s] \in {logged.running[s], NoTask}
BY OthersRunning DEF TypeOK, Emit

(* A run that ends leaves nothing in flight.                               *)
LEMMA FinishClears ==
  ASSUME TypeOK, InFlightInv, mode = "up", slot.phase # "free",
         NEW type \in TerminalTypes \cup {"deferred"}, Emit(Event(type, slot.sess, slot.task))
  PROVE  NothingInFlight'
<1> DEFINE e == Event(type, slot.sess, slot.task)
<1>1. e \in TaskEvent /\ e.type = type /\ e.sess = slot.sess /\ e.task = slot.task
  BY RunEvent DEF TypeOK, Event, EventTypes
<1>2. type # "dispatched"
  BY DEF TerminalTypes
<1>3. \A s \in Sessions : logged'.running[s] \in {logged.running[s], NoTask}
  BY <1>1, <1>2, EmitShrinks
<1>4. \A s \in Sessions : logged.running[s] # NoTask => s = e.sess /\ e.task = logged.running[s]
  BY <1>1 DEF InFlightInv, NoOrphanWhileUp
<1>5. e.sess \in Sessions
  BY <1>1 DEF TaskEvent
<1>6. logged.running[e.sess] \in {e.task, NoTask}
  BY <1>4, <1>5
<1>7. Apply(logged, e).running[e.sess] = NoTask
  BY <1>1, <1>6, EndedRunning DEF TypeOK
<1>8. logged'.running[e.sess] = NoTask
  BY <1>7 DEF Emit
<1> HIDE DEF e
<1> QED
  BY <1>3, <1>4, <1>8 DEF NothingInFlight

LEMMA InFlightInit == Init => InFlightInv
<1> SUFFICES ASSUME Init PROVE NothingInFlight
  BY NothingSuffices
<1> QED
  BY DEF Init, EmptyView, NothingInFlight

LEMMA InFlightLoop ==
  ASSUME TypeOK, InFlightInv, LoopStep \/ Tick
  PROVE  InFlightInv'
<1>1. mode = "up" /\ mode' = mode /\ logged' = logged
  BY DEF LoopStep, LoopStart, LoopApply, LoopClosed, Tick, Up, logVars
<1>2. slot.phase = "free" \/ slot' = slot
  BY DEF LoopStep, LoopStart, LoopApply, LoopClosed, Tick, MaybeDispatchInLoop, claimVars
<1>3. CASE slot.phase = "free"
  <2>1. NothingInFlight
    BY <1>1, <1>3, IdleSlot
  <2>2. NothingInFlight'
    BY <1>1, <2>1 DEF NothingInFlight
  <2>3. NothingInFlight' => InFlightInv'
    BY NothingSuffices, PTL
  <2> QED
    BY <2>2, <2>3
<1>4. CASE slot' = slot
  BY <1>1, <1>4, ShrinkSuffices
<1> QED
  BY <1>2, <1>3, <1>4

LEMMA InFlightRun ==
  ASSUME TypeOK, InFlightInv, Dispatch \/ RunStep \/ AgentOutput
  PROVE  InFlightInv'
<1>0. NothingInFlight' => InFlightInv'
  BY NothingSuffices, PTL
<1>1. CASE Dispatch
  <2> DEFINE e == Event("dispatched", slot.sess, slot.task)
  <2>1. slot.phase = "claiming" /\ Emit(e) /\ mode' = mode
    BY <1>1 DEF Dispatch
  <2>2. e \in TaskEvent /\ e.type = "dispatched" /\ e.sess = slot.sess /\ e.task = slot.task
    BY <2>1, RunEvent DEF TypeOK, Event, EventTypes
  <2>3. slot' = [slot EXCEPT !.phase = "running"]
    BY <1>1 DEF Dispatch
  <2>4. slot'.phase = "running" /\ slot'.sess = slot.sess /\ slot'.task = slot.task
    BY <2>1, <2>3, TakenSlot DEF TypeOK
  <2>5. NothingInFlight
    BY <2>1 DEF InFlightInv, NoRunBeforeDispatch, NothingInFlight
  <2>6. \A s \in Sessions : \/ logged'.running[s] = logged.running[s]
                            \/ s = e.sess /\ logged'.running[s] = e.task
    BY <2>1, <2>2, DispatchedRunning DEF TypeOK, Emit
  <2> HIDE DEF e
  <2>7. \A s \in Sessions : \/ logged'.running[s] = NoTask
                            \/ s = slot.sess /\ logged'.running[s] = slot.task
    BY <2>2, <2>5, <2>6 DEF NothingInFlight
  <2> QED
    BY <2>4, <2>7 DEF InFlightInv, LogHasOneInFlight, NoOrphanWhileUp, NoRunBeforeDispatch
<1>2. ASSUME NEW type \in TerminalTypes \cup {"deferred"}, mode = "up", slot.phase # "free",
             Emit(Event(type, slot.sess, slot.task))
      PROVE  InFlightInv'
  BY <1>0, <1>2, FinishClears
<1>3. CASE RunCompletes
  BY <1>2, <1>3 DEF RunCompletes, Running, Up, TerminalTypes
<1>4. CASE RunInspected
  <2>1. NothingInFlight /\ logged' = logged
    BY <1>4, IdleSlot DEF RunInspected, Running, Up
  <2> QED
    BY <1>0, <2>1 DEF NothingInFlight
<1>5. CASE RunFails
  BY <1>2, <1>5 DEF RunFails, Running, Up, Finish, TerminalTypes
<1>6. CASE RunRateLimited
  <2>1. slot.phase = "running" /\ mode = "up" /\ mode' = mode
    BY <1>6 DEF RunRateLimited, Running, Up, unchangedByRun
  <2>2. CASE Finish("deferred") \/ Finish("failed")
    BY <1>2, <2>1, <2>2 DEF Finish, TerminalTypes
  <2>3. CASE /\ Emit(Event("retrying", slot.sess, slot.task))
             /\ slot' = [slot EXCEPT !.phase = "backoff", !.attempt = @ + 1]
    <3>1. Event("retrying", slot.sess, slot.task) \in TaskEvent
      BY <2>1, RunEvent DEF TypeOK, EventTypes
    <3>2. \A s \in Sessions : logged'.running[s] \in {logged.running[s], NoTask}
      BY <2>3, <3>1, EmitShrinks DEF Event
    <3>3. slot'.phase = "backoff" /\ slot'.sess = slot.sess /\ slot'.task = slot.task
      BY <2>1, <2>3, TakenSlot DEF TypeOK
    <3> QED
      BY <2>1, <3>2, <3>3 DEF InFlightInv, LogHasOneInFlight, NoOrphanWhileUp, NoRunBeforeDispatch
  <2> QED
    BY <1>6, <2>2, <2>3 DEF RunRateLimited
<1>7. CASE BackoffEnds
  <2>1. slot.phase = "backoff" /\ mode = "up" /\ mode' = mode
    BY <1>7 DEF BackoffEnds, Running, Up, unchangedByRun
  <2>2. CASE Finish("deferred")
    BY <1>2, <2>1, <2>2 DEF Finish
  <2>3. CASE slot' = [slot EXCEPT !.phase = "running"] /\ logged' = logged
    <3>1. slot'.phase = "running" /\ slot'.sess = slot.sess /\ slot'.task = slot.task
      BY <2>1, <2>3, TakenSlot DEF TypeOK
    <3> QED
      BY <2>1, <2>3, <3>1 DEF InFlightInv, LogHasOneInFlight, NoOrphanWhileUp, NoRunBeforeDispatch
  <2> QED
    BY <1>7, <2>2, <2>3 DEF BackoffEnds
<1>8. CASE AgentOutput
  BY <1>8, ShrinkSuffices DEF AgentOutput, unchangedByRun, claimVars
<1> QED
  BY <1>1, <1>3, <1>4, <1>5, <1>6, <1>7, <1>8 DEF RunStep

LEMMA InFlightClient ==
  ASSUME TypeOK, InFlightInv, ClientStep \/ DeleteCancels \/ DeleteEnds
  PROVE  InFlightInv'
<1>1. mode' = mode /\ slot' = slot
  BY DEF ClientStep, Enqueue, Cancel, Trigger, SetPolicy, ClearPolicy,
         SetDefaultPolicy, SetPriority, SendMessage, MessageEnds, FetchSession, DeleteBegins, DeleteCancels, DeleteEnds,
         unchangedByClient, claimVars
<1>2. \/ logged' = logged
      \/ \E s \in Sessions, t \in Tasks, type \in {"queued", "cancelled"} : Emit(Event(type, s, t))
  <2>1. CASE ClientStep
    BY <2>1 DEF ClientStep, Enqueue, Cancel, Trigger, SetPolicy, ClearPolicy,
                SetDefaultPolicy, SetPriority, SendMessage, MessageEnds, FetchSession, DeleteBegins, logVars
  <2>2. CASE DeleteCancels
    <3>1. /\ destroying \in [sess : Sessions, todo : Seq(Tasks)]
          /\ destroying.todo # <<>>
      BY <2>2 DEF DeleteCancels, TypeOK, NotDestroying
    <3>2. destroying.sess \in Sessions /\ Head(destroying.todo) \in Tasks
      BY <3>1
    <3> QED
      BY <2>2, <3>2 DEF DeleteCancels
  <2>3. CASE DeleteEnds
    BY <2>3 DEF DeleteEnds
  <2> QED
    BY <2>1, <2>2, <2>3
<1>3. CASE logged' = logged
  BY <1>1, <1>3, ShrinkSuffices
<1>4. ASSUME NEW s \in Sessions, NEW t \in Tasks, NEW type \in {"queued", "cancelled"},
             Emit(Event(type, s, t))
      PROVE  InFlightInv'
  <2>1. Event(type, s, t) \in TaskEvent /\ Event(type, s, t).type # "dispatched"
    BY DEF Event, TaskEvent, EventTypes, TerminalTypes
  <2> QED
    BY <1>1, <1>4, <2>1, EmitShrinks, ShrinkSuffices
<1> QED
  BY <1>2, <1>3, <1>4

LEMMA InFlightProcess ==
  ASSUME TypeOK, InFlightInv, Stop \/ Crash \/ Restart \/ Toggle
  PROVE  InFlightInv'
<1>1. CASE Stop
  <2>1. logged' = logged /\ mode = "up" /\ mode' = "stopping"
    BY <1>1 DEF Stop, Up, logVars
  <2>2. slot'.phase = "claiming" => slot.phase = "claiming"
    BY <1>1, TakenSlot DEF Stop, TypeOK, FreeSlot
  <2> QED
    BY <2>1, <2>2 DEF InFlightInv, LogHasOneInFlight, NoOrphanWhileUp, NoRunBeforeDispatch
<1>2. CASE Crash
  <2>1. logged' = logged /\ mode' = "down" /\ slot'.phase = "free"
    BY <1>2 DEF Crash, logVars, FreeSlot
  <2> QED
    BY <2>1 DEF InFlightInv, LogHasOneInFlight, NoOrphanWhileUp, NoRunBeforeDispatch
<1>3. CASE Restart
  <2> DEFINE orphaned == {s \in Pending(logged) : logged.running[s] # NoTask}
  <2>1. logged' = Recovered(logged, orphaned)
    BY <1>3 DEF Restart
  <2>2. \A s \in Sessions : s \in orphaned \/ logged.running[s] = NoTask
    BY DEF Pending
  <2>3. \A s \in Sessions :
          logged'.running[s] = IF s \in orphaned THEN NoTask ELSE logged.running[s]
    BY <2>1 DEF Recovered, TypeOK, View
  <2>4. NothingInFlight'
    BY <2>2, <2>3 DEF NothingInFlight
  <2>5. NothingInFlight' => InFlightInv'
    BY NothingSuffices, PTL
  <2> QED
    BY <2>4, <2>5
<1>4. CASE Toggle
  BY <1>4, ShrinkSuffices DEF Toggle, logVars, claimVars
<1> QED
  BY <1>1, <1>2, <1>3, <1>4

LEMMA InFlightInductive == TypeOK /\ InFlightInv /\ [Next]_vars => InFlightInv'
<1> SUFFICES ASSUME TypeOK, InFlightInv, [Next]_vars PROVE InFlightInv'
  OBVIOUS
<1>1. CASE UNCHANGED vars
  BY <1>1, ShrinkSuffices DEF vars, logVars, claimVars
<1> QED
  BY <1>1, InFlightLoop, InFlightRun, InFlightClient, InFlightProcess DEF Next

LEMMA InFlightCorrect == Spec => []InFlightInv
BY TypeCorrect, InFlightInit, InFlightInductive, PTL DEF Spec

(* At most one task is in flight in the log, whatever interleaves with the *)
(* dispatcher, however often the process dies and whatever the bus drops.  *)
THEOREM OneInFlight == Spec => []LogHasOneInFlight
<1>1. InFlightInv => LogHasOneInFlight
  BY DEF InFlightInv
<1> QED
  BY <1>1, InFlightCorrect, PTL

(* While the process is up, what the log has in flight is the task whose   *)
(* run is alive: every orphan of a crash was failed by the restart.        *)
THEOREM NoOrphan == Spec => []NoOrphanWhileUp
<1>1. InFlightInv => NoOrphanWhileUp
  BY DEF InFlightInv
<1> QED
  BY <1>1, InFlightCorrect, PTL

(* Nothing is in flight while a claim reads its git baseline.              *)
THEOREM ClaimsAlone == Spec => []NoRunBeforeDispatch
<1>1. InFlightInv => NoRunBeforeDispatch
  BY DEF InFlightInv
<1> QED
  BY <1>1, InFlightCorrect, PTL
=============================================================================
