---------------------------- MODULE TaskRunProofs ----------------------------
(***************************************************************************)
(* Four promises of a task's run, for any schedule, windows, clients and   *)
(* commits: on which terms its agent is launched again, how long it is     *)
(* retried, to which instant it is deferred, and what its git result       *)
(* lists.                                                                  *)
(***************************************************************************)
EXTENDS TaskRun, WellFoundedInduction, TLAPS

(* What 10 times a sleep of n intervals lasts at least.                    *)
Least(n) == 9 * (Interval(n) - 1)

(* A task that waits has no launch; a task that sleeps wakes no earlier    *)
(* than its backoff after its last launch.                                 *)
LaunchInv ==
  /\ now \in Int /\ attempt \in Nat /\ default \in Models
  /\ asked.task \in Models /\ asked.session \in Models /\ asked.resumes \in BOOLEAN
  /\ phase \in {"queued", "claimed"} => launch = None
  /\ phase \in {"running", "sleeping"} => launch \in LaunchRecords /\ launch.at <= now
  /\ phase = "running" => launch.attempt = attempt
  /\ phase = "sleeping" =>
       /\ attempt = launch.attempt + 1 /\ wake \in Int
       /\ 10 * (wake - launch.at) >= Least(launch.attempt)

Commits == [by : {"task", "message"}, dispatch : Nat, number : Nat]

(* What the task's base has was there before its dispatch; what its head   *)
(* has of the task and the base has not, it brought itself.                *)
GitInv ==
  /\ dispatches \in Nat /\ made \in Nat
  /\ head \in Seq(Commits) /\ base \in Seq(Commits)
  /\ \A c \in Range(head) :
       /\ c.dispatch <= dispatches
       /\ c.by = "task" /\ c \notin Range(base) => c.dispatch = dispatches
  /\ \A c \in Range(base) : c.dispatch < dispatches
  /\ phase = "inspecting" /\ ~beside => seen = head
  /\ result # None => phase = "ended" /\ ResultListsTheRun

-----------------------------------------------------------------------------
(* The schedule.                                                           *)

LEMMA IntervalIsInt == ASSUME NEW n \in Nat  PROVE Interval(n) \in Int
<1>1. 2 ^ n \in Int
  OBVIOUS
<1>2. Base \in Nat /\ Cap \in Nat
  BY RunAssumption, Zenon
<1> DEFINE power == 2 ^ n
<1> HIDE DEF power
<1>3. power \in Int
  BY <1>1 DEF power
<1>4. Base * power \in Int
  BY <1>2, <1>3
<1> QED  BY <1>2, <1>4 DEF Interval, power

(* Jitter takes a tenth of an interval at most, and rounding a second.     *)
LEMMA DelayIsLong ==
  ASSUME NEW n \in Nat, NEW floor \in Floors, NEW d \in Delays(n, floor)
  PROVE  d \in Int /\ 10 * d >= Least(n)
<1> DEFINE i == Interval(n)
<1>1. i \in Int
  BY IntervalIsInt
<1> DEFINE jittered == {(i * (10 + j)) \div 10 : j \in Jitters}
<1>2. PICK b \in {IF x < 1 THEN 1 ELSE x : x \in jittered} :
        d = IF floor # None /\ floor > b THEN floor ELSE b
  BY DEF Delays
<1>3. PICK j \in Jitters : b = IF (i * (10 + j)) \div 10 < 1 THEN 1 ELSE (i * (10 + j)) \div 10
  BY <1>2
<1>4. j \in -1 .. 1 /\ floor \in Nat \cup {None}
  BY RunAssumption
<1> HIDE DEF i
<1>5. b \in Int /\ 10 * b >= 9 * (i - 1)
  <2>1. CASE j = -1
    BY <1>1, <1>3, <2>1
  <2>2. CASE j = 0
    BY <1>1, <1>3, <2>2
  <2>3. CASE j = 1
    BY <1>1, <1>3, <2>3
  <2> QED  BY <1>4, <2>1, <2>2, <2>3
<1>6. d \in Int /\ 10 * d >= 9 * (i - 1)
  BY <1>1, <1>2, <1>4, <1>5
<1> QED  BY <1>6 DEF Least, i

-----------------------------------------------------------------------------
(* The launches.                                                           *)

LEMMA LaunchInit == Init => LaunchInv
<1> SUFFICES ASSUME Init  PROVE LaunchInv
  OBVIOUS
<1>1. asked \in [task : {None, "of task"}, session : {None, "of session"}, resumes : BOOLEAN]
  BY RunAssumption DEF Init
<1>2. asked.task \in Models /\ asked.session \in Models /\ asked.resumes \in BOOLEAN
  BY <1>1 DEF Models
<1>3. now \in Int /\ attempt \in Nat /\ default \in Models
  BY DEF Init, Models
<1>4. phase = "queued" /\ launch = None
  BY DEF Init
<1> QED  BY <1>2, <1>3, <1>4 DEF LaunchInv

LEMMA LaunchStep == LaunchInv /\ [Next]_vars => LaunchInv'
<1> SUFFICES ASSUME LaunchInv, [Next]_vars  PROVE LaunchInv'
  OBVIOUS
<1>1. CASE UNCHANGED vars
  BY <1>1 DEF vars, clockVars, taskVars, LaunchInv
<1>2. CASE TaskWorks \/ MessageWorks \/ MessageStarts \/ MessageEnds
  BY <1>2 DEF TaskWorks, MessageWorks, MessageStarts, MessageEnds, clockVars, taskVars, LaunchInv
<1>3. CASE Claim
  BY <1>3 DEF Claim, clockVars, LaunchInv
<1>4. CASE Dispatch
  <2>1. launch' = [at |-> now, attempt |-> 0, resumes |-> asked.resumes,
                   model |-> EffectiveModel(asked.task, asked.session, default)]
    BY <1>4 DEF Dispatch, Launches
  <2>2. EffectiveModel(asked.task, asked.session, default) \in Models
    BY DEF EffectiveModel, LaunchInv
  <2>3. launch' \in LaunchRecords /\ launch'.at = now /\ launch'.attempt = 0
    BY <2>1, <2>2 DEF LaunchRecords, LaunchInv
  <2> QED  BY <1>4, <2>3 DEF Dispatch, clockVars, LaunchInv
<1>5. CASE RateLimited
  <2>1. PICK floor \in Floors : \E delay \in Delays(attempt, floor) :
          IF WindowClosed THEN Defer
          ELSE /\ waited' = waited + delay
               /\ IF ExceedsCeiling(waited') THEN Ends("exhausted")
                  ELSE /\ phase' = "sleeping" /\ attempt' = attempt + 1
                       /\ wake' = now + delay
                       /\ UNCHANGED <<outcome, scheduled, launch>>
    BY <1>5 DEF RateLimited
  <2>2. PICK delay \in Delays(attempt, floor) :
          IF WindowClosed THEN Defer
          ELSE /\ waited' = waited + delay
               /\ IF ExceedsCeiling(waited') THEN Ends("exhausted")
                  ELSE /\ phase' = "sleeping" /\ attempt' = attempt + 1
                       /\ wake' = now + delay
                       /\ UNCHANGED <<outcome, scheduled, launch>>
    BY <2>1
  <2>3. /\ phase = "running" /\ now' = now /\ default' = default /\ asked' = asked
    BY <1>5 DEF RateLimited, clockVars
  <2>4. CASE Defer
    BY <2>3, <2>4 DEF Defer, LaunchInv
  <2>5. CASE Ends("exhausted")
    BY <2>3, <2>5 DEF Ends, LaunchInv
  <2>6. CASE /\ phase' = "sleeping" /\ attempt' = attempt + 1 /\ wake' = now + delay
             /\ UNCHANGED launch
    <3>1. attempt \in Nat /\ now \in Int /\ launch.at \in Int /\ launch.at <= now
      BY <2>3 DEF LaunchInv, LaunchRecords
    <3>2. delay \in Int /\ 10 * delay >= Least(attempt) /\ Least(attempt) \in Int
      BY <3>1, DelayIsLong, IntervalIsInt DEF Least
    <3>3. wake' \in Int /\ 10 * (wake' - launch.at) >= Least(attempt)
      BY <2>6, <3>1, <3>2
    <3>4. launch.attempt = attempt
      BY <2>3 DEF LaunchInv
    <3>5. 10 * (wake' - launch'.at) >= Least(launch'.attempt)
      BY <2>6, <3>3, <3>4
    <3> QED  BY <2>3, <2>6, <3>3, <3>4, <3>5 DEF LaunchInv
  <2> QED  BY <2>2, <2>4, <2>5, <2>6
<1>6. CASE Wakes
  <2>1. CASE Defer
    BY <1>6, <2>1 DEF Wakes, Defer, clockVars, LaunchInv
  <2>2. CASE /\ phase' = "running" /\ UNCHANGED attempt
             /\ launch' = [launch EXCEPT !.at = now, !.attempt = attempt, !.resumes = TRUE]
    <3>1. launch' \in LaunchRecords /\ launch'.at = now /\ launch'.attempt = attempt
      BY <1>6, <2>2 DEF Wakes, LaunchInv, LaunchRecords
    <3> QED  BY <1>6, <2>2, <3>1 DEF Wakes, clockVars, LaunchInv
  <2> QED  BY <1>6, <2>1, <2>2 DEF Wakes
<1>7. CASE Completes \/ Inspected \/ Fails \/ Forgets
  BY <1>7 DEF Completes, Inspected, Fails, Ends, Forgets, clockVars, LaunchInv
<1>8. CASE Tick
  BY <1>8 DEF Tick, taskVars, LaunchInv, LaunchRecords
<1>9. CASE SetPolicy
  BY <1>9 DEF SetPolicy, LaunchInv
<1>10. CASE SetDefault
  BY <1>10 DEF SetDefault, taskVars, LaunchInv, Models
<1> QED  BY <1>1, <1>2, <1>3, <1>4, <1>5, <1>6, <1>7, <1>8, <1>9, <1>10 DEF Next

(* What one launch says of the one before it.                              *)
KeepsTerms ==
  launch' # launch /\ launch' # None =>
    IF launch = None
    THEN /\ launch'.attempt = 0 /\ launch'.resumes = asked.resumes
         /\ asked.task # None => launch'.model = asked.task
         /\ asked.task = None /\ asked.session # None => launch'.model = asked.session
         /\ asked.task = None /\ asked.session = None => launch'.model = default
    ELSE /\ launch'.model = launch.model /\ launch'.resumes
         /\ launch'.attempt = launch.attempt + 1
         /\ 10 * (launch'.at - launch.at) >= 9 * (Interval(launch.attempt) - 1)
         /\ ~WindowClosed

LEMMA StepKeepsTerms == LaunchInv /\ [Next]_vars => KeepsTerms
<1> SUFFICES ASSUME LaunchInv, [Next]_vars, launch' # launch, launch' # None  PROVE KeepsTerms
  BY DEF KeepsTerms
<1>1. Dispatch \/ RateLimited \/ Wakes
  BY DEF Next, vars, taskVars, TaskWorks, MessageWorks, MessageStarts, MessageEnds, Claim,
         Completes, Inspected, Fails, Ends, Forgets, Tick, SetPolicy, SetDefault
<1>2. ~Defer
  BY DEF Defer
<1>3. CASE Dispatch
  <2>1. launch = None
    BY <1>3 DEF Dispatch, LaunchInv
  <2>2. launch' = [at |-> now, attempt |-> 0, resumes |-> asked.resumes,
                   model |-> EffectiveModel(asked.task, asked.session, default)]
    BY <1>3 DEF Dispatch, Launches
  <2> QED  BY <2>1, <2>2 DEF KeepsTerms, EffectiveModel
<1>4. CASE RateLimited
  BY <1>2, <1>4 DEF RateLimited, Ends
<1>5. CASE Wakes
  <2>1. /\ phase = "sleeping" /\ now >= wake /\ ~WindowClosed
        /\ launch' = [launch EXCEPT !.at = now, !.attempt = attempt, !.resumes = TRUE]
    BY <1>2, <1>5 DEF Wakes
  <2>2. /\ launch \in LaunchRecords /\ attempt = launch.attempt + 1
        /\ wake \in Int /\ now \in Int
        /\ 10 * (wake - launch.at) >= 9 * (Interval(launch.attempt) - 1)
    BY <2>1 DEF LaunchInv, Least
  <2>3. launch # None
    BY <2>2, RunAssumption
  <2>4. /\ launch'.at = now /\ launch'.attempt = attempt /\ launch'.resumes
        /\ launch'.model = launch.model /\ launch.at \in Int
    BY <2>1, <2>2 DEF LaunchRecords
  <2>5. 10 * (now - launch.at) >= 9 * (Interval(launch.attempt) - 1)
    <3>1. launch.attempt \in Nat
      BY <2>2 DEF LaunchRecords
    <3>2. Interval(launch.attempt) \in Int
      BY <3>1, IntervalIsInt
    <3> QED  BY <2>1, <2>2, <2>4, <3>2
  <2> QED  BY <2>1, <2>2, <2>3, <2>4, <2>5 DEF KeepsTerms
<1> QED  BY <1>1, <1>3, <1>4, <1>5

(* An agent that is launched again keeps the model of its dispatch and     *)
(* resumes, never before its backoff is over and never while the window is *)
(* closed, for any schedule, jitter, floors, windows and clients.          *)
THEOREM LaunchTermsHold == Spec => LaunchesKeepTheirTerms
<1>1. LaunchInv /\ [Next]_vars => [KeepsTerms]_vars
  BY StepKeepsTerms
<1> QED  BY LaunchInit, LaunchStep, <1>1, PTL DEF Spec, LaunchesKeepTheirTerms, KeepsTerms

-----------------------------------------------------------------------------
(* Git.                                                                    *)

LEMMA AppendRange ==
  ASSUME NEW S, NEW s \in Seq(S), NEW e \in S
  PROVE  Append(s, e) \in Seq(S) /\ Range(Append(s, e)) = Range(s) \cup {e}
<1>1. Append(s, e) \in Seq(S) /\ Len(Append(s, e)) = Len(s) + 1
  OBVIOUS
<1>2. \A i \in 1 .. Len(s) : Append(s, e)[i] = s[i]
  OBVIOUS
<1>3. Append(s, e)[Len(s) + 1] = e
  OBVIOUS
<1>4. DOMAIN s = 1 .. Len(s) /\ DOMAIN Append(s, e) = 1 .. Len(s) + 1 /\ Len(s) \in Nat
  BY <1>1
<1>5. Range(Append(s, e)) \subseteq Range(s) \cup {e}
  <2>1. ASSUME NEW i \in 1 .. Len(s) + 1  PROVE Append(s, e)[i] \in Range(s) \cup {e}
    <3>1. CASE i = Len(s) + 1
      BY <1>3, <3>1
    <3>2. CASE i \in 1 .. Len(s)
      BY <1>2, <1>4, <3>2 DEF Range
    <3> QED  BY <1>4, <3>1, <3>2
  <2> QED  BY <1>4, <2>1 DEF Range
<1>6. Range(s) \cup {e} \subseteq Range(Append(s, e))
  <2>1. \A i \in 1 .. Len(s) : i \in 1 .. Len(s) + 1
    BY <1>4
  <2>2. Len(s) + 1 \in 1 .. Len(s) + 1
    BY <1>4
  <2> QED  BY <1>2, <1>3, <1>4, <2>1, <2>2 DEF Range
<1> QED  BY <1>1, <1>5, <1>6

LEMMA FrontRange ==
  ASSUME NEW S, NEW s \in Seq(S), s # <<>>
  PROVE  Front(s) \in Seq(S) /\ Range(Front(s)) \subseteq Range(s)
<1>1. Len(s) \in Nat \ {0} /\ DOMAIN s = 1 .. Len(s)
  OBVIOUS
<1>2. /\ Front(s) \in Seq(S) /\ DOMAIN Front(s) = 1 .. Len(s) - 1
      /\ \A i \in 1 .. Len(s) - 1 : Front(s)[i] = s[i]
  BY <1>1 DEF Front
<1>3. \A i \in 1 .. Len(s) - 1 : i \in 1 .. Len(s)
  BY <1>1
<1> QED  BY <1>1, <1>2, <1>3 DEF Range

(* A commit by either side, or a reset by one: what is new is of this      *)
(* dispatch.                                                               *)
LEMMA WorksInv ==
  ASSUME GitInv, NEW author \in {"task", "message"}, Works(author), base' = base,
         dispatches' = dispatches
  PROVE  /\ made' \in Nat /\ head' \in Seq(Commits)
         /\ \A c \in Range(head') :
              /\ c.dispatch <= dispatches
              /\ c.by = "task" /\ c \notin Range(base) => c.dispatch = dispatches
<1>1. CASE head # <<>> /\ head' = Front(head) /\ UNCHANGED made
  BY <1>1, FrontRange DEF GitInv
<1>2. CASE /\ made' = made + 1
           /\ head' = Append(head, [by |-> author, dispatch |-> dispatches, number |-> made + 1])
  <2> DEFINE commit == [by |-> author, dispatch |-> dispatches, number |-> made + 1]
  <2>1. commit \in Commits /\ commit.dispatch = dispatches /\ made' \in Nat
    BY <1>2 DEF Commits, GitInv
  <2>2. head' = Append(head, commit)
    BY <1>2
  <2> HIDE DEF commit
  <2>3. head' \in Seq(Commits) /\ Range(head') = Range(head) \cup {commit}
    BY <2>1, <2>2, AppendRange DEF GitInv
  <2> QED  BY <2>1, <2>3 DEF GitInv
<1> QED  BY <1>1, <1>2 DEF Works

LEMMA GitInit == Init => GitInv
  BY DEF Init, GitInv, Range

LEMMA GitStep == GitInv /\ [Next]_vars => GitInv'
<1> SUFFICES ASSUME GitInv, [Next]_vars  PROVE GitInv'
  OBVIOUS
<1>1. CASE UNCHANGED vars
  BY <1>1 DEF vars, taskVars, gitVars, GitInv, ResultListsTheRun
<1>2. SUFFICES ASSUME Next, phase # "ended", result = None  PROVE GitInv'
  BY <1>1 DEF Next, GitInv
<1>3. CASE TaskWorks
  <2>1. /\ Works("task") /\ base' = base /\ dispatches' = dispatches /\ phase = "running"
        /\ phase' = phase /\ result' = result
    BY <1>3 DEF TaskWorks, taskVars
  <2> QED  BY <1>2, <2>1, WorksInv DEF GitInv
<1>4. CASE MessageWorks
  <2>1. /\ Works("message") /\ base' = base /\ dispatches' = dispatches /\ phase' = phase
        /\ result' = result /\ seen' = seen /\ (phase = "inspecting" => beside')
    BY <1>4 DEF MessageWorks, taskVars
  <2> QED  BY <1>2, <2>1, WorksInv DEF GitInv
<1>5. CASE Dispatch
  <2>1. /\ head' = head /\ base' = head /\ dispatches' = dispatches + 1 /\ made' = made
        /\ phase' = "running" /\ result' = result
    BY <1>5 DEF Dispatch, ReadBase
  <2>2. \A c \in Range(head) : c \in Commits
    BY DEF GitInv, Range
  <2>3. \A c \in Range(head) : c.dispatch \in Nat /\ c.dispatch < dispatches + 1
                               /\ c.dispatch <= dispatches + 1
    BY <2>2 DEF GitInv, Commits
  <2> QED  BY <1>2, <2>1, <2>3 DEF GitInv
<1>6. CASE Completes
  BY <1>2, <1>6 DEF Completes, GitInv
<1>7. CASE Inspected
  <2>1. /\ phase = "inspecting" /\ phase' = "ended" /\ beside' = beside /\ seen' = seen
        /\ head' = head /\ base' = base /\ dispatches' = dispatches /\ made' = made
        /\ result' \in {None, GitResult(Listed(base, head), TRUE), GitResult({}, FALSE)}
    BY <1>7 DEF Inspected
  <2>2. CASE result' = None
    BY <2>1, <2>2 DEF GitInv
  <2>3. CASE result' = GitResult(Listed(base, head), TRUE)
    <3>1. /\ result'.head = seen /\ result'.commits = Listed(base, head)
          /\ result'.read = TRUE
      BY <2>3 DEF GitResult
    <3>2. \A c \in result'.commits : c.by = "task" => c.dispatch = dispatches
      BY <3>1 DEF GitInv, Listed
    <3>3. ~beside => result'.commits = Range(result'.head) \ Range(base)
      BY <2>1, <3>1 DEF GitInv, Listed
    <3>4. \A c \in Range(base) : c.dispatch # dispatches
      BY DEF GitInv, Commits, Range
    <3>5. \A c \in Range(result'.head) :
            c.by = "task" /\ c.dispatch = dispatches => c \in result'.commits \/ beside
      BY <3>3, <3>4
    <3>6. ResultListsTheRun'
      BY <2>1, <3>1, <3>2, <3>3, <3>5 DEF ResultListsTheRun
    <3> QED  BY <2>1, <3>6 DEF GitInv
  <2>4. CASE result' = GitResult({}, FALSE)
    <3>1. result'.commits = {} /\ result'.read = FALSE
      BY <2>4 DEF GitResult
    <3> QED  BY <2>1, <3>1 DEF GitInv, ResultListsTheRun
  <2> QED  BY <2>1, <2>2, <2>3, <2>4
<1>8. CASE MessageStarts \/ MessageEnds
  BY <1>2, <1>8 DEF MessageStarts, MessageEnds, taskVars, GitInv
<1>9. CASE Claim \/ RateLimited \/ Wakes \/ Fails \/ Forgets
  BY <1>2, <1>9 DEF Claim, RateLimited, Wakes, Fails, Forgets, Defer, Ends, gitVars, GitInv
<1>10. CASE Tick \/ SetPolicy \/ SetDefault
  BY <1>2, <1>10 DEF Tick, SetPolicy, SetDefault, taskVars, gitVars, GitInv
<1> QED  BY <1>2, <1>3, <1>4, <1>5, <1>6, <1>7, <1>8, <1>9, <1>10 DEF Next

(* task.git_result lists what the head it names has beyond the base of the *)
(* task's last dispatch, whatever the task, its retries and deferrals and  *)
(* /messages runs beside it commit or take back.                           *)
THEOREM ResultIsOfTheRun == Spec => []ResultListsTheRun
<1>1. GitInv => ResultListsTheRun
  BY DEF GitInv, ResultListsTheRun
<1> QED  BY GitInit, GitStep, <1>1, PTL DEF Spec

-----------------------------------------------------------------------------
(* Natural numbers: the least one of a set, and sums of a series.          *)

LEMMA LeastNatural ==
  ASSUME NEW S \in SUBSET Nat, S # {}
  PROVE  \E n \in S : \A m \in S : n <= m
<1>1. PICK n \in S : \A m \in S : ~(<<m, n>> \in OpToRel(<, Nat))
  BY NatLessThanWellFounded, WFMin
<1>2. \A m \in S : ~(m < n)
  BY <1>1 DEF OpToRel
<1> QED
  BY <1>2

LEMMA Induction ==
  ASSUME NEW S \in SUBSET Nat, 0 \in S, \A n \in S : n + 1 \in S
  PROVE  S = Nat
<1> SUFFICES ASSUME Nat \ S # {}  PROVE FALSE
  OBVIOUS
<1>1. PICK n \in Nat \ S : \A m \in Nat \ S : n <= m
  BY LeastNatural
<1>2. n # 0 /\ n - 1 \in Nat /\ ~(n <= n - 1) /\ (n - 1) + 1 = n
  BY <1>1
<1>3. n - 1 \in S
  BY <1>1, <1>2
<1> QED
  BY <1>1, <1>2, <1>3

(* A series has its sums.                                                  *)
Sums(f, step, n) ==
  f \in [0 .. n -> Int] /\ f[0] = 0 /\ \A i \in 0 .. n - 1 : f[i + 1] = f[i] + step[i]

LEMMA SumsAgree ==
  ASSUME NEW step \in [Nat -> Int], NEW m \in Nat, NEW n \in Nat, m <= n,
         NEW f, NEW g, Sums(f, step, m), Sums(g, step, n)
  PROVE  \A i \in 0 .. m : f[i] = g[i]
<1> DEFINE S == {i \in Nat : i <= m => f[i] = g[i]}
<1>1. 0 \in S
  BY DEF Sums
<1>2. ASSUME NEW i \in S
      PROVE  i + 1 \in S
  <2> SUFFICES ASSUME i + 1 <= m  PROVE f[i + 1] = g[i + 1]
    OBVIOUS
  <2>1. i \in 0 .. m - 1 /\ i \in 0 .. n - 1 /\ i <= m
    OBVIOUS
  <2> QED
    BY <2>1 DEF Sums
<1> HIDE DEF S
<1>3. S = Nat
  BY <1>1, <1>2, Induction DEF S
<1> QED
  BY <1>3 DEF S

LEMMA SeriesHasSums ==
  ASSUME NEW step \in [Nat -> Int]
  PROVE  \E f \in [Nat -> Int] : f[0] = 0 /\ \A n \in Nat : f[n + 1] = f[n] + step[n]
<1> DEFINE S == {n \in Nat : \E f : Sums(f, step, n)}
<1>1. 0 \in S
  <2>1. Sums([i \in 0 .. 0 |-> 0], step, 0)
    BY DEF Sums
  <2> QED
    BY <2>1
<1>2. ASSUME NEW n \in S
      PROVE  n + 1 \in S
  <2>1. PICK f : Sums(f, step, n)
    OBVIOUS
  <2> DEFINE g == [i \in 0 .. n + 1 |-> IF i = n + 1 THEN f[n] + step[n] ELSE f[i]]
  <2>2. /\ f \in [0 .. n -> Int] /\ f[0] = 0 /\ n \in Nat /\ step[n] \in Int
        /\ \A i \in 0 .. n - 1 : f[i + 1] = f[i] + step[i]
    BY <2>1 DEF Sums
  <2>3. g \in [0 .. n + 1 -> Int] /\ g[0] = 0
    BY <2>2
  <2>4. ASSUME NEW i \in 0 .. n
        PROVE  g[i + 1] = g[i] + step[i]
    <3>1. i \in 0 .. n + 1 /\ i + 1 \in 0 .. n + 1 /\ i # n + 1
      BY <2>2
    <3>2. CASE i = n
      BY <2>2, <3>1, <3>2
    <3>3. CASE i # n
      <4>1. i \in 0 .. n - 1 /\ i + 1 # n + 1
        BY <2>2, <3>3
      <4> QED
        BY <2>2, <3>1, <4>1
    <3> QED
      BY <3>2, <3>3
  <2> HIDE DEF g
  <2>5. Sums(g, step, n + 1)
    <3>1. n + 1 \in Nat /\ (n + 1) - 1 = n
      BY <2>2
    <3> QED
      BY <2>3, <2>4, <3>1 DEF Sums
  <2>6. n + 1 \in Nat
    BY <2>2
  <2> QED
    BY <2>5, <2>6
<1> HIDE DEF S
<1>3. S = Nat
  BY <1>1, <1>2, Induction DEF S
<1> DEFINE F(n) == CHOOSE f : Sums(f, step, n)
           sum == [n \in Nat |-> F(n)[n]]
<1>4. \A n \in Nat : Sums(F(n), step, n)
  BY <1>3 DEF S
<1> HIDE DEF F
<1>5. sum \in [Nat -> Int]
  <2>1. \A n \in Nat : F(n)[n] \in Int
    BY <1>4 DEF Sums
  <2> QED
    BY <2>1
<1>6. sum[0] = 0
  BY <1>4 DEF Sums
<1>7. ASSUME NEW n \in Nat
      PROVE  sum[n + 1] = sum[n] + step[n]
  <2>1. n + 1 \in Nat /\ n <= n + 1 /\ n \in 0 .. n /\ n \in 0 .. (n + 1) - 1
    OBVIOUS
  <2>2. Sums(F(n), step, n) /\ Sums(F(n + 1), step, n + 1)
    BY <1>4, <2>1
  <2>3. F(n)[n] = F(n + 1)[n]
    BY <2>1, <2>2, SumsAgree
  <2>4. F(n + 1)[n + 1] = F(n + 1)[n] + step[n]
    BY <2>1, <2>2 DEF Sums
  <2> QED
    BY <2>1, <2>3, <2>4
<1> QED
  BY <1>5, <1>6, <1>7

(* LeastWait is what its recursion says.                                   *)
LEMMA LeastWaitUnfolds ==
  /\ LeastWait \in [Nat -> Int] /\ LeastWait[0] = 0
  /\ \A n \in Nat : LeastWait[n + 1] = LeastWait[n] + Least(n)
<1> DEFINE step == [n \in Nat |-> Least(n)]
           Fix(f) == f = [n \in Nat |-> IF n = 0 THEN 0
                                        ELSE f[n - 1] + 9 * (Interval(n - 1) - 1)]
<1>1. \A n \in Nat : Least(n) \in Int
  BY IntervalIsInt DEF Least
<1>2. step \in [Nat -> Int]
  BY <1>1
<1>3. PICK f \in [Nat -> Int] : f[0] = 0 /\ \A n \in Nat : f[n + 1] = f[n] + step[n]
  BY <1>2, SeriesHasSums
<1>4. Fix(f)
  <2>1. ASSUME NEW n \in Nat, n # 0
        PROVE  f[n] = f[n - 1] + 9 * (Interval(n - 1) - 1)
    <3>1. n - 1 \in Nat /\ (n - 1) + 1 = n
      BY <2>1
    <3>2. f[n] = f[n - 1] + step[n - 1]
      BY <1>3, <3>1
    <3> QED
      BY <3>1, <3>2 DEF Least
  <2> QED
    BY <1>3, <2>1
<1>5. LeastWait = CHOOSE g : Fix(g)
  BY DEF LeastWait
<1>6. Fix(LeastWait)
  BY <1>4, <1>5
<1> HIDE DEF Fix
<1>7. ASSUME NEW n \in Nat
      PROVE  LeastWait[n + 1] = LeastWait[n] + Least(n)
  <2>1. n + 1 \in Nat /\ n + 1 # 0 /\ (n + 1) - 1 = n
    OBVIOUS
  <2>2. LeastWait[n + 1] = LeastWait[(n + 1) - 1] + 9 * (Interval((n + 1) - 1) - 1)
    BY <1>6, <2>1 DEF Fix
  <2> QED
    BY <2>1, <2>2 DEF Least
<1>8. LeastWait[0] = 0
  BY <1>6 DEF Fix
<1> DEFINE S == {n \in Nat : LeastWait[n] \in Int}
<1>9. S = Nat
  <2>1. 0 \in S
    BY <1>8
  <2>2. \A n \in S : n + 1 \in S
    BY <1>1, <1>7
  <2> HIDE DEF S
  <2> QED
    BY <2>1, <2>2, Induction DEF S
<1>10. LeastWait \in [Nat -> Int]
  <2>1. \A n \in Nat : LeastWait[n] \in Int
    BY <1>9
  <2>2. LeastWait = [n \in Nat |-> LeastWait[n]]
    BY <1>6 DEF Fix
  <2> QED
    BY <2>1, <2>2
<1> QED
  BY <1>7, <1>8, <1>10

-----------------------------------------------------------------------------
(* The retries.                                                            *)

(* Until a task has given up, its sleeps are below the ceiling together    *)
(* and as long as the schedule says of the launches it has had.            *)
RetryInv ==
  /\ attempt \in Nat /\ waited \in Int
  /\ phase # "ended" =>
       /\ waited < Ceiling /\ 10 * waited >= LeastWait[attempt]
       /\ outcome # "exhausted"
  /\ phase = "ended" => (outcome = "exhausted" <=> waited >= Ceiling)

LEMMA RetryInit == Init => RetryInv
<1> SUFFICES ASSUME Init  PROVE RetryInv
  OBVIOUS
<1>1. attempt = 0 /\ waited = 0 /\ phase = "queued" /\ outcome = None
  BY DEF Init
<1>2. Ceiling \in Nat \ {0}
  BY RunAssumption, Zenon
<1>3. outcome # "exhausted"
  BY <1>1, RunAssumption, Zenon
<1> QED
  BY <1>1, <1>2, <1>3, LeastWaitUnfolds DEF RetryInv

LEMMA RetryStep == RetryInv /\ [Next]_vars => RetryInv'
<1> SUFFICES ASSUME RetryInv, [Next]_vars  PROVE RetryInv'
  OBVIOUS
<1>1. Ceiling \in Nat /\ 0 < Ceiling
  <2>1. Ceiling \in Nat \ {0}
    BY RunAssumption, Zenon
  <2> QED
    BY <2>1
<1>2. LeastWait[0] = 0
  BY LeastWaitUnfolds
<1>3. CASE UNCHANGED vars
  BY <1>3 DEF vars, taskVars, RetryInv
<1>4. CASE phase # "ended" /\ (TaskWorks \/ MessageWorks \/ MessageStarts \/ MessageEnds
                               \/ Tick \/ SetDefault)
  <2>1. UNCHANGED <<attempt, waited, phase, outcome>>
    BY <1>4 DEF TaskWorks, MessageWorks, MessageStarts, MessageEnds, Tick, SetDefault, taskVars
  <2> QED
    BY <2>1 DEF RetryInv
<1>5. CASE SetPolicy
  BY <1>5 DEF SetPolicy, RetryInv
<1>6. CASE Claim \/ Forgets
  BY <1>6 DEF Claim, Forgets, RetryInv
<1>7. CASE phase # "ended" /\ Dispatch
  BY <1>1, <1>2, <1>7 DEF Dispatch, RetryInv
<1>8. ASSUME phase # "ended", Defer
      PROVE  RetryInv'
  BY <1>1, <1>2, <1>8 DEF Defer, RetryInv
<1>9. CASE phase # "ended" /\ RateLimited
  <2>1. PICK floor \in Floors : \E delay \in Delays(attempt, floor) :
          IF WindowClosed THEN Defer
          ELSE /\ waited' = waited + delay
               /\ IF ExceedsCeiling(waited') THEN Ends("exhausted")
                  ELSE /\ phase' = "sleeping" /\ attempt' = attempt + 1
                       /\ wake' = now + delay
                       /\ UNCHANGED <<outcome, scheduled, launch>>
    BY <1>9 DEF RateLimited
  <2>2. PICK delay \in Delays(attempt, floor) :
          IF WindowClosed THEN Defer
          ELSE /\ waited' = waited + delay
               /\ IF ExceedsCeiling(waited') THEN Ends("exhausted")
                  ELSE /\ phase' = "sleeping" /\ attempt' = attempt + 1
                       /\ wake' = now + delay
                       /\ UNCHANGED <<outcome, scheduled, launch>>
    BY <2>1
  <2>3. /\ attempt \in Nat /\ waited \in Int
        /\ 10 * waited >= LeastWait[attempt] /\ outcome # "exhausted"
    BY <1>9 DEF RetryInv
  <2>4. delay \in Int /\ 10 * delay >= Least(attempt) /\ Least(attempt) \in Int
    BY <2>3, DelayIsLong, IntervalIsInt DEF Least
  <2>5. /\ LeastWait[attempt + 1] = LeastWait[attempt] + Least(attempt)
        /\ LeastWait[attempt] \in Int
    BY <2>3, LeastWaitUnfolds
  <2>6. 10 * (waited + delay) >= LeastWait[attempt + 1] /\ waited + delay \in Int
    BY <2>3, <2>4, <2>5
  <2>7. CASE waited' = waited + delay /\ ExceedsCeiling(waited') /\ Ends("exhausted")
    BY <1>1, <2>3, <2>6, <2>7 DEF ExceedsCeiling, Ends, RetryInv
  <2>8. CASE /\ waited' = waited + delay /\ ~ExceedsCeiling(waited')
             /\ phase' = "sleeping" /\ attempt' = attempt + 1 /\ UNCHANGED outcome
    <3>1. waited' < Ceiling
      BY <1>1, <2>6, <2>8 DEF ExceedsCeiling
    <3>2. attempt' \in Nat /\ 10 * waited' >= LeastWait[attempt']
      BY <2>3, <2>6, <2>8
    <3> QED
      BY <2>3, <2>6, <2>8, <3>1, <3>2 DEF RetryInv
  <2> QED
    BY <1>8, <1>9, <2>2, <2>7, <2>8
<1>10. CASE phase # "ended" /\ Wakes
  <2>1. CASE Defer
    BY <1>8, <1>10, <2>1
  <2>2. CASE phase' = "running" /\ UNCHANGED <<outcome, attempt, waited>>
    BY <1>10, <2>2 DEF RetryInv
  <2> QED
    BY <1>10, <2>1, <2>2 DEF Wakes
<1>11. CASE Completes \/ Inspected
  <2>1. \/ phase = "running" /\ phase' = "inspecting" /\ outcome' = "completed"
        \/ phase = "inspecting" /\ phase' = "ended" /\ outcome' = outcome
    BY <1>11 DEF Completes, Inspected
  <2>2. attempt' = attempt /\ waited' = waited
    BY <1>11 DEF Completes, Inspected
  <2> QED
    BY <1>1, <2>1, <2>2 DEF RetryInv
<1>12. CASE Fails
  BY <1>1, <1>12 DEF Fails, Ends, RetryInv
<1> QED
  BY <1>3, <1>4, <1>5, <1>6, <1>7, <1>9, <1>10, <1>11, <1>12 DEF Next

(* The sleeps of a dispatch stay below the ceiling together and follow the *)
(* schedule; a task gives up only when its next sleep would meet it.       *)
THEOREM RetriesFit == Spec => []RetriesFitTheCeiling
<1>1. RetryInv => RetriesFitTheCeiling
  <2> SUFFICES ASSUME RetryInv  PROVE RetriesFitTheCeiling
    OBVIOUS
  <2>1. phase = "sleeping" => waited < Ceiling /\ 10 * waited >= LeastWait[attempt]
    BY DEF RetryInv
  <2>2. outcome = "exhausted" <=> phase = "ended" /\ waited >= Ceiling
    BY DEF RetryInv
  <2> QED
    BY <2>1, <2>2 DEF RetriesFitTheCeiling
<1> QED
  BY RetryInit, RetryStep, <1>1, PTL DEF Spec

-----------------------------------------------------------------------------
(* The calendar.                                                           *)

LEMMA Distributes == \A m, x, y \in Int : m * (y - x) = m * y - m * x
  OBVIOUS

LEMMA Division ==
  ASSUME NEW a \in Int, NEW b \in Nat \ {0}
  PROVE  /\ a \div b \in Int /\ a % b \in 0 .. b - 1
         /\ a = b * (a \div b) + (a % b)
OBVIOUS

LEMMA DivisionIsUnique ==
  ASSUME NEW b \in Nat \ {0}, NEW q \in Int, NEW r \in 0 .. b - 1
  PROVE  (b * q + r) \div b = q /\ (b * q + r) % b = r
<1> DEFINE a == b * q + r
           p == a \div b
           s == a % b
<1>1. a \in Int
  OBVIOUS
<1>2. p \in Int /\ s \in 0 .. b - 1 /\ a = b * p + s
  BY <1>1, Division
<1>3. b * q + r = b * p + s
  BY <1>2
<1> HIDE DEF a, p, s
<1>4. b * (q - p) = s - r
  BY <1>2, <1>3
<1>5. ~(q - p >= 1)
  <2>1. q - p >= 1 => b * (q - p) >= b
    BY <1>2
  <2> QED
    BY <1>2, <1>4, <2>1
<1>6. ~(p - q >= 1)
  <2>1. p - q >= 1 => b * (p - q) >= b
    BY <1>2
  <2>2. b * (p - q) = r - s
    BY <1>2, <1>4
  <2> QED
    BY <1>2, <2>1, <2>2
<1>7. p = q
  BY <1>2, <1>5, <1>6
<1>8. s = r
  BY <1>2, <1>3, <1>7
<1> QED
  BY <1>7, <1>8 DEF a, p, s

LEMMA ClockFacts ==
  /\ Minute \in Nat \ {0} /\ Day \in Nat \ {0} /\ Day * Minute \in Nat \ {0}
  /\ Hour \in Nat /\ Hour = Minute * (Hour \div Minute) /\ Hour \div Minute \in Nat
  /\ Horizon \in Nat /\ Horizon >= 14 /\ 7 * Day \in Nat \ {0}
<1>1. /\ Minute \in Nat \ {0} /\ Day \in Nat \ {0} /\ Hour \in Nat /\ Horizon \in Nat
      /\ Hour % Minute = 0 /\ Horizon >= 14
  BY CalendarAssumption, SearchAssumption
<1>2. Day * Minute \in Nat /\ Day * Minute # 0 /\ 7 * Day \in Nat /\ 7 * Day # 0
  BY <1>1
<1>3. Hour \div Minute \in Int /\ Hour = Minute * (Hour \div Minute) + 0
  BY <1>1, Division
<1>4. Hour \div Minute \in Nat
  BY <1>1, <1>3
<1> QED
  BY <1>1, <1>2, <1>3, <1>4

LEMMA LocalIsInt == ASSUME NEW t \in Int  PROVE Local(t) \in Int
BY ClockFacts DEF Local

(* What a window is compared with is a minute of the local day.            *)
LEMMA LocalTime ==
  ASSUME NEW t \in Int, NEW day \in Int, NEW minute \in 0 .. Day - 1, NEW r \in 0 .. Minute - 1,
         Local(t) = Minute * (Day * day + minute) + r
  PROVE  /\ Weekday(t) = 1 + (day % 7)
         /\ \A c \in Int : TimeOfDay(t) >= c * Minute <=> minute >= c
<1> DEFINE D == Day * Minute
           rest == minute * Minute + r
<1>1. /\ Minute \in Nat \ {0} /\ Day \in Nat \ {0} /\ D \in Nat \ {0}
  BY ClockFacts
<1>2. Local(t) = D * day + rest
  BY <1>1
<1>3. rest \in 0 .. D - 1
  <2>1. minute * Minute >= 0 /\ minute * Minute \in Int
    BY <1>1
  <2>2. minute * Minute <= (Day - 1) * Minute
    BY <1>1
  <2>3. (Day - 1) * Minute = D - Minute
    BY <1>1
  <2> QED
    BY <1>1, <2>1, <2>2, <2>3
<1> HIDE DEF D
<1>4. Local(t) \div D = day /\ Local(t) % D = rest
  BY <1>1, <1>2, <1>3, DivisionIsUnique
<1>5. Weekday(t) = 1 + (day % 7)
  BY <1>4 DEF Weekday, D
<1>6. TimeOfDay(t) = rest
  BY <1>4 DEF TimeOfDay, D
<1>7. ASSUME NEW c \in Int
      PROVE  rest >= c * Minute <=> minute >= c
  <2>1. minute >= c => minute * Minute >= c * Minute
    BY <1>1
  <2>2. c >= minute + 1 => c * Minute >= (minute + 1) * Minute
    BY <1>1
  <2>3. (minute + 1) * Minute = minute * Minute + Minute
    BY <1>1
  <2>4. minute * Minute \in Int /\ c * Minute \in Int
    BY <1>1
  <2> QED
    BY <1>1, <2>1, <2>2, <2>3, <2>4
<1> QED
  BY <1>5, <1>6, <1>7

(* The first minute of a window on one of its days.                        *)
LEMMA OpensAtItsStart ==
  ASSUME NEW w \in Windows, NEW d \in w.days, NEW t \in Int, NEW week \in Int,
         NEW r \in 0 .. Minute - 1,
         Local(t) = Minute * (7 * Day * week + (d - 1) * Day + w.start) + r
  PROVE  Covers(w, t)
<1>1. w.start \in 0 .. Day - 1 /\ w.end \in 0 .. Day - 1 /\ w.days \subseteq 1 .. 7
  BY CalendarAssumption DEF Windows, TimesOfDay, Weekdays
<1>2. Day \in Nat \ {0} /\ Minute \in Nat \ {0}
  BY ClockFacts
<1> DEFINE day == 7 * week + (d - 1)
<1>3. day \in Int /\ d \in 1 .. 7
  BY <1>1
<1>4. 7 * Day * week + (d - 1) * Day + w.start = Day * day + w.start
  BY <1>1, <1>2, <1>3
<1>5. day % 7 = d - 1
  BY <1>3
<1> HIDE DEF day
<1>6. Local(t) = Minute * (Day * day + w.start) + r
  BY <1>4
<1>7. /\ Weekday(t) = 1 + (day % 7)
      /\ \A c \in Int : TimeOfDay(t) >= c * Minute <=> w.start >= c
  BY <1>1, <1>3, <1>6, LocalTime
<1>8. Weekday(t) = d
  BY <1>3, <1>5, <1>7
<1>9. /\ TimeOfDay(t) >= w.start * Minute
      /\ TimeOfDay(t) >= w.end * Minute <=> w.start >= w.end
  BY <1>1, <1>7
<1> QED
  BY <1>1, <1>8, <1>9 DEF Covers, DayMatches, WrapsMidnight

(* Within one minute nothing opens and nothing closes.                     *)
LEMMA MinuteIsWhole ==
  ASSUME NEW w \in Windows, NEW t \in Int, NEW u \in Int, t \div Minute = u \div Minute,
         Covers(w, t)
  PROVE  Covers(w, u)
<1> DEFINE m == t \div Minute
           h == Hour \div Minute
<1>1. /\ Minute \in Nat \ {0} /\ Day \in Nat \ {0}
      /\ Hour = Minute * h /\ h \in Nat
  BY ClockFacts
<1>2. /\ m \in Int
      /\ t % Minute \in 0 .. Minute - 1 /\ t = Minute * m + (t % Minute)
      /\ u % Minute \in 0 .. Minute - 1 /\ u = Minute * m + (u % Minute)
  BY <1>1, Division
<1> HIDE DEF m, h
<1>3. t \in Summer <=> u \in Summer
  <2>1. u = (t - (t % Minute)) + (u % Minute) /\ t = (u - (u % Minute)) + (t % Minute)
    BY <1>1, <1>2
  <2> QED
    BY <1>2, <2>1, SearchAssumption
<1> DEFINE x == IF t \in Summer THEN m + h ELSE m
<1>4. /\ x \in Int
      /\ Local(t) = Minute * x + (t % Minute)
      /\ Local(u) = Minute * x + (u % Minute)
  <2>1. Minute * (m + h) = Minute * m + Hour
    BY <1>1, <1>2
  <2>2. CASE t \in Summer
    BY <1>1, <1>2, <1>3, <2>1, <2>2 DEF Local
  <2>3. CASE t \notin Summer
    BY <1>1, <1>2, <1>3, <2>3 DEF Local
  <2> QED
    BY <2>2, <2>3
<1> HIDE DEF x
<1> DEFINE day == x \div Day
           minute == x % Day
<1>5. day \in Int /\ minute \in 0 .. Day - 1 /\ x = Day * day + minute
  BY <1>1, <1>4, Division
<1> HIDE DEF day, minute
<1>6. /\ Local(t) = Minute * (Day * day + minute) + (t % Minute)
      /\ Local(u) = Minute * (Day * day + minute) + (u % Minute)
  BY <1>4, <1>5
<1>7. /\ Weekday(t) = 1 + (day % 7)
      /\ \A c \in Int : TimeOfDay(t) >= c * Minute <=> minute >= c
  BY <1>2, <1>5, <1>6, LocalTime
<1>8. /\ Weekday(u) = 1 + (day % 7)
      /\ \A c \in Int : TimeOfDay(u) >= c * Minute <=> minute >= c
  BY <1>2, <1>5, <1>6, LocalTime
<1>9. w.start \in Int /\ w.end \in Int
  BY DEF Windows, TimesOfDay
<1>10. /\ Weekday(t) = Weekday(u)
       /\ TimeOfDay(t) >= w.start * Minute <=> TimeOfDay(u) >= w.start * Minute
       /\ TimeOfDay(t) >= w.end * Minute <=> TimeOfDay(u) >= w.end * Minute
  BY <1>7, <1>8, <1>9
<1> QED
  BY <1>10 DEF Covers, DayMatches

-----------------------------------------------------------------------------
(* The next opening.                                                       *)

(* Every week has a minute n to come with the local time that is wanted.   *)
LEMMA NextHit ==
  ASSUME NEW from \in Int, NEW wanted \in Int
  PROVE  \E n \in 0 .. 7 * Day - 1 : \E week \in Int : from + n = 7 * Day * week + wanted
<1> DEFINE W == 7 * Day
           a == wanted - from
           n == a % W
           week == 0 - (a \div W)
<1>1. W \in Nat \ {0}
  BY ClockFacts
<1>2. a \in Int
  OBVIOUS
<1>3. a \div W \in Int /\ n \in 0 .. W - 1 /\ a = W * (a \div W) + n
  BY <1>1, <1>2, Division
<1> HIDE DEF W, n
<1>4. from + n = wanted - W * (a \div W)
  BY <1>1, <1>3
<1> HIDE DEF a
<1>5. week \in Int /\ from + n = W * week + wanted
  BY <1>1, <1>3, <1>4
<1> HIDE DEF week
<1> QED
  BY <1>3, <1>5 DEF W

(* Within two weeks a window opens, also when the clocks skip it once.     *)
LEMMA WindowOpensSoon ==
  ASSUME NEW w \in Windows, NEW t \in Int
  PROVE  \E n \in 0 .. Horizon * Day - 1 : Covers(w, t + n * Minute)
<1> DEFINE W == 7 * Day
           h == Hour \div Minute
           m == t \div Minute
           r == t % Minute
           At(n) == t + n * Minute
<1>1. /\ Minute \in Nat \ {0} /\ Day \in Nat \ {0} /\ W \in Nat \ {0}
      /\ Hour = Minute * h /\ h \in Nat /\ Horizon \in Nat /\ Horizon >= 14
  BY ClockFacts
<1>2. m \in Int /\ r \in 0 .. Minute - 1 /\ t = Minute * m + r
  BY <1>1, Division
<1>3. PICK d \in w.days : d \in 1 .. 7
  <2>1. w.days \in DaySets /\ DaySets \subseteq (SUBSET Weekdays) \ {{}}
    BY CalendarAssumption DEF Windows
  <2>2. w.days \subseteq Weekdays /\ w.days # {}
    BY <2>1
  <2>3. \A d \in Weekdays : d \in 1 .. 7
    BY DEF Weekdays
  <2> QED
    BY <2>2, <2>3
<1>4. w.start \in Int
  BY DEF Windows, TimesOfDay
<1> DEFINE wanted == (d - 1) * Day + w.start
<1>5. wanted \in Int
  BY <1>1, <1>3, <1>4
<1> HIDE DEF h, m, r, wanted
<1>6. PICK p \in 0 .. W - 1 : \E week \in Int : m + p = W * week + wanted
  BY <1>2, <1>5, NextHit
<1>7. PICK q \in 0 .. W - 1 : \E week \in Int : (m + h) + q = W * week + wanted
  <2>1. m + h \in Int
    BY <1>1, <1>2
  <2> QED
    BY <1>5, <2>1, NextHit
<1>8. ASSUME NEW n \in Int
      PROVE  At(n) \in Int /\ At(n) = Minute * (m + n) + r
  BY <1>1, <1>2
<1> HIDE DEF W
<1>9. ASSUME NEW n \in Int, At(n) \notin Summer, \E week \in Int : m + n = W * week + wanted
      PROVE  Covers(w, At(n))
  <2>1. PICK week \in Int : m + n = W * week + wanted
    BY <1>9
  <2>2. At(n) \in Int /\ Local(At(n)) = Minute * (W * week + wanted) + r
    BY <1>8, <1>9, <2>1 DEF Local
  <2>3. W * week + wanted = 7 * Day * week + (d - 1) * Day + w.start
    BY <1>1, <1>3, <1>4 DEF W, wanted
  <2> HIDE DEF At
  <2> QED
    BY <1>2, <2>2, <2>3, OpensAtItsStart
<1>10. ASSUME NEW n \in Int, At(n) \in Summer, \E week \in Int : (m + h) + n = W * week + wanted
       PROVE  Covers(w, At(n))
  <2>1. PICK week \in Int : (m + h) + n = W * week + wanted
    BY <1>10
  <2>2. At(n) \in Int /\ Local(At(n)) = Minute * (m + n) + r + Hour
    BY <1>8, <1>10 DEF Local
  <2>3. Minute * (m + n) + r + Hour = Minute * ((m + h) + n) + r
    BY <1>1, <1>2
  <2>4. Local(At(n)) = Minute * (W * week + wanted) + r
    BY <2>1, <2>2, <2>3
  <2>5. W * week + wanted = 7 * Day * week + (d - 1) * Day + w.start
    BY <1>1, <1>3, <1>4 DEF W, wanted
  <2> HIDE DEF At
  <2> QED
    BY <1>2, <2>2, <2>4, <2>5, OpensAtItsStart
<1>11. ASSUME NEW from \in Int, NEW n \in Int, \E week \in Int : from + n = W * week + wanted
       PROVE  \E week \in Int : from + (n + W) = W * week + wanted
  <2>1. PICK week \in Int : from + n = W * week + wanted
    BY <1>11
  <2>2. week + 1 \in Int /\ from + (n + W) = W * (week + 1) + wanted
    BY <1>1, <1>5, <2>1
  <2> QED
    BY <2>2
<1>12. p \in Int /\ q \in Int /\ p + W \in Int /\ q + W \in Int /\ m + h \in Int
  BY <1>1, <1>2
<1>13. /\ \E week \in Int : m + (p + W) = W * week + wanted
       /\ \E week \in Int : (m + h) + (q + W) = W * week + wanted
  <2>1. \E week \in Int : m + (p + W) = W * week + wanted
    BY <1>2, <1>6, <1>11, <1>12
  <2>2. \E week \in Int : (m + h) + (q + W) = W * week + wanted
    BY <1>7, <1>11, <1>12
  <2> QED
    BY <2>1, <2>2
<1>14. ASSUME NEW a \in Int, NEW b \in Int, NEW c \in Int, a <= b, b <= c,
              At(a) \in Summer, At(c) \in Summer
       PROVE  At(b) \in Summer
  <2>1. a * Minute <= b * Minute /\ b * Minute <= c * Minute
    BY <1>1, <1>14
  <2>2. /\ At(a) \in Int /\ At(b) \in Int /\ At(c) \in Int
        /\ At(a) <= At(b) /\ At(b) <= At(c)
    BY <1>1, <2>1
  <2>3. At(b) \in At(a) .. At(c)
    BY <2>2
  <2> HIDE DEF At
  <2> QED
    BY <1>14, <2>3, SearchAssumption
<1> HIDE DEF At
<1>15. /\ Covers(w, At(p)) \/ At(p) \in Summer
       /\ Covers(w, At(p + W)) \/ At(p + W) \in Summer
       /\ Covers(w, At(q)) \/ At(q) \notin Summer
       /\ Covers(w, At(q + W)) \/ At(q + W) \notin Summer
  BY <1>6, <1>7, <1>9, <1>10, <1>12, <1>13
<1>16. ~(At(p) \in Summer /\ At(p + W) \in Summer
         /\ At(q) \notin Summer /\ At(q + W) \notin Summer)
  <2>1. p <= p + W /\ q <= q + W /\ q <= p + W /\ p <= q + W /\ (p <= q \/ q + W <= p + W)
    BY <1>1, <1>6, <1>7
  <2> QED
    BY <1>12, <1>14, <2>1
<1>17. /\ p \in 0 .. Horizon * Day - 1 /\ q \in 0 .. Horizon * Day - 1
       /\ p + W \in 0 .. Horizon * Day - 1 /\ q + W \in 0 .. Horizon * Day - 1
  <2>1. Horizon * Day \in Int /\ Horizon * Day >= W + W
    <3>1. Horizon * Day >= 14 * Day /\ Horizon * Day \in Int
      BY <1>1
    <3> QED
      BY <1>1, <3>1 DEF W
  <2> QED
    BY <1>1, <1>6, <1>7, <2>1
<1> QED
  BY <1>15, <1>16, <1>17 DEF At

(* What the search finds.                                                  *)
LEMMA NextOpeningFacts ==
  ASSUME NEW ws \in Seq(Windows), ws # <<>>, NEW t \in Int
  PROVE  /\ NextOpening(ws, t) # Never
         /\ IsOpen(ws, NextOpening(ws, t))
         /\ \A u \in t .. NextOpening(ws, t) - Minute : ~IsOpen(ws, u)
<1> DEFINE open == {n \in 0 .. Horizon * Day - 1 : IsOpen(ws, t + n * Minute)}
           N == CHOOSE n \in open : \A m \in open : n <= m
<1>1. Minute \in Nat \ {0} /\ Horizon * Day \in Int
  BY ClockFacts
<1>2. open # {}
  <2>1. 1 \in DOMAIN ws /\ ws[1] \in Windows
    OBVIOUS
  <2>2. PICK n \in 0 .. Horizon * Day - 1 : Covers(ws[1], t + n * Minute)
    BY <2>1, WindowOpensSoon
  <2> QED
    BY <2>1, <2>2 DEF IsOpen
<1>3. open \in SUBSET Nat
  BY <1>1
<1>4. N \in open /\ \A m \in open : N <= m
  <2> HIDE DEF open
  <2> QED
    BY <1>2, <1>3, LeastNatural
<1>5. NextOpening(ws, t) = t + Minute * N
  BY <1>2 DEF NextOpening
<1> HIDE DEF N
<1>6. N \in Nat /\ N \in 0 .. Horizon * Day - 1 /\ IsOpen(ws, t + N * Minute)
  BY <1>1, <1>4
<1>7. t + Minute * N = t + N * Minute /\ t + Minute * N \in Int
  BY <1>1, <1>6
<1>8. NextOpening(ws, t) # Never
  BY <1>5, <1>7, CalendarAssumption
<1>9. ASSUME NEW u \in t .. NextOpening(ws, t) - Minute, IsOpen(ws, u)
      PROVE  FALSE
  <2> DEFINE a == t \div Minute
             b == u \div Minute
             n == b - a
  <2>1. u \in Int /\ t <= u /\ u <= t + Minute * N - Minute
    <3> DEFINE found == NextOpening(ws, t)
    <3>1. found \in Int /\ found = t + Minute * N /\ Minute \in Int
      BY <1>1, <1>5, <1>7
    <3> HIDE DEF found
    <3>2. u \in t .. found - Minute
      BY DEF found
    <3>3. Minute * N \in Int
      BY <1>1, <1>6
    <3> QED
      BY <3>1, <3>2, <3>3
  <2>2. /\ a \in Int /\ t % Minute \in 0 .. Minute - 1 /\ t = Minute * a + (t % Minute)
        /\ b \in Int /\ u % Minute \in 0 .. Minute - 1 /\ u = Minute * b + (u % Minute)
    BY <1>1, <2>1, Division
  <2> HIDE DEF a, b
  <2>3. n \in Int /\ t + n * Minute \in Int /\ t + n * Minute = Minute * b + (t % Minute)
    BY <1>1, <2>2
  <2>4. (t + n * Minute) \div Minute = b
    BY <1>1, <2>2, <2>3, DivisionIsUnique
  <2>9. Minute * n = u - (u % Minute) - (t - (t % Minute))
    <3> DEFINE p == Minute * a
               q == Minute * b
    <3>1. p \in Int /\ q \in Int /\ u % Minute \in Int /\ t % Minute \in Int
      BY <1>1, <2>2
    <3>2. Minute * n = q - p
      <4>1. Minute \in Int /\ a \in Int /\ b \in Int
        BY <1>1, <2>2
      <4> QED  BY <4>1, Distributes
    <3>3. u = q + (u % Minute) /\ t = p + (t % Minute)
      BY <2>2
    <3> HIDE DEF p, q, n
    <3> QED  BY <3>1, <3>2, <3>3
  <2>5. n >= 0
    <3>1. Minute * n = u - (u % Minute) - (t - (t % Minute))
      BY <2>9
    <3>2. Minute * n > 0 - Minute
      BY <1>1, <2>1, <2>2, <3>1
    <3>3. n <= -1 => Minute * n <= Minute * (-1)
      BY <1>1, <2>3
    <3> QED
      BY <1>1, <2>3, <3>2, <3>3
  <2>6. n <= N - 1
    <3>1. Minute * n = u - (u % Minute) - (t - (t % Minute))
      BY <2>9
    <3>2. Minute * n < Minute * N
      <4> DEFINE x == Minute * n
                 y == Minute * N
      <4>1. x \in Int /\ y \in Int /\ u <= t + y - Minute
        BY <1>1, <1>6, <2>1, <2>3
      <4>2. t % Minute < Minute /\ u % Minute >= 0 /\ t % Minute \in Int /\ u % Minute \in Int
        BY <1>1, <2>2
      <4>3. x = u - (u % Minute) - (t - (t % Minute))
        BY <3>1
      <4> HIDE DEF x, y
      <4>4. x < y
        BY <1>1, <2>1, <4>1, <4>2, <4>3
      <4> QED
        BY <4>4 DEF x, y
    <3>3. n >= N => Minute * n >= Minute * N
      BY <1>1, <1>6, <2>3
    <3> QED
      BY <1>1, <1>6, <2>3, <3>2, <3>3
  <2>7. IsOpen(ws, t + n * Minute)
    <3>1. PICK i \in DOMAIN ws : Covers(ws[i], u)
      BY <1>9 DEF IsOpen
    <3>2. ws[i] \in Windows /\ u \div Minute = (t + n * Minute) \div Minute
      BY <2>4 DEF b
    <3>3. Covers(ws[i], t + n * Minute)
      BY <2>1, <2>3, <3>1, <3>2, MinuteIsWhole
    <3> QED
      BY <3>3 DEF IsOpen
  <2>8. n \in open
    BY <1>1, <1>6, <2>3, <2>5, <2>6, <2>7
  <2> HIDE DEF open, n
  <2> QED
    BY <1>4, <1>6, <2>3, <2>6, <2>8
<1> QED
  BY <1>5, <1>6, <1>7, <1>8, <1>9

(* What is scheduled was found under the policy in force.                  *)
ScheduleInv ==
  /\ now \in Int /\ windows \in Seq(Windows)
  /\ scheduled # None =>
       /\ windows # <<>> /\ scheduled.at \in Int
       /\ scheduled.for = NextOpening(windows, scheduled.at)

LEMMA PoliciesAreWindows == Policies \subseteq Seq(Windows)
BY RunAssumption, Zenon

LEMMA ScheduleInit == Init => ScheduleInv
BY PoliciesAreWindows DEF Init, ScheduleInv

LEMMA ScheduleStep == ScheduleInv /\ [Next]_vars => ScheduleInv'
<1> SUFFICES ASSUME ScheduleInv, [Next]_vars  PROVE ScheduleInv'
  OBVIOUS
<1>1. CASE UNCHANGED vars
  BY <1>1 DEF vars, clockVars, taskVars, ScheduleInv
<1>2. CASE TaskWorks \/ MessageWorks \/ MessageStarts \/ MessageEnds \/ SetDefault
  BY <1>2 DEF TaskWorks, MessageWorks, MessageStarts, MessageEnds, SetDefault, clockVars,
              taskVars, ScheduleInv
<1>3. CASE Claim \/ Forgets \/ Completes \/ Inspected \/ Fails
  BY <1>3 DEF Claim, Forgets, Completes, Inspected, Fails, Ends, clockVars, ScheduleInv
<1>4. CASE Dispatch
  BY <1>4 DEF Dispatch, clockVars, ScheduleInv
<1>5. ASSUME WindowClosed, Defer, UNCHANGED clockVars
      PROVE  ScheduleInv'
  BY <1>5 DEF WindowClosed, Defer, clockVars, ScheduleInv
<1>6. CASE RateLimited
  <2>1. UNCHANGED clockVars
    BY <1>6 DEF RateLimited
  <2>2. (WindowClosed /\ Defer) \/ UNCHANGED scheduled
    BY <1>6 DEF RateLimited, Ends
  <2> QED
    BY <1>5, <2>1, <2>2 DEF clockVars, ScheduleInv
<1>7. CASE Wakes
  <2>1. UNCHANGED clockVars
    BY <1>7 DEF Wakes
  <2>2. (WindowClosed /\ Defer) \/ UNCHANGED scheduled
    BY <1>7 DEF Wakes
  <2> QED
    BY <1>5, <2>1, <2>2 DEF clockVars, ScheduleInv
<1>8. CASE Tick
  BY <1>8 DEF Tick, taskVars, ScheduleInv
<1>9. CASE SetPolicy
  BY <1>9, PoliciesAreWindows DEF SetPolicy, ScheduleInv
<1> QED
  BY <1>1, <1>2, <1>3, <1>4, <1>6, <1>7, <1>8, <1>9 DEF Next

(* scheduled_for of a deferred task is an instant at which its window is   *)
(* open, less than a minute after it opens, whatever the windows, their    *)
(* days and the clock.                                                     *)
THEOREM ScheduledFits == Spec => []ScheduledIsTheOpening
<1>1. ScheduleInv => ScheduledIsTheOpening
  <2> SUFFICES ASSUME ScheduleInv, scheduled # None
               PROVE  /\ scheduled.for # Never
                      /\ IsOpen(windows, scheduled.for)
                      /\ \A t \in scheduled.at .. scheduled.for - Minute : ~IsOpen(windows, t)
    BY DEF ScheduledIsTheOpening
  <2>1. /\ windows \in Seq(Windows) /\ windows # <<>> /\ scheduled.at \in Int
        /\ scheduled.for = NextOpening(windows, scheduled.at)
    BY DEF ScheduleInv
  <2> QED
    BY <2>1, NextOpeningFacts
<1> QED
  BY ScheduleInit, ScheduleStep, <1>1, PTL DEF Spec

=============================================================================
