---------------------------- MODULE SessionProofs ----------------------------
(***************************************************************************)
(* The runs of one session, for any tasks, messages, attempts and crashes: *)
(* its status, what its last run left behind, and which conversation the   *)
(* next one resumes.                                                       *)
(***************************************************************************)
EXTENDS SessionRuns, TLAPS

Conversations == {NoConversation} \cup [of : Runs, at : Nat, job : {"work", "sync"}]

RunStates ==
  [pc : ActivePcs \cup {"none", "waiting", "done"}, attempt : Nat, mode : {"new", "resume"},
   conv : Conversations, known : BOOLEAN, hooked : BOOLEAN, saved : Conversations,
   earlier : Conversations]

TypeInv ==
  /\ lastConv \in Conversations
  /\ run \in [Runs -> RunStates]

(* A status "running" is accounted for by a run that will replace it; one  *)
(* in auto-sync may not, so it does not count.                             *)
LoggedInv ==
  /\ status = IF indexed THEN logged ELSE "created"
  /\ logged = "running" =>
       silent \/ \E r \in Runs : run[r].pc \in {"begin", "primary", "backoff"}

(* While no two runs have overlapped, auto-sync holds the id that it will  *)
(* restore, and a retry finds the id of the attempt before it.             *)
Alone(r) ==
  /\ run[r].pc = "primary" => run[r].conv.job = "work"
  /\ run[r].pc = "sync" => run[r].saved.job # "sync"
  /\ run[r].pc \in {"primary", "backoff"} /\ run[r].earlier # NoConversation =>
       lastConv = run[r].earlier
  /\ run[r].pc = "primary" /\ run[r].earlier # NoConversation =>
       run[r].conv = run[r].earlier
  /\ run[r].pc \in {"none", "waiting", "begin"} => run[r].earlier = NoConversation

AloneInv ==
  /\ ~indexed => Active = {} /\ lastConv = NoConversation
  /\ ~overlapped =>
       /\ \A r, q \in Active : r = q
       /\ lastConv.job = "sync" => \E r \in Runs : run[r].pc = "sync"
       /\ \A r \in Runs : Alone(r)

Inv == TypeInv /\ LoggedInv /\ AloneInv
-----------------------------------------------------------------------------
(* What a launcher reports of a session that has run is an idle or an      *)
(* error.                                                                  *)
LEMMA ReportsAreFinal == LauncherReports \subseteq {"idle", "error"}
  BY DEF LauncherReports, Outcomes, Outcome

LEMMA NotRunIsState == NotRun \in RunStates /\ Ended \in RunStates
  BY DEF NotRun, Ended, RunStates, Conversations, ActivePcs

LEMMA LaunchIsConversation ==
  ASSUME NEW r \in Runs, NEW n \in Nat, NEW job \in {"work", "sync"}
  PROVE  Launch(r, n, job) \in Conversations /\ Launch(r, n, job).job = job
  BY DEF Launch, Conversations

-----------------------------------------------------------------------------
(* Types.                                                                  *)

LEMMA TypeBegin ==
  ASSUME TypeInv, NEW r \in Runs, NEW n \in Nat, NEW resume \in BOOLEAN,
         BeginWith(r, n, resume)
  PROVE  TypeInv'
<1>1. CASE provider = "unknown"
  BY <1>1, NotRunIsState DEF TypeInv, BeginWith
<1>2. CASE provider # "unknown"
  <2>1. Launch(r, n, "work") \in Conversations
    BY LaunchIsConversation
  <2> DEFINE conv == IF resume /\ lastConv # NoConversation
                     THEN lastConv ELSE Launch(r, n, "work")
  <2>2. conv \in Conversations
    BY <2>1 DEF TypeInv
  <2>3. run' = [run EXCEPT ![r].pc = "primary", ![r].attempt = n, ![r].known = FALSE,
                           ![r].hooked = FALSE, ![r].conv = conv]
    BY <1>2 DEF BeginWith
  <2>4. run[r] \in RunStates
    BY DEF TypeInv
  <2> HIDE DEF conv
  <2>5. run' \in [Runs -> RunStates]
    BY <2>2, <2>3, <2>4 DEF TypeInv, RunStates, ActivePcs
  <2> QED  BY <1>2, <2>5 DEF TypeInv, BeginWith
<1> QED  BY <1>1, <1>2

LEMMA TypeBetween ==
  ASSUME TypeInv, NEW t \in Runs, NEW next \in {"waiting", "done", "backoff"}
  PROVE  Between(t, next) \in RunStates
<1>1. run[t] \in RunStates
  BY DEF TypeInv
<1>2. NoConversation \in Conversations
  BY DEF Conversations
<1> QED  BY <1>1, <1>2, NotRunIsState DEF Between, RunStates, ActivePcs

LEMMA TypeAfterPrimary ==
  ASSUME TypeInv, NEW r \in Runs, lastConv' \in Conversations, AfterPrimary(r)
  PROVE  TypeInv'
<1>1. run[r] \in RunStates
  BY DEF TypeInv
<1>2. Launch(r, run[r].attempt, "sync") \in Conversations
  BY <1>1, LaunchIsConversation DEF RunStates
<1>3. run' \in [Runs -> RunStates]
  BY <1>1, <1>2, NotRunIsState DEF TypeInv, AfterPrimary, RunStates, ActivePcs
<1> QED  BY <1>3 DEF TypeInv

LEMMA TypeStep == TypeInv /\ [Next]_vars => TypeInv'
<1> SUFFICES ASSUME TypeInv, [Next]_vars  PROVE TypeInv'
  OBVIOUS
<1>0. \A r \in Runs : run[r] \in RunStates
  BY DEF TypeInv
<1>1. CASE UNCHANGED vars
  BY <1>1 DEF vars, TypeInv
<1>2. ASSUME NEW m \in Messages, SendMessage(m)  PROVE TypeInv'
  <2>1. m \in Runs
    BY DEF Runs
  <2>2. run' = [run EXCEPT ![m].pc = "begin", ![m].attempt = 1]
    BY <1>2 DEF SendMessage
  <2>3. run' \in [Runs -> RunStates]
    <3> DEFINE started == [run[m] EXCEPT !.pc = "begin", !.attempt = 1]
    <3>1. run' = [run EXCEPT ![m] = started]
      BY <2>1, <2>2 DEF TypeInv
    <3>2. started \in RunStates
      BY <1>0, <2>1 DEF RunStates, ActivePcs
    <3> HIDE DEF started
    <3> QED  BY <3>1, <3>2 DEF TypeInv
  <2> QED  BY <1>2, <2>3 DEF SendMessage, TypeInv
<1>3. ASSUME NEW t \in Tasks, StartTask(t)  PROVE TypeInv'
  <2>1. t \in Runs
    BY DEF Runs
  <2>2. PICK m \in {"new", "resume"} :
          run' = [run EXCEPT ![t].pc = "begin", ![t].attempt = @ + 1, ![t].mode = m]
    BY <1>0, <1>3, <2>1 DEF StartTask, RunStates
  <2> QED  BY <1>0, <1>3, <2>1, <2>2 DEF StartTask, TypeInv, RunStates, ActivePcs
<1>4. ASSUME NEW t \in Tasks, TaskLimited(t)  PROVE TypeInv'
  <2>1. t \in Runs
    BY DEF Runs
  <2>2. PICK next \in {"waiting", "done", "backoff"} :
          run' = [run EXCEPT ![t] = Between(t, next)]
    BY <1>4 DEF TaskLimited
  <2>3. lastConv' \in Conversations
    BY <1>0, <1>4, <2>1 DEF TaskLimited, KeepId, TypeInv, RunStates
  <2> QED  BY <2>1, <2>2, <2>3, TypeBetween DEF TypeInv
<1>5. ASSUME NEW t \in Tasks, BackoffEnds(t)  PROVE TypeInv'
  <2>1. t \in Runs
    BY DEF Runs
  <2>2. CASE run' = [run EXCEPT ![t] = Between(t, "waiting")] /\ UNCHANGED lastConv
    BY <2>1, <2>2, TypeBetween DEF TypeInv
  <2>3. CASE BeginWith(t, run[t].attempt + 1, TRUE)
    <3>1. run[t].attempt + 1 \in Nat
      BY <1>0, <2>1 DEF RunStates
    <3> QED  BY <2>1, <2>3, <3>1, TypeBegin
  <2> QED  BY <1>5, <2>2, <2>3 DEF BackoffEnds
<1>6. ASSUME NEW r \in Runs, Begin(r)  PROVE TypeInv'
  <2>1. run[r].attempt \in Nat
    BY <1>0 DEF RunStates
  <2> QED  BY <1>6, <2>1, TypeBegin DEF Begin
<1>7. ASSUME NEW r \in Runs, Capture(r)  PROVE TypeInv'
  BY <1>0, <1>7 DEF Capture, TypeInv, RunStates
<1>8. ASSUME NEW r \in Runs, SessionStartHook(r)  PROVE TypeInv'
  BY <1>0, <1>8 DEF SessionStartHook, TypeInv, RunStates
<1>9. ASSUME NEW r \in Runs, PrimaryReturns(r)  PROVE TypeInv'
  <2>1. lastConv' \in Conversations
    BY <1>0, <1>9 DEF PrimaryReturns, KeepId, TypeInv, RunStates
  <2> QED  BY <1>9, <2>1, TypeAfterPrimary DEF PrimaryReturns
<1>10. ASSUME NEW r \in Runs, PrimaryRaises(r)  PROVE TypeInv'
  <2>1. lastConv' \in Conversations
    BY <1>10 DEF PrimaryRaises, TypeInv
  <2> QED  BY <1>10, <2>1, TypeAfterPrimary DEF PrimaryRaises
<1>11. ASSUME NEW r \in Runs, SyncEnds(r)  PROVE TypeInv'
  BY <1>0, <1>11, NotRunIsState DEF SyncEnds, TypeInv, RunStates
<1>12. CASE Delete
  BY <1>12, NotRunIsState DEF Delete, TypeInv
<1>13. CASE Crash
  BY <1>13, NotRunIsState DEF Crash, TypeInv, Conversations
<1>14. CASE Rehydrate
  BY <1>14 DEF Rehydrate, TypeInv
<1> QED  BY <1>1, <1>2, <1>3, <1>4, <1>5, <1>6, <1>7, <1>8, <1>9, <1>10, <1>11, <1>12,
            <1>13, <1>14 DEF Next
-----------------------------------------------------------------------------
(* The status.                                                             *)

LEMMA LoggedBegin ==
  ASSUME TypeInv, LoggedInv, indexed, NEW r \in Runs, NEW n \in Nat, NEW resume \in BOOLEAN,
         BeginWith(r, n, resume)
  PROVE  LoggedInv'
<1>1. logged' = "running" /\ status' = "running" /\ indexed'
  BY DEF BeginWith, Report
<1>2. CASE provider = "unknown"
  <2>1. silent'
    BY <1>2 DEF BeginWith, Observe
  <2> QED  BY <1>1, <2>1 DEF LoggedInv
<1>3. CASE provider # "unknown"
  <2>1. run'[r].pc = "primary"
    BY <1>3 DEF BeginWith, TypeInv, RunStates
  <2> QED  BY <1>1, <2>1 DEF LoggedInv
<1> QED  BY <1>2, <1>3

LEMMA LoggedStep == TypeInv /\ LoggedInv /\ [Next]_vars => LoggedInv'
<1> SUFFICES ASSUME TypeInv, LoggedInv, [Next]_vars  PROVE LoggedInv'
  OBVIOUS
<1>0. \A r \in Runs : run[r] \in RunStates
  BY DEF TypeInv
<1>1. CASE UNCHANGED vars
  BY <1>1 DEF vars, LoggedInv
<1>2. ASSUME NEW m \in Messages, SendMessage(m)  PROVE LoggedInv'
  <2>1. m \in Runs
    BY DEF Runs
  <2>2. run'[m].pc = "begin"
    BY <1>0, <1>2, <2>1 DEF SendMessage, TypeInv, RunStates
  <2> QED  BY <1>2, <2>1, <2>2 DEF SendMessage, LoggedInv
<1>3. ASSUME NEW t \in Tasks, StartTask(t)  PROVE LoggedInv'
  <2>1. t \in Runs
    BY DEF Runs
  <2>2. run'[t].pc = "begin"
    BY <1>0, <1>3, <2>1 DEF StartTask, TypeInv, RunStates
  <2> QED  BY <1>3, <2>1, <2>2 DEF StartTask, LoggedInv
<1>4. ASSUME NEW t \in Tasks, TaskLimited(t)  PROVE LoggedInv'
  <2>1. t \in Runs
    BY DEF Runs
  <2>2. PICK next \in {"waiting", "done", "backoff"} :
          /\ run' = [run EXCEPT ![t] = Between(t, next)]
          /\ silent' = (silent \/ next # "backoff")
    BY <1>4 DEF TaskLimited, Observe
  <2>3. next = "backoff" => run'[t].pc = "backoff"
    BY <2>1, <2>2 DEF Between, NotRun, TypeInv
  <2> QED  BY <1>4, <2>1, <2>2, <2>3 DEF TaskLimited, NoReport, LoggedInv
<1>5. ASSUME NEW t \in Tasks, BackoffEnds(t)  PROVE LoggedInv'
  <2>1. t \in Runs /\ indexed
    BY <1>5 DEF Runs, BackoffEnds, Up
  <2>2. CASE Observe(TRUE) /\ NoReport /\ UNCHANGED indexed
    BY <2>2 DEF Observe, NoReport, LoggedInv
  <2>3. CASE BeginWith(t, run[t].attempt + 1, TRUE)
    <3>1. run[t].attempt + 1 \in Nat
      BY <1>0, <2>1 DEF RunStates
    <3> QED  BY <2>1, <2>3, <3>1, LoggedBegin
  <2> QED  BY <1>5, <2>2, <2>3 DEF BackoffEnds
<1>6. ASSUME NEW r \in Runs, Begin(r)  PROVE LoggedInv'
  <2>1. run[r].attempt \in Nat /\ indexed
    BY <1>0, <1>6 DEF RunStates, Begin, Up
  <2> QED  BY <1>6, <2>1, LoggedBegin DEF Begin
<1>7. ASSUME NEW r \in Runs, Capture(r) \/ SessionStartHook(r)  PROVE LoggedInv'
  <2>1. \A q \in Runs : run'[q].pc = run[q].pc
    BY <1>0, <1>7 DEF Capture, SessionStartHook, TypeInv, RunStates
  <2> QED  BY <1>7, <2>1 DEF Capture, SessionStartHook, LoggedInv
<1>8. ASSUME NEW r \in Runs, PrimaryReturns(r)  PROVE LoggedInv'
  <2>1. logged' \in {"idle", "error"} /\ status' = logged' /\ indexed' = indexed /\ indexed
    BY <1>8, ReportsAreFinal DEF PrimaryReturns, Report, Up
  <2> QED  BY <2>1 DEF LoggedInv
<1>9. ASSUME NEW r \in Runs, PrimaryRaises(r)  PROVE LoggedInv'
  <2>1. logged' # "running" /\ status' = logged' /\ indexed' = indexed /\ indexed
    BY <1>9 DEF PrimaryRaises, ReportErrorIfRunning, Report, NoReport, Up, LoggedInv
  <2> QED  BY <2>1 DEF LoggedInv
<1>10. ASSUME NEW r \in Runs, SyncEnds(r)  PROVE LoggedInv'
  <2>1. indexed /\ indexed'
    BY <1>10 DEF SyncEnds, Up
  <2>2. CASE \E s \in LauncherReports : Report(s) /\ Observe(FALSE)
    BY <2>1, <2>2, ReportsAreFinal DEF Report, LoggedInv
  <2>3. CASE NoReport /\ Observe(silent)
    <3>1. \A q \in Runs : run[q].pc \in {"begin", "primary", "backoff"} => run'[q].pc = run[q].pc
      BY <1>10 DEF SyncEnds, TypeInv
    <3> QED  BY <2>1, <2>3, <3>1 DEF NoReport, Observe, LoggedInv
  <2> QED  BY <1>10, <2>2, <2>3 DEF SyncEnds
<1>11. CASE Delete
  BY <1>11 DEF Delete, Report, Up, LoggedInv
<1>12. CASE Crash
  <2>1. \A q \in Runs : run[q].pc \in {"begin", "primary", "backoff"} => silent'
    BY <1>12 DEF Crash, Active, ActivePcs
  <2> QED  BY <1>12, <2>1 DEF Crash, LoggedInv
<1>13. CASE Rehydrate
  BY <1>13 DEF Rehydrate, LoggedInv
<1> QED  BY <1>1, <1>2, <1>3, <1>4, <1>5, <1>6, <1>7, <1>8, <1>9, <1>10, <1>11, <1>12,
            <1>13 DEF Next

-----------------------------------------------------------------------------
(* Conversations.                                                          *)

(* A step of one run leaves the others alone: it changes the id only when  *)
(* it was the active one.                                                  *)
LEMMA AloneSuffices ==
  ASSUME TypeInv, AloneInv, indexed, indexed', NEW r \in Runs, Observe(silent'),
         \A q \in Runs \ {r} : run'[q] = run[q],
         r \in Active \/ lastConv' = lastConv,
         ~overlapped' => Alone(r)',
         ~overlapped' /\ lastConv'.job = "sync" => run'[r].pc = "sync" \/ r \notin Active
  PROVE  AloneInv'
<1>1. SUFFICES ASSUME ~overlapped'
               PROVE  /\ \A p, q \in Active' : p = q
                      /\ lastConv'.job = "sync" => \E q \in Runs : run'[q].pc = "sync"
                      /\ \A q \in Runs : Alone(q)'
  BY DEF AloneInv
<1>2. ~overlapped /\ \A p, q \in Runs :
                       run'[p].pc \in ActivePcs /\ run'[q].pc \in ActivePcs => p = q
  BY <1>1 DEF Observe
<1>3. \A p, q \in Active' : p = q
  BY <1>2 DEF Active
<1>4. ASSUME NEW q \in Runs  PROVE Alone(q)'
  <2>1. CASE q = r
    BY <1>1, <2>1
  <2>2. CASE q # r /\ lastConv' = lastConv
    BY <1>2, <2>2 DEF AloneInv, Alone
  <2>3. CASE q # r /\ r \in Active
    <3>1. run[q].pc \notin ActivePcs
      BY <1>2, <2>3 DEF AloneInv, Active
    <3>2. run'[q] = run[q]
      BY <2>3
    <3> QED  BY <1>2, <3>1, <3>2 DEF AloneInv, Alone, ActivePcs
  <2> QED  BY <2>1, <2>2, <2>3
<1>5. ASSUME lastConv'.job = "sync"  PROVE \E q \in Runs : run'[q].pc = "sync"
  <2>1. CASE run'[r].pc = "sync"
    BY <2>1
  <2>2. CASE r \notin Active
    <3>1. PICK q \in Runs : run[q].pc = "sync"
      BY <1>2, <1>5, <2>2 DEF AloneInv
    <3>2. q # r
      BY <2>2, <3>1 DEF Active, ActivePcs
    <3> QED  BY <3>1, <3>2
  <2> QED  BY <1>1, <1>5, <2>1, <2>2
<1> QED  BY <1>3, <1>4, <1>5

LEMMA AloneBegin ==
  ASSUME TypeInv, AloneInv, indexed, NEW r \in Runs, NEW n \in Nat, NEW resume \in BOOLEAN,
         run[r].pc \in {"begin", "backoff"}, run[r].earlier # NoConversation => resume,
         BeginWith(r, n, resume)
  PROVE  AloneInv'
<1>1. /\ indexed' /\ r \in Active /\ lastConv' = lastConv /\ Observe(silent')
      /\ \A q \in Runs \ {r} : run'[q] = run[q]
  BY DEF BeginWith, Active, ActivePcs, Observe, TypeInv
<1>2. ASSUME ~overlapped'  PROVE ~overlapped /\ lastConv.job # "sync"
  <2>1. ~overlapped
    BY <1>1, <1>2 DEF Observe
  <2>2. \A q \in Runs : run[q].pc = "sync" => q = r
    BY <1>1, <2>1 DEF AloneInv, Active, ActivePcs
  <2> QED  BY <2>1, <2>2 DEF AloneInv
<1>3. CASE provider = "unknown"
  <2>1. run'[r] = Ended
    BY <1>3 DEF BeginWith, TypeInv
  <2>2. Alone(r)'
    BY <2>1 DEF Alone, Ended, NotRun
  <2> QED  BY <1>1, <1>2, <2>2, AloneSuffices
<1>4. CASE provider # "unknown"
  <2> DEFINE conv == IF resume /\ lastConv # NoConversation
                     THEN lastConv ELSE Launch(r, n, "work")
  <2>1. run[r] \in RunStates
    BY DEF TypeInv
  <2>2. /\ run'[r].pc = "primary" /\ run'[r].conv = conv
        /\ run'[r].earlier = run[r].earlier
    BY <1>4, <2>1 DEF BeginWith, TypeInv, RunStates
  <2>3. ASSUME ~overlapped'  PROVE Alone(r)'
    <3>1. conv.job = "work"
      BY <1>2, <2>3, LaunchIsConversation DEF TypeInv, Conversations
    <3>2. run[r].earlier # NoConversation => lastConv = run[r].earlier
      BY <1>2, <2>3 DEF AloneInv, Alone
    <3> QED  BY <1>1, <2>2, <3>1, <3>2 DEF Alone
  <2> QED  BY <1>1, <1>2, <2>3, AloneSuffices
<1> QED  BY <1>3, <1>4

LEMMA AloneAfterPrimary ==
  ASSUME TypeInv, AloneInv, indexed, indexed', NEW r \in Runs, run[r].pc = "primary",
         lastConv' \in {lastConv, run[r].conv}, AfterPrimary(r)
  PROVE  AloneInv'
<1>1. run[r] \in RunStates /\ r \in Active /\ Observe(silent')
  BY DEF TypeInv, Active, ActivePcs, AfterPrimary, Observe
<1>2. \A q \in Runs \ {r} : run'[q] = run[q]
  BY DEF AfterPrimary, TypeInv
<1>3. ASSUME ~overlapped'  PROVE lastConv'.job # "sync"
  <2>1. ~overlapped
    BY <1>1, <1>3 DEF Observe
  <2>2. \A q \in Runs : run[q].pc # "sync"
    BY <1>1, <2>1 DEF AloneInv, Active, ActivePcs
  <2> QED  BY <2>1, <2>2 DEF AloneInv, Alone
<1>4. CASE autoSync[r]
  <2>1. run'[r].pc = "sync" /\ run'[r].saved = lastConv'
    BY <1>1, <1>4 DEF AfterPrimary, TypeInv, RunStates
  <2>2. ~overlapped' => Alone(r)'
    BY <1>3, <2>1 DEF Alone
  <2> QED  BY <1>1, <1>2, <1>3, <2>2, AloneSuffices
<1>5. CASE ~autoSync[r]
  <2>1. run'[r] = Ended
    BY <1>5 DEF AfterPrimary, TypeInv
  <2>2. Alone(r)'
    BY <2>1 DEF Alone, Ended, NotRun
  <2> QED  BY <1>1, <1>2, <1>3, <2>2, AloneSuffices
<1> QED  BY <1>4, <1>5

LEMMA AloneStep == TypeInv /\ AloneInv /\ [Next]_vars => AloneInv'
<1> SUFFICES ASSUME TypeInv, AloneInv, [Next]_vars  PROVE AloneInv'
  OBVIOUS
<1>0. \A r \in Runs : run[r] \in RunStates
  BY DEF TypeInv
<1>1. CASE UNCHANGED vars
  BY <1>1 DEF vars, AloneInv, Active, Alone
<1>2. ASSUME NEW m \in Messages, SendMessage(m)  PROVE AloneInv'
  <2>1. /\ m \in Runs /\ indexed /\ indexed' /\ lastConv' = lastConv
        /\ m \notin Active /\ Observe(silent')
    BY <1>2 DEF Runs, SendMessage, Up, Active, ActivePcs, Observe
  <2>2. run'[m].pc = "begin" /\ run'[m].earlier = run[m].earlier
    BY <1>0, <1>2, <2>1 DEF SendMessage, TypeInv, RunStates
  <2>3. \A q \in Runs \ {m} : run'[q] = run[q]
    BY <1>2 DEF SendMessage, TypeInv
  <2>4. ASSUME ~overlapped'  PROVE Alone(m)'
    BY <1>2, <2>1, <2>2, <2>4 DEF Observe, AloneInv, Alone, SendMessage
  <2> QED  BY <2>1, <2>3, <2>4, AloneSuffices
<1>3. ASSUME NEW t \in Tasks, StartTask(t)  PROVE AloneInv'
  <2>1. /\ t \in Runs /\ indexed /\ indexed' /\ lastConv' = lastConv
        /\ t \notin Active /\ Observe(silent')
    BY <1>3 DEF Runs, StartTask, Up, Active, ActivePcs, Observe
  <2>2. run'[t].pc = "begin" /\ run'[t].earlier = run[t].earlier
    BY <1>0, <1>3, <2>1 DEF StartTask, TypeInv, RunStates
  <2>3. \A q \in Runs \ {t} : run'[q] = run[q]
    BY <1>3 DEF StartTask, TypeInv
  <2>4. ASSUME ~overlapped'  PROVE Alone(t)'
    BY <1>3, <2>1, <2>2, <2>4 DEF Observe, AloneInv, Alone, StartTask
  <2> QED  BY <2>1, <2>3, <2>4, AloneSuffices
<1>4. ASSUME NEW t \in Tasks, TaskLimited(t)  PROVE AloneInv'
  <2>1. PICK next \in {"waiting", "done", "backoff"} :
          run' = [run EXCEPT ![t] = Between(t, next)]
    BY <1>4 DEF TaskLimited
  <2>2. /\ t \in Runs /\ indexed /\ indexed' /\ t \in Active /\ run[t].pc = "primary"
        /\ Observe(silent') /\ lastConv' = IF run[t].known THEN run[t].conv ELSE lastConv
    BY <1>4 DEF Runs, TaskLimited, Up, Active, ActivePcs, Observe, KeepId
  <2>3. run'[t] = Between(t, next) /\ \A q \in Runs \ {t} : run'[q] = run[q]
    BY <2>1, <2>2 DEF TypeInv
  <2>4. /\ run'[t].pc = next
        /\ run'[t].earlier = IF next \in {"waiting", "done"} THEN NoConversation
                             ELSE IF run[t].known THEN run[t].conv ELSE run[t].earlier
    BY <2>3 DEF Between, Ended, NotRun
  <2>5. ASSUME ~overlapped'  PROVE Alone(t)' /\ lastConv'.job # "sync"
    <3>1. ~overlapped
      BY <2>2, <2>5 DEF Observe
    <3>2. \A q \in Runs : run[q].pc # "sync"
      BY <2>2, <3>1 DEF AloneInv, Active, ActivePcs
    <3>3. Alone(t) /\ lastConv.job # "sync"
      BY <2>2, <3>1, <3>2 DEF AloneInv
    <3> QED  BY <2>2, <2>4, <3>3 DEF Alone
  <2> QED  BY <2>2, <2>3, <2>5, AloneSuffices
<1>5. ASSUME NEW t \in Tasks, BackoffEnds(t)  PROVE AloneInv'
  <2>1. /\ t \in Runs /\ indexed /\ t \in Active /\ run[t].pc = "backoff"
    BY <1>5 DEF Runs, BackoffEnds, Up, Active, ActivePcs
  <2>2. CASE /\ run' = [run EXCEPT ![t] = Between(t, "waiting")] /\ Observe(TRUE)
             /\ UNCHANGED <<indexed, lastConv>>
    <3>1. run'[t] = Between(t, "waiting") /\ \A q \in Runs \ {t} : run'[q] = run[q]
      BY <2>1, <2>2 DEF TypeInv
    <3>2. Alone(t)'
      BY <3>1 DEF Alone, Between, NotRun
    <3>3. ASSUME ~overlapped'  PROVE lastConv'.job # "sync"
      <4>1. ~overlapped
        BY <2>2, <3>3 DEF Observe
      <4> QED  BY <2>1, <2>2, <4>1 DEF AloneInv, Active, ActivePcs
    <3>4. Observe(silent')
      BY <2>2 DEF Observe
    <3> QED  BY <2>1, <2>2, <3>1, <3>2, <3>3, <3>4, AloneSuffices
  <2>3. CASE BeginWith(t, run[t].attempt + 1, TRUE)
    <3>1. run[t].attempt + 1 \in Nat
      BY <1>0, <2>1 DEF RunStates
    <3> QED  BY <2>1, <2>3, <3>1, AloneBegin
  <2> QED  BY <1>5, <2>2, <2>3 DEF BackoffEnds
<1>6. ASSUME NEW r \in Runs, Begin(r)  PROVE AloneInv'
  <2>1. /\ run[r].attempt \in Nat /\ indexed /\ run[r].pc = "begin"
        /\ BeginWith(r, run[r].attempt, run[r].mode = "resume")
    BY <1>0, <1>6 DEF RunStates, Begin, Up
  <2>2. CASE run[r].earlier = NoConversation
    BY <2>1, <2>2, AloneBegin
  <2>3. CASE overlapped
    <3>1. overlapped' /\ indexed'
      BY <2>1, <2>3 DEF BeginWith, Observe
    <3> QED  BY <3>1 DEF AloneInv
  <2> QED  BY <2>1, <2>2, <2>3 DEF AloneInv, Alone
<1>7. ASSUME NEW r \in Runs, Capture(r)  PROVE AloneInv'
  <2>1. \A q \in Runs :
          /\ run'[q].pc = run[q].pc /\ run'[q].conv = run[q].conv
          /\ run'[q].saved = run[q].saved /\ run'[q].earlier = run[q].earlier
    BY <1>0, <1>7 DEF Capture, TypeInv, RunStates
  <2>2. Active' = Active /\ \A q \in Runs : Alone(q) => Alone(q)'
    BY <1>7, <2>1 DEF Capture, Active, Alone
  <2> QED  BY <1>7, <2>1, <2>2 DEF Capture, AloneInv
<1>8. ASSUME NEW r \in Runs, SessionStartHook(r)  PROVE AloneInv'
  <2>1. \A q \in Runs :
          /\ run'[q].pc = run[q].pc /\ run'[q].conv = run[q].conv
          /\ run'[q].saved = run[q].saved /\ run'[q].earlier = run[q].earlier
    BY <1>0, <1>8 DEF SessionStartHook, TypeInv, RunStates
  <2>2. /\ Active' = Active /\ r \in Active /\ run[r].pc \in {"primary", "sync"}
        /\ lastConv' = run[r].conv /\ indexed' = indexed /\ indexed
        /\ overlapped' = overlapped
    BY <1>8, <2>1 DEF SessionStartHook, Up, Active, ActivePcs
  <2>3. ASSUME ~overlapped, NEW q \in Runs  PROVE Alone(q)'
    <3>1. CASE q = r
      BY <2>1, <2>2, <2>3, <3>1 DEF AloneInv, Alone
    <3>2. CASE q # r
      <4>1. q \notin Active
        BY <2>2, <2>3, <3>2 DEF AloneInv
      <4> QED  BY <2>1, <2>3, <4>1 DEF AloneInv, Alone, Active, ActivePcs
    <3> QED  BY <3>1, <3>2
  <2>4. ASSUME ~overlapped, lastConv'.job = "sync"
        PROVE  \E q \in Runs : run'[q].pc = "sync"
    BY <2>1, <2>2, <2>4 DEF AloneInv, Alone
  <2> QED  BY <2>2, <2>3, <2>4 DEF AloneInv
<1>9. ASSUME NEW r \in Runs, PrimaryReturns(r)  PROVE AloneInv'
  <2>1. /\ indexed /\ indexed' /\ run[r].pc = "primary" /\ AfterPrimary(r)
        /\ lastConv' \in {lastConv, run[r].conv}
    BY <1>9 DEF PrimaryReturns, Up, KeepId
  <2> QED  BY <2>1, AloneAfterPrimary
<1>10. ASSUME NEW r \in Runs, PrimaryRaises(r)  PROVE AloneInv'
  <2>1. /\ indexed /\ indexed' /\ run[r].pc = "primary" /\ AfterPrimary(r)
        /\ lastConv' \in {lastConv, run[r].conv}
    BY <1>10 DEF PrimaryRaises, Up
  <2> QED  BY <2>1, AloneAfterPrimary
<1>11. ASSUME NEW r \in Runs, SyncEnds(r)  PROVE AloneInv'
  <2>1. /\ indexed /\ indexed' /\ r \in Active /\ run[r].pc = "sync"
        /\ lastConv' = run[r].saved /\ Observe(silent')
    BY <1>11 DEF SyncEnds, Up, Active, ActivePcs, Observe
  <2>2. run'[r] = Ended /\ \A q \in Runs \ {r} : run'[q] = run[q]
    BY <1>11 DEF SyncEnds, TypeInv
  <2>3. Alone(r)'
    BY <2>2 DEF Alone, Ended, NotRun
  <2>4. ~overlapped' => lastConv'.job # "sync"
    BY <2>1 DEF Observe, AloneInv, Alone
  <2> QED  BY <2>1, <2>2, <2>3, <2>4, AloneSuffices
<1>12. CASE Delete
  <2>1. /\ indexed /\ indexed' /\ lastConv' = lastConv /\ (~overlapped' => ~overlapped)
        /\ run' = [q \in Runs |-> IF run[q].pc = "waiting" THEN Ended ELSE run[q]]
    BY <1>12 DEF Delete, Up, Observe
  <2>2. \A q \in Runs : Alone(q) => Alone(q)'
    BY <2>1 DEF Alone, Ended, NotRun
  <2>3. Active' = Active
    BY <2>1 DEF Active, ActivePcs, Ended, NotRun
  <2>4. \A q \in Runs : run[q].pc = "sync" => run'[q].pc = "sync"
    BY <2>1
  <2> QED  BY <2>1, <2>2, <2>3, <2>4 DEF AloneInv
<1>13. CASE Crash
  <2>1. Active' = {}
    BY <1>13 DEF Crash, Active, ActivePcs, Ended, NotRun
  <2>2. ASSUME ~overlapped, NEW q \in Runs  PROVE Alone(q)'
    BY <1>13, <2>2 DEF Crash, AloneInv, Alone, Active, ActivePcs, Ended, NotRun
  <2>3. lastConv' = NoConversation /\ lastConv'.job # "sync" /\ overlapped' = overlapped
    BY <1>13 DEF Crash, NoConversation
  <2> QED  BY <2>1, <2>2, <2>3 DEF AloneInv
<1>14. CASE Rehydrate
  BY <1>14 DEF Rehydrate, AloneInv, Alone, Active
<1> QED  BY <1>1, <1>2, <1>3, <1>4, <1>5, <1>6, <1>7, <1>8, <1>9, <1>10, <1>11, <1>12,
            <1>13, <1>14 DEF Next

-----------------------------------------------------------------------------
LEMMA InitInv == Init => Inv
<1> SUFFICES ASSUME Init  PROVE Inv
  OBVIOUS
<1>1. TypeInv /\ LoggedInv
  BY NotRunIsState DEF Init, TypeInv, LoggedInv, Conversations
<1>2. Active = {} /\ \A r \in Runs : Alone(r)
  BY DEF Init, Active, ActivePcs, Alone, NotRun
<1> QED  BY <1>1, <1>2 DEF Init, Inv, AloneInv, NoConversation

(* The invariant of the runs of a session, for any tasks, messages,        *)
(* attempts and crashes.                                                   *)
THEOREM RunsInvariant == Spec => []Inv
<1>1. Inv /\ [Next]_vars => Inv'
  BY TypeStep, LoggedStep, AloneStep DEF Inv
<1> QED  BY InitInv, <1>1, PTL DEF Spec

(* The live status is the replayed one, whatever runs overlap, end, are    *)
(* deleted or die with the process.                                        *)
THEOREM LiveIsReplayed == Spec => []StatusMatchesLog
<1>1. Inv => StatusMatchesLog
  BY DEF Inv, LoggedInv, StatusMatchesLog
<1> QED  BY RunsInvariant, <1>1, PTL

(* A session shown as running has a live run, or its last run to stop was  *)
(* of the kinds that report nothing.                                       *)
THEOREM RunningHasARun == Spec => []RunningIsExplained
<1>1. Inv => RunningIsExplained
  BY DEF Inv, LoggedInv, RunningIsExplained, Active, ActivePcs
<1> QED  BY RunsInvariant, <1>1, PTL

(* No later run resumes the conversation of an auto-sync run, while runs   *)
(* of the session do not overlap.                                          *)
THEOREM SyncStaysApart == Spec => []AutoSyncIsNotResumed
<1>1. Inv => AutoSyncIsNotResumed
  <2> SUFFICES ASSUME Inv, ~overlapped
               PROVE  /\ indexed /\ Active = {} => lastConv.job # "sync"
                      /\ \A r \in Runs : run[r].pc = "primary" => run[r].conv.job = "work"
    BY DEF AutoSyncIsNotResumed
  <2>1. Active = {} => \A r \in Runs : run[r].pc # "sync"
    BY DEF Active, ActivePcs
  <2> QED  BY <2>1 DEF Inv, AloneInv, Alone
<1> QED  BY RunsInvariant, <1>1, PTL

(* Only the end of its backoff takes a task from it to the next launch.    *)
LEMMA OthersKeepBackoff ==
  ASSUME TypeInv, Next, NEW t \in Tasks, run[t].pc = "backoff", ~BackoffEnds(t)
  PROVE  run'[t].pc # "primary"
<1>0. t \in Runs /\ run[t].pc \in ActivePcs
  BY DEF Runs, ActivePcs
<1>1. ASSUME NEW m \in Messages, SendMessage(m)  PROVE run'[t] = run[t]
  BY <1>0, <1>1 DEF SendMessage, TypeInv
<1>2. ASSUME NEW q \in Tasks, StartTask(q)  PROVE run'[t] = run[t]
  BY <1>0, <1>2 DEF StartTask, TypeInv
<1>3. ASSUME NEW q \in Tasks, TaskLimited(q)  PROVE run'[t] = run[t]
  BY <1>0, <1>3 DEF TaskLimited, TypeInv
<1>4. ASSUME NEW q \in Tasks, BackoffEnds(q)  PROVE run'[t] = run[t]
  <2>1. q # t
    BY <1>4
  <2> QED  BY <1>0, <1>4, <2>1 DEF BackoffEnds, BeginWith, TypeInv
<1>5. ASSUME NEW r \in Runs, Begin(r)  PROVE run'[t] = run[t]
  <2>1. r # t
    BY <1>5 DEF Begin
  <2> QED  BY <1>0, <1>5, <2>1 DEF Begin, BeginWith, TypeInv
<1>6. ASSUME NEW r \in Runs,
             Capture(r) \/ SessionStartHook(r) \/ PrimaryReturns(r) \/ PrimaryRaises(r)
               \/ SyncEnds(r)
      PROVE  run'[t] = run[t]
  <2>1. r # t
    BY <1>6 DEF Capture, SessionStartHook, PrimaryReturns, PrimaryRaises, SyncEnds
  <2> QED  BY <1>0, <1>6, <2>1 DEF Capture, SessionStartHook, PrimaryReturns, PrimaryRaises,
                                  AfterPrimary, SyncEnds, TypeInv
<1>7. CASE Delete \/ Crash \/ Rehydrate
  BY <1>0, <1>7 DEF Delete, Crash, Rehydrate, Ended, NotRun
<1> QED  BY <1>1, <1>2, <1>3, <1>4, <1>5, <1>6, <1>7 DEF Next

(* A retry resumes the conversation that the attempt before it is known to *)
(* have had, on any attempt, while runs of the session do not overlap.     *)
THEOREM RetryKeepsItsConversation == Spec => RetryResumes
<1> DEFINE Retry(t) == NextLaunch(t) => run'[t].conv = run[t].earlier
<1>1. ASSUME Inv, Next, NEW t \in Tasks, NextLaunch(t)
      PROVE  run'[t].conv = run[t].earlier
  <2>1. /\ t \in Runs /\ run[t] \in RunStates
        /\ run[t].pc = "backoff" /\ run'[t].pc = "primary"
        /\ run[t].earlier # NoConversation /\ ~overlapped'
    BY <1>1 DEF Runs, Inv, TypeInv, NextLaunch
  <2>2. BackoffEnds(t)
    BY <1>1, <2>1, OthersKeepBackoff DEF Inv
  <2>3. BeginWith(t, run[t].attempt + 1, TRUE) /\ provider # "unknown"
    BY <1>1, <2>1, <2>2 DEF BackoffEnds, BeginWith, Between, Ended, NotRun, Inv, TypeInv
  <2>4. lastConv = run[t].earlier
    BY <1>1, <2>1, <2>3 DEF BeginWith, Observe, Inv, AloneInv, Alone
  <2> QED  BY <1>1, <2>1, <2>3, <2>4 DEF BeginWith, Inv, TypeInv, RunStates
<1>2. Inv /\ [Next]_vars => [\A t \in Tasks : Retry(t)]_vars
  BY <1>1
<1> QED  BY RunsInvariant, <1>2, PTL DEF Spec, RetryResumes
=============================================================================
