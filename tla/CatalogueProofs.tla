--------------------------- MODULE CatalogueProofs ---------------------------
(***************************************************************************)
(* What the process keeps in memory of its sessions, what it leaves on     *)
(* disk and what it tells its clients, for any sessions and workflows,     *)
(* keys, retention and crashes in the middle of a handler.                 *)
(***************************************************************************)
EXTENDS SessionApi, TLAPS

Statuses == {"created", "deleted"} \cup Reports
Folds == [status : Statuses, created : Nat \cup {None}, updated : Nat, priority : Nat]

TypeInv ==
  /\ log \in [Streams -> Folds \cup {Absent}] /\ index \in [Streams -> Folds \cup {Absent}]
  /\ now \in Nat /\ used \subseteq Streams

(* A live entity is the fold of its log, but for the creation time of a    *)
(* workflow, which its log does not have; a deleted session has nothing.   *)
StreamInv(s) ==
  /\ s \notin used => log[s] = Absent /\ index[s] = Absent /\ s \notin queued
  /\ Live(s) => /\ log[s] # Absent
                /\ index[s].status = log[s].status /\ index[s].updated = log[s].updated
  /\ s \in Sessions =>
       /\ Live(s) => index[s] = log[s]
       /\ log[s] # Absent => log[s].created # None
       /\ log[s].status = "deleted" => s \notin workspaces /\ s \notin queued \ late

MemoryInv == (up => default = defaultLog) /\ \A s \in Streams : StreamInv(s)

(* Where the handler is: the effects it has to come.                       *)
ToMake == <<"mkdir", "created", "mount", "index", "key">>
ToEmit == <<"created", "mount", "index", "key">>
ToMount == <<"mount", "index", "key">>
ToRegister == <<"index", "key">>
ToRecord == <<"key">>
ToCancel == <<"cancel", "destroy", "deleted">>
ToDestroy == <<"destroy", "deleted">>
ToDelete == <<"deleted">>

ScriptInv ==
  /\ script \in {<<>>, ToMake, ToEmit, ToMount, ToRegister, ToRecord,
                 ToCancel, ToDestroy, ToDelete}
  /\ script \in {ToMake, ToEmit, ToMount, ToRegister} =>
       /\ subject.id \in Sessions /\ subject.id \in used /\ subject.at \in Nat
       /\ index[subject.id] = Absent /\ subject.id \notin queued
  /\ script \in {ToMake, ToEmit} => log[subject.id] = Absent /\ subject.at = now
  /\ script \in {ToMount, ToRegister} => log[subject.id] = NewSession
  /\ script \in {ToCancel, ToDestroy, ToDelete} =>
       subject.id \in Streams /\ log[subject.id] # Absent
  /\ script \in {ToDestroy, ToDelete} => subject.id \notin queued \ late
  /\ script = ToDelete => subject.id \notin workspaces
  /\ doomed \subseteq Streams /\ \A s \in doomed : log[s] # Absent
  /\ ~up => script = <<>> /\ doomed = {}

Inv == TypeInv /\ MemoryInv /\ ScriptInv

(* A task that waits is one the projection shows, or has not applied yet.  *)
ViewInv == queued \subseteq shows \cup fresh

USE DEF Streams

-----------------------------------------------------------------------------
(* The handler's script.                                                   *)

LEMMA Steps ==
  ASSUME ScriptInv
  PROVE  /\ Performs("mkdir") => script = ToMake /\ script' = ToEmit /\ subject' = subject
         /\ Performs("created") => script = ToEmit /\ script' = ToMount /\ subject' = subject
         /\ Performs("index") => script = ToRegister /\ script' = ToRecord /\ subject' = subject
         /\ Performs("key") => script = ToRecord /\ script' = <<>>
         /\ Performs("cancel") => script = ToCancel /\ script' = ToDestroy /\ subject' = subject
         /\ Performs("destroy") => script = ToDestroy /\ script' = ToDelete /\ subject' = subject
         /\ Performs("deleted") => script = ToDelete /\ script' = <<>>
         /\ script # <<>> /\ Head(script) = "mount" => script = ToMount /\ Tail(script) = ToRegister
<1> USE DEF ToMake, ToEmit, ToMount, ToRegister, ToRecord, ToCancel, ToDestroy, ToDelete
<1>1. /\ Head(ToMake) = "mkdir" /\ Tail(ToMake) = ToEmit /\ ToEmit # <<>>
      /\ Head(ToEmit) = "created" /\ Tail(ToEmit) = ToMount /\ ToMount # <<>>
      /\ Head(ToMount) = "mount" /\ Tail(ToMount) = ToRegister
      /\ Head(ToRegister) = "index" /\ Tail(ToRegister) = ToRecord /\ ToRecord # <<>>
      /\ Head(ToRecord) = "key" /\ Tail(ToRecord) = <<>>
  OBVIOUS
<1>2. /\ Head(ToCancel) = "cancel" /\ Tail(ToCancel) = ToDestroy /\ ToDestroy # <<>>
      /\ Head(ToDestroy) = "destroy" /\ Tail(ToDestroy) = ToDelete /\ ToDelete # <<>>
      /\ Head(ToDelete) = "deleted" /\ Tail(ToDelete) = <<>>
  OBVIOUS
<1> QED  BY <1>1, <1>2, Zenon DEF Performs, GoesOn, ScriptInv

(* The stages are told apart.                                              *)
LEMMA Apart ==
  /\ <<>> \notin {ToMake, ToEmit, ToMount, ToRegister, ToRecord, ToCancel, ToDestroy, ToDelete}
  /\ ToMake \notin {ToEmit, ToMount, ToRegister, ToRecord, ToCancel, ToDestroy, ToDelete}
  /\ ToEmit \notin {ToMount, ToRegister, ToRecord, ToCancel, ToDestroy, ToDelete}
  /\ ToMount \notin {ToRegister, ToRecord, ToCancel, ToDestroy, ToDelete}
  /\ ToRegister \notin {ToRecord, ToCancel, ToDestroy, ToDelete}
  /\ ToRecord \notin {ToCancel, ToDestroy, ToDelete}
  /\ ToCancel \notin {ToDestroy, ToDelete}
  /\ ToDestroy # ToDelete
  /\ CreateScript = ToMake /\ DestroyScript = ToCancel
  BY DEF ToMake, ToEmit, ToMount, ToRegister, ToRecord, ToCancel, ToDestroy, ToDelete,
         CreateScript, DestroyScript

-----------------------------------------------------------------------------
(* Folds.                                                                  *)

LEMMA AbsentIsNoFold ==
  /\ Absent \notin Folds /\ Absent.status = None /\ None \notin Statuses
  BY CatalogueAssumption DEF Absent, Folds, Statuses

Latest(f) == IF now > f.updated THEN now ELSE f.updated

(* The events a stream gets after its first one, and what they do to an    *)
(* entity that is live.                                                    *)
Later == {Plain} \cup {Event("status", v) : v \in Statuses}
           \cup {Event("dispatch_priority.updated", p) : p \in Nat}

After(f, e) ==
  CASE e.type = "status" -> [f EXCEPT !.status = e.value]
    [] e.type = "dispatch_priority.updated" -> [f EXCEPT !.priority = e.value]
    [] OTHER -> f

LEMMA FoldIsTouch ==
  ASSUME now \in Nat, NEW f \in Folds, NEW e \in Later
  PROVE  /\ After(f, e) \in Folds /\ Folded(f, e) \in Folds
         /\ Folded(f, e) = Touched(After(f, e))
         /\ Folded(f, e).created = f.created
         /\ Folded(f, e).status = After(f, e).status
         /\ Folded(f, e).updated = Latest(f)
<1>1. f # Absent
  BY AbsentIsNoFold
<1>2. CASE e = Plain
  BY <1>1, <1>2 DEF Folded, Touched, After, Latest, Folds, Plain, Event
<1>3. CASE \E v \in Statuses : e = Event("status", v)
  <2>1. PICK v \in Statuses : e = Event("status", v)
    BY <1>3
  <2>2. After(f, e) = [f EXCEPT !.status = v] /\ After(f, e) \in Folds
    BY <2>1 DEF After, Folds, Event
  <2>3. Folded(f, e) = [After(f, e) EXCEPT !.updated = IF now > @ THEN now ELSE @]
    BY <1>1, <2>1, <2>2 DEF Folded, Event
  <2>4. After(f, e) # Absent
    BY <2>2, AbsentIsNoFold
  <2> QED  BY <2>2, <2>3, <2>4 DEF Touched, Latest, Folds
<1>4. CASE \E p \in Nat : e = Event("dispatch_priority.updated", p)
  <2>1. PICK p \in Nat : e = Event("dispatch_priority.updated", p)
    BY <1>4
  <2>2. After(f, e) = [f EXCEPT !.priority = p] /\ After(f, e) \in Folds
    BY <2>1 DEF After, Folds, Event
  <2>3. Folded(f, e) = [After(f, e) EXCEPT !.updated = IF now > @ THEN now ELSE @]
    BY <1>1, <2>1, <2>2 DEF Folded, Event
  <2>4. After(f, e) # Absent
    BY <2>2, AbsentIsNoFold
  <2> QED  BY <2>2, <2>3, <2>4 DEF Touched, Latest, Folds
<1> QED  BY <1>2, <1>3, <1>4 DEF Later

(* An event of a stream that has one already, and what its entity, if it   *)
(* is live, makes of it.                                                   *)
LEMMA EmitKeeps ==
  ASSUME TypeInv, NEW s \in Streams, StreamInv(s), log[s] # Absent,
         NEW e \in Later, NEW entity,
         entity = IF Live(s) THEN After(index[s], e) ELSE Absent,
         Emit(s, e, entity)
  PROVE  /\ log' \in [Streams -> Folds \cup {Absent}]
         /\ index' \in [Streams -> Folds \cup {Absent}]
         /\ \A r \in Streams \ {s} : log'[r] = log[r] /\ index'[r] = index[r]
         /\ log'[s] # Absent /\ s \in used
         /\ log'[s].created = log[s].created /\ log'[s].status = After(log[s], e).status
         /\ index'[s] # Absent =>
              /\ Live(s)
              /\ index'[s].status = log'[s].status /\ index'[s].updated = log'[s].updated
              /\ s \in Sessions => index'[s] = log'[s]
<1>1. log[s] \in Folds /\ now \in Nat
  BY DEF TypeInv
<1>2. /\ log'[s] = Folded(log[s], e) /\ index'[s] = Touched(entity)
      /\ \A r \in Streams \ {s} : log'[r] = log[r] /\ index'[r] = index[r]
  BY DEF Emit, TypeInv
<1>3. /\ log'[s] \in Folds /\ log'[s].created = log[s].created
      /\ log'[s].status = After(log[s], e).status /\ log'[s].updated = Latest(log[s])
      /\ log'[s] = Touched(After(log[s], e))
  BY <1>1, <1>2, FoldIsTouch
<1>4. CASE ~Live(s)
  <2>1. index'[s] = Absent
    BY <1>2, <1>4 DEF Touched
  <2> QED  BY <1>1, <1>2, <1>3, <1>4, <2>1, AbsentIsNoFold DEF Emit, TypeInv, StreamInv
<1>5. CASE Live(s)
  <2>1. index[s] \in Folds
    BY <1>5 DEF TypeInv, Live
  <2>2. /\ index'[s] = Folded(index[s], e) /\ index'[s] \in Folds
        /\ index'[s].status = After(index[s], e).status
        /\ index'[s].updated = Latest(index[s])
    BY <1>1, <1>2, <1>5, <2>1, FoldIsTouch
  <2>3. index[s].status = log[s].status /\ index[s].updated = log[s].updated
    BY <1>5 DEF StreamInv
  <2>4. After(index[s], e).status = After(log[s], e).status
    BY <1>1, <2>1, <2>3 DEF After, Folds
  <2>5. s \in Sessions => index'[s] = log'[s]
    BY <1>2, <1>5, <2>2 DEF StreamInv
  <2> QED
    BY <1>1, <1>2, <1>3, <1>5, <2>2, <2>3, <2>4, <2>5, AbsentIsNoFold
       DEF Emit, TypeInv, StreamInv, Latest
<1> QED  BY <1>4, <1>5

(* A log read back: only a workflow gets a creation time.                  *)
LEMMA ReplayKeeps ==
  ASSUME NEW f \in Folds \cup {Absent}
  PROVE  /\ Rehydrated(f) \in Folds \cup {Absent}
         /\ Rehydrated(f) = Absent <=> f = Absent
         /\ Rehydrated(f).status = f.status /\ Rehydrated(f).updated = f.updated
         /\ f.created # None => Rehydrated(f) = f
<1>1. CASE f = Absent
  BY <1>1 DEF Rehydrated
<1>2. CASE f # Absent /\ f.created # None
  BY <1>2 DEF Rehydrated
<1>3. CASE f \in Folds /\ f.created = None
  <2>1. Rehydrated(f) = [f EXCEPT !.created = f.updated]
    BY <1>3, AbsentIsNoFold DEF Rehydrated
  <2>2. Rehydrated(f) \in Folds
    BY <1>3, <2>1 DEF Folds
  <2> QED  BY <1>3, <2>1, <2>2, AbsentIsNoFold DEF Folds
<1> QED  BY <1>1, <1>2, <1>3

(* A stream that nobody wrote to, and that lost at most what it had.       *)
LEMMA Untouched ==
  ASSUME NEW r \in Streams, StreamInv(r), log'[r] = log[r], index'[r] = index[r],
         r \in used => r \in used', r \in workspaces' => r \in workspaces,
         r \in queued' => r \in queued,
         r \in queued' \ late' => r \in queued \ late
  PROVE  StreamInv(r)'
  BY DEF StreamInv, Live

-----------------------------------------------------------------------------
(* The invariant, one action after the other.                              *)

(* Steps that leave the streams and the process alone.                     *)
LEMMA HandlerOnly ==
  ASSUME TypeInv, MemoryInv, UNCHANGED <<diskVars, up, index, default, late>>,
         now' \in Nat, used \subseteq used', used' \subseteq Streams
  PROVE  TypeInv' /\ MemoryInv'
<1>1. TypeInv'
  BY DEF TypeInv, diskVars
<1>2. \A r \in Streams : StreamInv(r)'
  BY Untouched DEF MemoryInv, diskVars
<1> QED  BY <1>1, <1>2 DEF MemoryInv, diskVars

(* An event that a handler or a client adds to a stream.                   *)
LEMMA OneEvent ==
  ASSUME TypeInv, MemoryInv, NEW s \in Streams, log[s] # Absent,
         NEW e \in Later, NEW entity,
         entity = IF Live(s) THEN After(index[s], e) ELSE Absent,
         Emit(s, e, entity), UNCHANGED <<workspaces, defaultLog, up, default, now>>,
         used \subseteq used', used' \subseteq Streams,
         \A r \in Streams \ {s} : /\ r \in queued' => r \in queued
                                  /\ r \in queued' \ late' => r \in queued \ late,
         s \in Sessions /\ After(log[s], e).status = "deleted" =>
           s \notin workspaces /\ s \notin queued' \ late'
  PROVE  /\ TypeInv' /\ MemoryInv'
         /\ \A r \in Streams : log[r] # Absent => log'[r] # Absent
<1>1. StreamInv(s)
  BY DEF MemoryInv
<1>2. /\ log' \in [Streams -> Folds \cup {Absent}]
      /\ index' \in [Streams -> Folds \cup {Absent}]
      /\ \A r \in Streams \ {s} : log'[r] = log[r] /\ index'[r] = index[r]
      /\ log'[s] # Absent /\ s \in used
      /\ log'[s].created = log[s].created /\ log'[s].status = After(log[s], e).status
      /\ index'[s] # Absent =>
           /\ Live(s)
           /\ index'[s].status = log'[s].status /\ index'[s].updated = log'[s].updated
           /\ s \in Sessions => index'[s] = log'[s]
  BY <1>1, EmitKeeps
<1>3. StreamInv(s)'
  BY <1>1, <1>2 DEF StreamInv, Live
<1>4. ASSUME NEW r \in Streams \ {s} PROVE StreamInv(r)'
  <2>1. /\ StreamInv(r) /\ log'[r] = log[r] /\ index'[r] = index[r]
        /\ r \in used => r \in used'
        /\ r \in workspaces' => r \in workspaces
        /\ r \in queued' => r \in queued
        /\ r \in queued' \ late' => r \in queued \ late
    BY <1>2, <1>4 DEF MemoryInv
  <2> QED  BY <1>4, <2>1, Untouched
<1>5. TypeInv'
  BY <1>2 DEF TypeInv
<1>6. MemoryInv'
  BY <1>3, <1>4 DEF MemoryInv
<1> QED  BY <1>2, <1>5, <1>6

(* An idle process has no script to go on with.                            *)
LEMMA IdleScript ==
  ASSUME script' = <<>>, doomed' = {}
  PROVE  ScriptInv'
  BY Apart DEF ScriptInv

LEMMA CreationKeeps ==
  ASSUME Inv, NEW s \in Sessions, NEW key \in Keys \cup {None}, CreateBegins(s, key)
  PROVE  Inv'
<1>1. TypeInv' /\ MemoryInv'
  BY HandlerOnly DEF Inv, TypeInv, CreateBegins, diskVars, memoryVars
<1>2. log[s] = Absent /\ index[s] = Absent /\ s \notin queued
  BY DEF Inv, MemoryInv, StreamInv, CreateBegins
<1>3. script' = ToMake /\ subject' = [id |-> s, key |-> key, at |-> now] /\ s \in used'
  BY Apart DEF CreateBegins
<1>4. ScriptInv'
  BY <1>2, <1>3, Apart
     DEF ScriptInv, Inv, TypeInv, CreateBegins, Idle, diskVars, memoryVars
<1> QED  BY <1>1, <1>4 DEF Inv

LEMMA MakeWorkspaceKeeps ==
  ASSUME Inv, MakeWorkspace
  PROVE  Inv'
<1>1. script = ToMake /\ script' = ToEmit /\ subject' = subject
  BY Steps DEF Inv, MakeWorkspace
<1>2. log[subject.id] = Absent
  BY <1>1 DEF Inv, ScriptInv
<1>3. log[subject.id].status # "deleted"
  BY <1>2, CatalogueAssumption, AbsentIsNoFold DEF Statuses
<1>4. TypeInv'
  BY DEF Inv, TypeInv, MakeWorkspace, envVars, memoryVars
<1>5. ASSUME NEW r \in Streams PROVE StreamInv(r)'
  BY <1>3, <1>5 DEF Inv, MemoryInv, StreamInv, Live, MakeWorkspace, envVars, memoryVars
<1>6. MemoryInv'
  BY <1>5 DEF Inv, MemoryInv, MakeWorkspace, memoryVars
<1>7. ScriptInv'
  BY <1>1, Apart DEF Inv, ScriptInv, MakeWorkspace, envVars, memoryVars
<1> QED  BY <1>4, <1>6, <1>7 DEF Inv

LEMMA EmitCreatedKeeps ==
  ASSUME Inv, EmitCreated
  PROVE  Inv'
<1> DEFINE s == subject.id
<1>1. script = ToEmit /\ script' = ToMount /\ subject' = subject
  BY Steps DEF Inv, EmitCreated
<1>2. /\ s \in Sessions /\ s \in used /\ subject.at = now /\ now \in Nat
      /\ log[s] = Absent /\ index[s] = Absent /\ s \notin queued
  BY <1>1 DEF Inv, ScriptInv, TypeInv
<1>3. Folded(Absent, Event("session.created", None)) = NewSession
  <2> DEFINE first == [status |-> "created", created |-> None, updated |-> now,
                       priority |-> 1]
  <2>1. Folded(Absent, Event("session.created", None))
          = [[first EXCEPT !.created = now] EXCEPT !.updated = IF now > @ THEN now ELSE @]
    BY DEF Folded, Event
  <2> QED  BY <1>2, <2>1 DEF NewSession
<1>4. /\ log' = [log EXCEPT ![s] = NewSession] /\ index' = index
      /\ NewSession \in Folds /\ NewSession.created # None
      /\ NewSession.status # "deleted" /\ NewSession' = NewSession
  <2>1. log' = [log EXCEPT ![s] = NewSession]
    BY <1>2, <1>3 DEF Emit, EmitCreated, Inv, TypeInv
  <2>2. index' = index
    BY <1>2 DEF Emit, EmitCreated, Touched, Inv, TypeInv
  <2>3. /\ NewSession \in Folds /\ NewSession.created # None
        /\ NewSession.status # "deleted" /\ NewSession' = NewSession
    BY <1>1, <1>2, CatalogueAssumption DEF NewSession, Folds, Statuses
  <2> QED  BY <2>1, <2>2, <2>3
<1>5. NewSession # Absent
  BY <1>4, AbsentIsNoFold
<1>6. TypeInv'
  BY <1>2, <1>4 DEF Inv, TypeInv, EmitCreated, envVars
<1>7. ASSUME NEW r \in Streams PROVE StreamInv(r)'
  BY <1>2, <1>4, <1>5, <1>7 DEF Inv, MemoryInv, StreamInv, Live, EmitCreated, envVars, TypeInv
<1>8. MemoryInv'
  BY <1>7 DEF Inv, MemoryInv, EmitCreated
<1>9. ScriptInv'
  BY <1>1, <1>2, <1>4, <1>5, Apart DEF Inv, ScriptInv, EmitCreated, envVars, TypeInv
<1> QED  BY <1>6, <1>8, <1>9 DEF Inv

LEMMA MountKeeps ==
  ASSUME Inv, Mount
  PROVE  Inv'
<1>1. script = ToMount /\ script' \in {ToRegister, <<>>}
  BY Steps DEF Inv, Mount, GoesOn
<1>2. script' = ToRegister => subject' = subject
  BY Apart DEF Mount, GoesOn
<1>3. now' \in Nat
  BY CatalogueAssumption DEF Mount, Times
<1>4. TypeInv' /\ MemoryInv'
  BY <1>3, HandlerOnly DEF Inv, TypeInv, Mount, memoryVars
<1>5. script' = ToRegister => NewSession' = NewSession
  BY <1>2 DEF NewSession
<1>6. ScriptInv'
  BY <1>1, <1>2, <1>5, Apart DEF Inv, ScriptInv, Mount, diskVars, memoryVars
<1> QED  BY <1>4, <1>6 DEF Inv

LEMMA RegisterKeeps ==
  ASSUME Inv, Register
  PROVE  Inv'
<1> DEFINE s == subject.id
<1>1. script = ToRegister /\ script' = ToRecord
  BY Steps DEF Inv, Register
<1>2. s \in Sessions /\ s \in used /\ log[s] = NewSession /\ subject.at \in Nat
  BY <1>1 DEF Inv, ScriptInv
<1>3. NewSession \in Folds
  BY <1>2, CatalogueAssumption DEF NewSession, Folds, Statuses
<1>4. index' = [index EXCEPT ![s] = NewSession] /\ log' = log
  BY DEF Register, diskVars
<1>5. TypeInv'
  BY <1>2, <1>3, <1>4 DEF Inv, TypeInv, Register, envVars
<1>6. ASSUME NEW r \in Streams PROVE StreamInv(r)'
  BY <1>2, <1>3, <1>4, <1>6, AbsentIsNoFold
     DEF Inv, MemoryInv, StreamInv, Live, Register, envVars, diskVars, TypeInv
<1>7. MemoryInv'
  BY <1>6 DEF Inv, MemoryInv, Register, diskVars
<1>8. ScriptInv'
  BY <1>1, <1>4, Apart DEF Inv, ScriptInv, Register, envVars
<1> QED  BY <1>5, <1>7, <1>8 DEF Inv

LEMMA RecordKeyKeeps ==
  ASSUME Inv, RecordKey
  PROVE  Inv'
<1>1. script = ToRecord /\ script' = <<>>
  BY Steps DEF Inv, RecordKey
<1>2. TypeInv' /\ MemoryInv'
  BY HandlerOnly DEF Inv, TypeInv, RecordKey, envVars
<1>3. ScriptInv'
  BY <1>1, Apart DEF Inv, ScriptInv, RecordKey, diskVars
<1> QED  BY <1>2, <1>3 DEF Inv

(* destroy_session, of a live session or of one that cleanup has found.    *)
LEMMA DestructionBegins ==
  ASSUME Inv, NEW s \in Streams, log[s] # Absent, up,
         script' = DestroyScript, subject' = [Nobody EXCEPT !.id = s], doomed' \subseteq doomed,
         UNCHANGED <<diskVars, up, memoryVars, envVars, late>>
  PROVE  Inv'
<1>1. TypeInv' /\ MemoryInv'
  BY HandlerOnly DEF Inv, TypeInv, envVars, memoryVars
<1>2. script' = ToCancel /\ subject'.id = s
  BY Apart DEF Nobody
<1>3. ScriptInv'
  BY <1>2, Apart DEF Inv, ScriptInv, diskVars
<1> QED  BY <1>1, <1>3 DEF Inv

LEMMA CancelQueuedKeeps ==
  ASSUME Inv, ViewInv, CancelQueued
  PROVE  Inv'
<1> DEFINE s == subject.id
<1>1. script = ToCancel /\ script' = ToDestroy /\ subject' = subject
  BY Steps DEF Inv, CancelQueued
<1>2. s \in Streams /\ log[s] # Absent /\ StreamInv(s) /\ log[s] \in Folds
  BY <1>1 DEF Inv, ScriptInv, MemoryInv, TypeInv
<1>3. s \notin queued' \ late'
  BY DEF CancelQueued, ViewInv
<1>4. /\ TypeInv' /\ MemoryInv'
      /\ \A r \in Streams : log[r] # Absent => log'[r] # Absent
  <2>1. CASE s \in shows
    <3>1. Emit(s, Plain, index[s])
      BY <2>1 DEF CancelQueued
    <3>2. index[s] = IF Live(s) THEN After(index[s], Plain) ELSE Absent
      BY DEF Live, After, Plain, Event
    <3>3. After(log[s], Plain).status = log[s].status
      BY DEF After, Plain, Event
    <3>4. s \in Sessions /\ log[s].status = "deleted" => s \notin workspaces
      BY <1>2 DEF StreamInv
    <3>5. Plain \in Later
      BY DEF Later
    <3>6. \A r \in Streams \ {s} :
            (r \in queued' => r \in queued) /\ (r \in queued' \ late' => r \in queued \ late)
      BY DEF CancelQueued
    <3>7. /\ UNCHANGED <<workspaces, defaultLog, up, default, now>>
          /\ used \subseteq used' /\ used' \subseteq Streams
      BY DEF CancelQueued, envVars, Inv, TypeInv
    <3>8. s \in Sessions /\ After(log[s], Plain).status = "deleted" =>
            s \notin workspaces /\ s \notin queued' \ late'
      BY <1>3, <3>3, <3>4
    <3> HIDE DEF s
    <3> QED  BY <1>2, <3>1, <3>2, <3>5, <3>6, <3>7, <3>8, OneEvent DEF Inv
  <2>2. CASE s \notin shows
    <3>1. log' = log /\ index' = index /\ queued' = queued
      BY <2>2 DEF CancelQueued
    <3>2. TypeInv'
      BY <3>1 DEF CancelQueued, Inv, TypeInv, envVars
    <3>3. ASSUME NEW r \in Streams PROVE StreamInv(r)'
      <4>1. StreamInv(r) /\ workspaces' = workspaces /\ used' = used
        BY <3>3 DEF CancelQueued, Inv, MemoryInv, envVars
      <4>2. r # s => late' \cap {r} = late \cap {r}
        BY DEF CancelQueued
      <4>3. r \notin queued \ late => r \notin queued' \ late'
        BY <1>3, <3>1, <4>2
      <4> QED  BY <3>1, <4>1, <4>3 DEF StreamInv, Live
    <3>4. MemoryInv'
      BY <3>3 DEF CancelQueued, Inv, MemoryInv
    <3> QED  BY <3>1, <3>2, <3>4
  <2> QED  BY <2>1, <2>2
<1>5. ScriptInv'
  BY <1>1, <1>2, <1>3, <1>4, Apart DEF Inv, ScriptInv, CancelQueued
<1> QED  BY <1>4, <1>5 DEF Inv

LEMMA DestroyWorkspaceKeeps ==
  ASSUME Inv, DestroyWorkspace
  PROVE  Inv'
<1> USE DEF DestroyWorkspace, memoryVars, envVars
<1>1. script = ToDestroy /\ script' = ToDelete /\ subject' = subject
  BY Steps DEF Inv
<1>2. TypeInv'
  BY DEF Inv, TypeInv
<1>3. ASSUME NEW r \in Streams PROVE StreamInv(r)'
  BY <1>3, Untouched DEF Inv, MemoryInv
<1>4. MemoryInv'
  BY <1>3 DEF Inv, MemoryInv
<1>5. ScriptInv'
  BY <1>1, Apart DEF Inv, ScriptInv
<1> QED  BY <1>2, <1>4, <1>5 DEF Inv

LEMMA EmitDeletedKeeps ==
  ASSUME Inv, EmitDeleted
  PROVE  Inv'
<1> DEFINE s == subject.id
           e == Event("status", "deleted")
           entity == IF Live(s) THEN [index[s] EXCEPT !.status = "deleted"] ELSE Absent
<1>1. script = ToDelete /\ script' = <<>>
  BY Steps DEF Inv, EmitDeleted
<1>2. /\ s \in Streams /\ log[s] # Absent
      /\ s \notin queued \ late /\ s \notin workspaces
  BY <1>1, Apart DEF Inv, ScriptInv
<1>3. Emit(s, e, entity)
  BY DEF EmitDeleted
<1>4. entity = IF Live(s) THEN After(index[s], e) ELSE Absent
  BY DEF After, Event
<1>5. e \in Later
  BY DEF Later, Statuses
<1>6. /\ UNCHANGED <<workspaces, defaultLog, up, default, now, queued, late>>
      /\ used \subseteq used' /\ used' \subseteq Streams
  BY DEF EmitDeleted, envVars, Inv, TypeInv
<1>7. /\ TypeInv' /\ MemoryInv'
      /\ \A r \in Streams : log[r] # Absent => log'[r] # Absent
  <2> HIDE DEF s, e, entity
  <2> QED  BY <1>2, <1>3, <1>4, <1>5, <1>6, OneEvent DEF Inv
<1>8. ScriptInv'
  BY <1>1, <1>7, Apart DEF Inv, ScriptInv, EmitDeleted
<1> QED  BY <1>7, <1>8 DEF Inv

LEMMA CleanupKeeps ==
  ASSUME Inv, NEW cutoff \in 0 .. now, CleanupBegins(cutoff)
  PROVE  Inv'
<1>1. TypeInv' /\ MemoryInv'
  BY HandlerOnly DEF Inv, TypeInv, CleanupBegins, memoryVars, envVars
<1>2. doomed' \subseteq Streams /\ \A s \in doomed' : log[s] # Absent
  <2>1. ASSUME NEW s \in Candidates(cutoff) PROVE s \in Streams /\ log[s] # Absent
    <3>1. s \in Streams /\ Known(s) # Absent
      BY <2>1 DEF Candidates, Examined
    <3> QED  BY <3>1 DEF Known, Rehydrated, Inv, MemoryInv, StreamInv
  <2> QED  BY <2>1 DEF CleanupBegins
<1>3. ScriptInv'
  BY <1>2, Apart DEF Inv, ScriptInv, CleanupBegins, Idle, diskVars
<1> QED  BY <1>1, <1>3 DEF Inv

-----------------------------------------------------------------------------
(* Clients, runs and workflows.                                            *)

LEMMA FetchKeeps ==
  ASSUME Inv, NEW s \in Streams, Fetch(s)
  PROVE  Inv'
<1>1. /\ ~Live(s) /\ index' = [index EXCEPT ![s] = Rehydrated(log[s])]
      /\ Rehydrated(log[s]) # Absent /\ log' = log
  BY DEF Fetch, Fetched, Live, diskVars
<1>2. log[s] \in Folds \cup {Absent} /\ StreamInv(s)
  BY DEF Inv, TypeInv, MemoryInv
<1>3. /\ Rehydrated(log[s]) \in Folds \cup {Absent} /\ log[s] # Absent
      /\ Rehydrated(log[s]).status = log[s].status
      /\ Rehydrated(log[s]).updated = log[s].updated
      /\ s \in Sessions => Rehydrated(log[s]) = log[s]
  BY <1>1, <1>2, ReplayKeeps DEF StreamInv
<1>4. TypeInv'
  BY <1>1, <1>3 DEF Inv, TypeInv, Fetch, envVars
<1>5. ASSUME NEW r \in Streams PROVE StreamInv(r)'
  BY <1>1, <1>2, <1>3, <1>5
     DEF Inv, TypeInv, MemoryInv, StreamInv, Live, Fetch, diskVars, envVars
<1>6. MemoryInv'
  BY <1>5 DEF Inv, MemoryInv, Fetch, diskVars
<1>7. ScriptInv'
  BY IdleScript DEF Fetch, Idle, handlerVars
<1> QED  BY <1>4, <1>6, <1>7 DEF Inv

LEMMA AppliesKeeps ==
  ASSUME Inv, NEW s \in Streams, Applies(s)
  PROVE  Inv'
<1>1. TypeInv' /\ MemoryInv'
  BY HandlerOnly DEF Inv, TypeInv, Applies, envVars
<1>2. ScriptInv'
  BY IdleScript DEF Applies, Idle, handlerVars
<1> QED  BY <1>1, <1>2 DEF Inv

LEMMA EnqueueKeeps ==
  ASSUME Inv, NEW s \in Streams, Enqueue(s)
  PROVE  Inv'
<1>1. /\ Live(s) /\ log[s] # Absent /\ StreamInv(s)
      /\ index[s].status = log[s].status
  BY DEF Enqueue, Inv, MemoryInv, StreamInv
<1>2. /\ Emit(s, Plain, index[s]) /\ Plain \in Later
      /\ index[s] = IF Live(s) THEN After(index[s], Plain) ELSE Absent
      /\ After(log[s], Plain).status = log[s].status
  BY DEF Enqueue, Later, After, Plain, Event, Live
<1>3. \A r \in Streams \ {s} :
        (r \in queued' => r \in queued) /\ (r \in queued' \ late' => r \in queued \ late)
  BY DEF Enqueue
<1>4. s \in Sessions /\ After(log[s], Plain).status = "deleted" =>
        s \notin workspaces /\ s \notin queued' \ late'
  BY <1>1, <1>2 DEF Enqueue, StreamInv
<1>5. /\ UNCHANGED <<workspaces, defaultLog, up, default, now>>
      /\ used \subseteq used' /\ used' \subseteq Streams
  BY DEF Enqueue, envVars, Inv, TypeInv
<1>6. TypeInv' /\ MemoryInv'
  BY <1>1, <1>2, <1>3, <1>4, <1>5, OneEvent DEF Inv
<1>7. ScriptInv'
  BY IdleScript DEF Enqueue, Idle, handlerVars
<1> QED  BY <1>6, <1>7 DEF Inv

LEMMA RunReportsKeeps ==
  ASSUME Inv, NEW s \in Streams, NEW st \in Reports, RunReports(s, st)
  PROVE  Inv'
<1> DEFINE e == Event("status", st)
           entity == [index[s] EXCEPT !.status = st]
<1>1. /\ Live(s) /\ log[s] # Absent /\ Emit(s, e, entity)
      /\ log[s] \in Folds
  BY DEF RunReports, Inv, TypeInv, MemoryInv, StreamInv
<1>2. /\ e \in Later
      /\ entity = IF Live(s) THEN After(index[s], e) ELSE Absent
  BY <1>1 DEF Later, Statuses, After, Event
<1>3. After(log[s], e).status # "deleted"
  <2>1. st # "deleted"
    BY CatalogueAssumption
  <2>2. After(log[s], e).status = st
    BY <1>1 DEF After, Event, Folds
  <2> QED  BY <2>1, <2>2
<1>4. \A r \in Streams \ {s} :
        (r \in queued' => r \in queued) /\ (r \in queued' \ late' => r \in queued \ late)
  BY DEF RunReports
<1>5. /\ UNCHANGED <<workspaces, defaultLog, up, default, now>>
      /\ used \subseteq used' /\ used' \subseteq Streams
  BY DEF RunReports, envVars, Inv, TypeInv
<1>6. TypeInv' /\ MemoryInv'
  <2> HIDE DEF e, entity
  <2> QED  BY <1>1, <1>2, <1>3, <1>4, <1>5, OneEvent DEF Inv
<1>7. ScriptInv'
  BY IdleScript DEF RunReports, Idle, handlerVars
<1> QED  BY <1>6, <1>7 DEF Inv

LEMMA SetPriorityKeeps ==
  ASSUME Inv, NEW s \in Streams, NEW p \in Priorities, SetPriority(s, p)
  PROVE  Inv'
<1> DEFINE e == Event("dispatch_priority.updated", p)
           entity == [index[s] EXCEPT !.priority = p]
<1>1. /\ Live(s) /\ log[s] # Absent /\ Emit(s, e, entity) /\ StreamInv(s)
      /\ log[s] \in Folds
  BY DEF SetPriority, Inv, TypeInv, MemoryInv, StreamInv
<1>2. /\ e \in Later
      /\ entity = IF Live(s) THEN After(index[s], e) ELSE Absent
  BY <1>1, CatalogueAssumption DEF Later, After, Event
<1>3. After(log[s], e).status = log[s].status
  BY <1>1 DEF After, Event, Folds
<1>4. s \in Sessions /\ After(log[s], e).status = "deleted" =>
        s \notin workspaces /\ s \notin queued \ late
  BY <1>1, <1>3 DEF StreamInv
<1>5. /\ UNCHANGED <<workspaces, defaultLog, up, default, now, queued, late>>
      /\ used \subseteq used' /\ used' \subseteq Streams
  BY DEF SetPriority, envVars, Inv, TypeInv
<1>6. TypeInv' /\ MemoryInv'
  <2> HIDE DEF e, entity
  <2> QED  BY <1>1, <1>2, <1>4, <1>5, OneEvent DEF Inv
<1>7. ScriptInv'
  BY IdleScript DEF SetPriority, Idle, handlerVars
<1> QED  BY <1>6, <1>7 DEF Inv

LEMMA WorkflowEventKeeps ==
  ASSUME Inv, NEW w \in Workflows, WorkflowEvent(w)
  PROVE  Inv'
<1>1. w \in Streams /\ w \notin Sessions /\ now \in Nat /\ StreamInv(w)
  BY CatalogueAssumption DEF Inv, TypeInv, MemoryInv
<1>2. TypeInv' /\ MemoryInv'
  <2>1. CASE w \in used
    <3>1. log[w] # Absent /\ Emit(w, Plain, index[w]) /\ Plain \in Later
      BY <2>1 DEF WorkflowEvent, Later
    <3>2. index[w] = IF Live(w) THEN After(index[w], Plain) ELSE Absent
      BY DEF After, Plain, Event, Live
    <3>3. /\ UNCHANGED <<workspaces, defaultLog, up, default, now, queued, late>>
          /\ used \subseteq used' /\ used' \subseteq Streams
      BY <1>1 DEF WorkflowEvent, Inv, TypeInv
    <3> QED  BY <1>1, <3>1, <3>2, <3>3, OneEvent DEF Inv
  <2>2. CASE w \notin used
    <3> DEFINE first == [status |-> "created", created |-> None, updated |-> now,
                         priority |-> 1]
    <3>1. log[w] = Absent /\ index[w] = Absent /\ w \notin queued
      BY <1>1, <2>2 DEF StreamInv
    <3>2. Folded(Absent, Plain) = [first EXCEPT !.updated = IF now > @ THEN now ELSE @]
      BY DEF Folded, Plain, Event
    <3>3. first \in Folds /\ Folded(Absent, Plain) = first
      BY <1>1, <3>2 DEF Folds, Statuses
    <3>4. first # Absent
      BY <3>3, AbsentIsNoFold
    <3>5. log' = [log EXCEPT ![w] = first]
      BY <3>1, <3>3 DEF WorkflowEvent, Emit, Inv, TypeInv
    <3>6. index' = index
      BY <1>1, <3>1 DEF WorkflowEvent, Emit, Touched, Inv, TypeInv
    <3> HIDE DEF first
    <3>7. TypeInv'
      BY <1>1, <3>3, <3>5, <3>6 DEF WorkflowEvent, Inv, TypeInv
    <3>8. ASSUME NEW r \in Streams PROVE StreamInv(r)'
      BY <1>1, <3>1, <3>4, <3>5, <3>6, <3>8
         DEF WorkflowEvent, Inv, TypeInv, MemoryInv, StreamInv, Live
    <3>9. MemoryInv'
      BY <3>8 DEF WorkflowEvent, Inv, MemoryInv
    <3> QED  BY <3>7, <3>9
  <2> QED  BY <2>1, <2>2
<1>3. ScriptInv'
  BY IdleScript DEF WorkflowEvent, Idle, handlerVars
<1> QED  BY <1>2, <1>3 DEF Inv

LEMMA DefaultsKeep ==
  ASSUME Inv, NEW knob \in Knobs, ClearDefault(knob) \/ \E v \in Values : SetDefault(knob, v)
  PROVE  Inv'
<1> USE DEF ClearDefault, SetDefault, unchangedByDefaults
<1>1. TypeInv'
  BY DEF Inv, TypeInv, envVars
<1>2. ASSUME NEW r \in Streams PROVE StreamInv(r)'
  BY <1>2, Untouched DEF Inv, MemoryInv, envVars
<1>3. up' => default' = defaultLog'
  <2>1. default = defaultLog
    BY DEF Inv, MemoryInv, Idle
  <2> QED  BY <2>1
<1>4. ScriptInv'
  BY IdleScript DEF Idle, handlerVars
<1> QED  BY <1>1, <1>2, <1>3, <1>4 DEF Inv, MemoryInv

-----------------------------------------------------------------------------
(* Time, crashes and restarts.                                             *)

LEMMA TickKeeps ==
  ASSUME Inv, Tick
  PROVE  Inv'
<1>1. script = <<>> /\ doomed = {}
  BY DEF Tick, Idle, Inv, ScriptInv
<1>2. TypeInv' /\ MemoryInv'
  BY HandlerOnly DEF Inv, TypeInv, Tick, memoryVars
<1>3. ScriptInv'
  BY <1>1, IdleScript DEF Tick, handlerVars
<1> QED  BY <1>2, <1>3 DEF Inv

LEMMA CrashKeeps ==
  ASSUME Inv, Crash
  PROVE  Inv'
<1> USE DEF Crash, diskVars
<1>1. TypeInv'
  BY DEF Inv, TypeInv
<1>2. ASSUME NEW r \in Streams PROVE StreamInv(r)'
  BY <1>2 DEF Inv, MemoryInv, StreamInv, Live
<1>3. ScriptInv'
  BY IdleScript
<1> QED  BY <1>1, <1>2, <1>3 DEF Inv, MemoryInv

LEMMA RestartKeeps ==
  ASSUME Inv, Restart
  PROVE  Inv'
<1>1. ASSUME NEW r \in Streams
      PROVE  /\ log'[r] \in Folds \cup {Absent} /\ index'[r] \in Folds \cup {Absent}
             /\ StreamInv(r)'
  <2>1. /\ log[r] \in Folds \cup {Absent} /\ StreamInv(r)
        /\ log'[r] \in {Absent, log[r]}
    BY DEF Inv, TypeInv, MemoryInv, Restart
  <2>2. /\ Rehydrated(log'[r]) \in Folds \cup {Absent}
        /\ Rehydrated(log'[r]) = Absent <=> log'[r] = Absent
        /\ Rehydrated(log'[r]).status = log'[r].status
        /\ Rehydrated(log'[r]).updated = log'[r].updated
        /\ log'[r].created # None => Rehydrated(log'[r]) = log'[r]
    <3>1. log'[r] \in Folds \cup {Absent}
      BY <2>1
    <3> QED  BY <3>1, ReplayKeeps
  <2>3. index'[r] = IF r \in queued' THEN Rehydrated(log'[r]) ELSE Absent
    BY DEF Restart
  <2>4. Absent.status # "deleted"
    BY AbsentIsNoFold DEF Statuses
  <2>5. /\ r \in queued' => r \in queued
        /\ r \in queued' \ late' => r \in queued \ late
        /\ workspaces' = workspaces /\ used' = used
    BY DEF Restart, envVars
  <2> QED  BY <2>1, <2>2, <2>3, <2>4, <2>5 DEF StreamInv, Live
<1>2. TypeInv'
  BY <1>1 DEF Inv, TypeInv, Restart, envVars
<1>3. MemoryInv'
  BY <1>1 DEF MemoryInv, Restart, Bootstrapped
<1>4. ScriptInv'
  BY IdleScript DEF Inv, ScriptInv, Restart, handlerVars
<1> QED  BY <1>2, <1>3, <1>4 DEF Inv

-----------------------------------------------------------------------------
(* The invariant of every behaviour.                                       *)

LEMMA InitInv ==
  ASSUME Init
  PROVE  Inv
<1> USE DEF Init
<1>1. TypeInv
  BY DEF TypeInv
<1>2. Absent.status # "deleted"
  BY AbsentIsNoFold DEF Statuses
<1>3. ASSUME NEW r \in Streams PROVE StreamInv(r)
  BY <1>2, <1>3 DEF StreamInv, Live
<1>4. ScriptInv
  BY Apart DEF ScriptInv
<1> QED  BY <1>1, <1>3, <1>4 DEF Inv, MemoryInv

LEMMA StepKeepsView ==
  ASSUME ViewInv, [Next]_vars
  PROVE  ViewInv'
<1>1. CASE UNCHANGED <<queued, shows, fresh>>
  BY <1>1 DEF ViewInv
<1>2. CASE CancelQueued
  BY <1>2 DEF CancelQueued, view, ViewInv
<1>3. ASSUME NEW s \in Streams, Enqueue(s) \/ Applies(s)  PROVE ViewInv'
  BY <1>3 DEF Enqueue, Applies, diskVars, ViewInv
<1>4. ASSUME NEW s \in Streams, NEW st \in Reports, RunReports(s, st)  PROVE ViewInv'
  BY <1>4 DEF RunReports, view, ViewInv
<1>5. CASE Crash \/ Restart
  BY <1>5 DEF Crash, Restart, diskVars, ViewInv
<1>6. CASE MakeWorkspace \/ EmitCreated \/ Mount \/ Register \/ RecordKey
            \/ DestroyWorkspace \/ EmitDeleted \/ Tick
  BY <1>1, <1>6 DEF MakeWorkspace, EmitCreated, Mount, Register, RecordKey, DestroyWorkspace,
                    EmitDeleted, Tick, diskVars, memoryVars, view
<1>7. ASSUME NEW s \in Streams,
             \/ DeleteBegins(s) \/ CleanupNext(s) \/ Fetch(s)
             \/ \E p \in Priorities : SetPriority(s, p)
      PROVE  ViewInv'
  BY <1>1, <1>7 DEF DeleteBegins, CleanupNext, Fetch, SetPriority, diskVars, memoryVars, view
<1>8. CASE \/ \E s \in Sessions, k \in Keys \cup {None} : CreateBegins(s, k)
           \/ \E cutoff \in 0 .. now : CleanupBegins(cutoff)
           \/ \E w \in Workflows : WorkflowEvent(w)
           \/ \E knob \in Knobs : ClearDefault(knob) \/ \E v \in Values : SetDefault(knob, v)
  BY <1>1, <1>8 DEF CreateBegins, CleanupBegins, WorkflowEvent, ClearDefault, SetDefault,
                    unchangedByDefaults, diskVars, memoryVars, view
<1>9. CASE UNCHANGED vars
  BY <1>1, <1>9 DEF vars, diskVars, memoryVars, view
<1> QED
  BY <1>2, <1>3, <1>4, <1>5, <1>6, <1>7, <1>8, <1>9, Zenon DEF Next

LEMMA StepKeepsInv ==
  ASSUME Inv, ViewInv, [Next]_vars
  PROVE  Inv'
<1>1. ASSUME NEW s \in Sessions, NEW k \in Keys \cup {None}, CreateBegins(s, k) PROVE Inv'
  BY <1>1, CreationKeeps
<1>2. CASE MakeWorkspace \/ EmitCreated \/ Mount \/ Register \/ RecordKey
  BY <1>2, MakeWorkspaceKeeps, EmitCreatedKeeps, MountKeeps, RegisterKeeps, RecordKeyKeeps
<1>3. CASE CancelQueued \/ DestroyWorkspace \/ EmitDeleted
  BY <1>3, CancelQueuedKeeps, DestroyWorkspaceKeeps, EmitDeletedKeeps
<1>4. ASSUME NEW s \in Streams, DeleteBegins(s) \/ CleanupNext(s) PROVE Inv'
  <2>1. CASE DeleteBegins(s)
    <3>1. log[s] # Absent
      BY <2>1 DEF DeleteBegins, Inv, MemoryInv, StreamInv
    <3> QED  BY <1>4, <2>1, <3>1, DestructionBegins DEF DeleteBegins, Idle
  <2>2. CASE CleanupNext(s)
    <3>1. log[s] # Absent
      BY <2>2 DEF CleanupNext, Inv, ScriptInv
    <3> QED  BY <1>4, <2>2, <3>1, DestructionBegins DEF CleanupNext
  <2> QED  BY <1>4, <2>1, <2>2
<1>5. ASSUME NEW s \in Streams, Fetch(s) \/ Enqueue(s) \/ Applies(s) PROVE Inv'
  BY <1>5, FetchKeeps, EnqueueKeeps, AppliesKeeps
<1>6. ASSUME NEW s \in Streams, NEW st \in Reports, RunReports(s, st) PROVE Inv'
  BY <1>6, RunReportsKeeps
<1>7. ASSUME NEW s \in Streams, NEW p \in Priorities, SetPriority(s, p) PROVE Inv'
  BY <1>7, SetPriorityKeeps
<1>8. ASSUME NEW cutoff \in 0 .. now, CleanupBegins(cutoff) PROVE Inv'
  BY <1>8, CleanupKeeps
<1>9. ASSUME NEW w \in Workflows, WorkflowEvent(w) PROVE Inv'
  BY <1>9, WorkflowEventKeeps
<1>10. ASSUME NEW knob \in Knobs,
              ClearDefault(knob) \/ \E v \in Values : SetDefault(knob, v)
       PROVE Inv'
  BY <1>10, DefaultsKeep
<1>11. CASE Tick \/ Crash \/ Restart
  BY <1>11, TickKeeps, CrashKeeps, RestartKeeps
<1>12. CASE UNCHANGED vars
  <2>1. NewSession' = NewSession
    BY <1>12 DEF vars, handlerVars, NewSession
  <2> USE <1>12 DEF vars, diskVars, memoryVars, handlerVars, envVars
  <2>2. TypeInv'
    BY DEF Inv, TypeInv
  <2>3. MemoryInv'
    BY Untouched DEF Inv, MemoryInv
  <2>4. ScriptInv'
    BY <2>1 DEF Inv, ScriptInv
  <2> QED  BY <2>2, <2>3, <2>4 DEF Inv
<1> QED
  BY <1>1, <1>2, <1>3, <1>4, <1>5, <1>6, <1>7, <1>8, <1>9, <1>10, <1>11, <1>12, Zenon DEF Next

(* Memory agrees with the disk, and the handler is where its script says.  *)
THEOREM CatalogueInvariant == Spec => []Inv
<1>1. Init => Inv /\ ViewInv
  BY InitInv DEF Init, ViewInv
<1>2. Inv /\ ViewInv /\ [Next]_vars => Inv' /\ ViewInv'
  BY StepKeepsInv, StepKeepsView
<1> QED  BY <1>1, <1>2, PTL DEF Spec

(* What the process answers of a live session, and of the deployment       *)
(* defaults, is what rehydrate_from_events and the bootstrap would read    *)
(* back from the logs.                                                     *)
THEOREM AnswersAreReplayed == Spec => []MemoryIsReplay
<1>1. Inv => MemoryIsReplay
  <2> SUFFICES ASSUME Inv PROVE MemoryIsReplay
    OBVIOUS
  <2>1. ASSUME NEW s \in Sessions, Live(s) PROVE index[s] = Rehydrated(log[s])
    BY <2>1 DEF Inv, MemoryInv, StreamInv, Rehydrated
  <2>2. up => default = defaultLog
    BY DEF Inv, MemoryInv
  <2> QED  BY <2>1, <2>2 DEF MemoryIsReplay
<1> QED  BY <1>1, CatalogueInvariant, PTL

(* destroy_session leaves no workspace behind and no waiting task that the *)
(* projection has applied, wherever the process dies in it and however far *)
(* the projection is behind the log.                                       *)
THEOREM DeletionIsComplete == Spec => []DeletedLeaveNothing
<1>1. Inv => DeletedLeaveNothing
  BY DEF Inv, MemoryInv, StreamInv, DeletedLeaveNothing
<1> QED  BY <1>1, CatalogueInvariant, PTL

(* The candidates of a cleanup are those their logs say, whether or not    *)
(* they are loaded.                                                        *)
THEOREM CleanupFindsAll == Spec => CleanupIsExact
<1>1. ASSUME Inv, [Next]_vars, NEW cutoff \in Times, CleanupBegins(cutoff)
      PROVE  doomed' = {s \in Streams : /\ log[s] # Absent /\ log[s].status # "deleted"
                                        /\ log[s].updated < cutoff}
  <2>1. ASSUME NEW s \in Streams
        PROVE  /\ Known(s) # Absent <=> log[s] # Absent
               /\ Known(s).status = log[s].status
               /\ log[s] # Absent => Known(s).updated = log[s].updated
    <3>1. StreamInv(s) /\ log[s] \in Folds \cup {Absent}
      BY <1>1 DEF Inv, MemoryInv, TypeInv
    <3>2. CASE Live(s)
      BY <3>1, <3>2 DEF Known, StreamInv, Live
    <3>3. CASE ~Live(s)
      BY <3>1, <3>3, ReplayKeeps DEF Known
    <3> QED  BY <3>2, <3>3
  <2>2. doomed' = {s \in Streams : /\ Known(s) # Absent /\ Known(s).status # "deleted"
                                   /\ Known(s).updated < cutoff}
    BY <1>1 DEF CleanupBegins, Candidates, Examined
  <2> QED  BY <2>1, <2>2
<1>2. Inv /\ [Next]_vars =>
        [\A cutoff \in Times : CleanupBegins(cutoff) =>
           doomed' = {s \in Streams : /\ log[s] # Absent /\ log[s].status # "deleted"
                                      /\ log[s].updated < cutoff}]_vars
  BY <1>1
<1> QED  BY CatalogueInvariant, <1>2, PTL DEF Spec, CleanupIsExact

-----------------------------------------------------------------------------
(* The answers.                                                            *)

(* A key is recorded for a session that is loaded, and stays so.           *)
KeysInv ==
  /\ keys \in [Keys -> Sessions \cup {None}]
  /\ \A k \in Keys : keys[k] # None => up /\ Live(keys[k])
  /\ script = ToRecord =>
       /\ subject.id \in Sessions /\ Live(subject.id) /\ subject.key \in Keys \cup {None}
  /\ script \in {ToMake, ToEmit, ToMount, ToRegister} => subject.key \in Keys \cup {None}

(* A session that is loaded stays so until the process ends.               *)
LEMMA LiveStays ==
  ASSUME Inv, Inv', Next, ~Crash, ~Restart, NEW s \in Streams, Live(s)
  PROVE  Live(s)'
<1>1. index[s] \in Folds /\ log[s] # Absent
  BY DEF Inv, TypeInv, MemoryInv, StreamInv, Live
<1>2. CASE index'[s] = index[s]
  BY <1>2 DEF Live
<1>3. ASSUME NEW r \in Streams, NEW e, NEW entity \in Folds, r = s, Emit(r, e, entity)
      PROVE  Live(s)'
  <2>1. index'[s] = Touched(entity)
    BY <1>3 DEF Emit, Inv, TypeInv
  <2>2. Touched(entity).status = entity.status
    BY <1>3 DEF Touched, Folds
  <2>3. entity.status \in Statuses
    BY <1>3 DEF Folds
  <2> QED  BY <2>1, <2>2, <2>3, AbsentIsNoFold DEF Live
<1>4. ASSUME NEW r \in Streams, NEW e, NEW entity, r # s, Emit(r, e, entity)
      PROVE  Live(s)'
  BY <1>4 DEF Emit, Inv, TypeInv, Live
<1>5. ASSUME NEW r \in Streams, Fetch(r)  PROVE Live(s)'
  BY <1>5 DEF Fetch, Fetched, Inv, TypeInv, Live
<1>6. CASE MakeWorkspace \/ Mount \/ RecordKey \/ DestroyWorkspace \/ Tick
  BY <1>2, <1>6 DEF MakeWorkspace, Mount, RecordKey, DestroyWorkspace, Tick, memoryVars
<1>7. CASE EmitCreated \/ CancelQueued \/ EmitDeleted
  <2>1. subject.id \in Streams
    BY <1>7, Steps DEF Inv, ScriptInv, EmitCreated, CancelQueued, EmitDeleted
  <2>2. [index[s] EXCEPT !.status = "deleted"] \in Folds
    BY <1>1 DEF Folds, Statuses
  <2>3. \/ index'[s] = index[s]
        \/ \E e : Emit(subject.id, e, index[subject.id])
        \/ \E e : Emit(subject.id, e, IF Live(subject.id)
                                     THEN [index[subject.id] EXCEPT !.status = "deleted"]
                                     ELSE Absent)
    BY <1>7 DEF EmitCreated, CancelQueued, EmitDeleted
  <2> QED  BY <1>1, <1>2, <1>3, <1>4, <2>1, <2>2, <2>3
<1>8. CASE Register
  <2>1. subject.id \in Sessions /\ index[subject.id] = Absent
    BY <1>8, Steps DEF Inv, ScriptInv, Register
  <2> QED  BY <1>2, <1>8, <2>1 DEF Register, Live
<1>9. ASSUME NEW r \in Streams,
             \/ DeleteBegins(r) \/ CleanupNext(r) \/ Applies(r)
             \/ \E t \in Sessions, k \in Keys \cup {None} : CreateBegins(t, k)
             \/ \E cutoff \in 0 .. now : CleanupBegins(cutoff)
             \/ \E knob \in Knobs : ClearDefault(knob) \/ \E v \in Values : SetDefault(knob, v)
      PROVE  Live(s)'
  BY <1>2, <1>9 DEF DeleteBegins, CleanupNext, Applies, CreateBegins, CleanupBegins, ClearDefault,
                    SetDefault, unchangedByDefaults, memoryVars
<1>10. ASSUME NEW r \in Streams,
              \/ Enqueue(r)
              \/ \E st \in Reports : RunReports(r, st)
              \/ \E p \in Priorities : SetPriority(r, p)
       PROVE  Live(s)'
  <2>1. CASE r # s
    BY <1>4, <1>10, <2>1 DEF Enqueue, RunReports, SetPriority
  <2>2. CASE r = s
    <3>1. \A st \in Reports : [index[s] EXCEPT !.status = st] \in Folds
      BY <1>1 DEF Folds, Statuses
    <3>2. \A p \in Priorities : [index[s] EXCEPT !.priority = p] \in Folds
      BY <1>1, CatalogueAssumption DEF Folds
    <3> QED  BY <1>1, <1>3, <1>10, <2>2, <3>1, <3>2 DEF Enqueue, RunReports, SetPriority
  <2> QED  BY <2>1, <2>2
<1>11. ASSUME NEW w \in Workflows, WorkflowEvent(w)  PROVE Live(s)'
  <2>1. Emit(w, Plain, index[w]) /\ w \in Streams
    BY <1>11 DEF WorkflowEvent
  <2> QED  BY <1>1, <1>3, <1>4, <2>1
<1> QED
  BY <1>5, <1>6, <1>7, <1>8, <1>9, <1>10, <1>11, Zenon DEF Next

(* The handler of a creation: its subject stays until its key is recorded. *)
LEMMA KeysStep == Inv /\ Inv' /\ KeysInv /\ [Next]_vars => KeysInv'
<1> SUFFICES ASSUME Inv, Inv', KeysInv, [Next]_vars  PROVE KeysInv'
  OBVIOUS
<1>1. CASE UNCHANGED vars
  BY <1>1 DEF vars, memoryVars, handlerVars, KeysInv, Live
<1>2. CASE Crash \/ Restart
  <2>1. script' = <<>> /\ keys' \in [Keys -> Sessions \cup {None}]
    BY <1>2 DEF Crash, Restart, KeysInv, handlerVars, Inv, ScriptInv
  <2>2. \A k \in Keys : keys'[k] = None
    BY <1>2 DEF Crash, Restart, KeysInv
  <2> QED  BY <2>1, <2>2, Apart DEF KeysInv
<1> DEFINE Goes ==
      \/ script' = script /\ subject' = subject
      \/ script' \notin {ToMake, ToEmit, ToMount, ToRegister, ToRecord}
      \/ /\ script \in {ToMake, ToEmit, ToMount} /\ script' \in {ToEmit, ToMount, ToRegister}
         /\ subject' = subject
<1>3. CASE Next /\ ~Crash /\ ~Restart
  <2>1. up' = up /\ \A s \in Streams : Live(s) => index'[s] # Absent
    <3>1. \A s \in Streams : Live(s) => Live(s)'
      BY <1>3, LiveStays
    <3>2. up' = up
      BY <1>3 DEF Next, CreateBegins, MakeWorkspace, EmitCreated, Mount, Register, RecordKey,
                  CancelQueued, DestroyWorkspace, EmitDeleted, DeleteBegins, CleanupNext, Fetch,
                  Enqueue, Applies, RunReports, SetPriority, CleanupBegins, WorkflowEvent,
                  ClearDefault, SetDefault, unchangedByDefaults, Tick
    <3> QED  BY <3>1, <3>2 DEF Live
  <2>2. ASSUME keys' = keys, Goes  PROVE KeysInv'
    BY <2>1, <2>2, Apart DEF KeysInv, Live
  <2>3. ASSUME NEW s \in Sessions, NEW key \in Keys \cup {None}, CreateBegins(s, key)
        PROVE  KeysInv'
    <3>1. keys' = keys /\ script' = ToMake /\ subject'.key = key
      BY <2>3, Apart DEF CreateBegins, memoryVars
    <3> QED  BY <2>1, <3>1, Apart DEF KeysInv, Live
  <2>4. CASE MakeWorkspace \/ EmitCreated \/ Mount
    <3>1. Goes
      <4>1. CASE Mount
        <5>1. script = ToMount /\ \E rest \in {ToRegister, <<>>} : GoesOn(rest)
          BY <4>1, Steps DEF Mount, Inv
        <5> QED  BY <5>1, Apart DEF GoesOn
      <4>2. CASE MakeWorkspace \/ EmitCreated
        BY <4>2, Steps DEF MakeWorkspace, EmitCreated, Inv
      <4> QED  BY <2>4, <4>1, <4>2
    <3>2. keys' = keys
      BY <2>4 DEF MakeWorkspace, EmitCreated, Mount, memoryVars
    <3> QED  BY <2>2, <3>1, <3>2
  <2>5. CASE Register
    <3>1. script = ToRegister /\ script' = ToRecord /\ subject' = subject /\ keys' = keys
      BY <2>5, Steps DEF Register, Inv
    <3>2. subject.id \in Sessions
      BY <3>1 DEF Inv, ScriptInv
    <3>3. index'[subject.id] = NewSession
      BY <2>5, <3>2 DEF Register, Inv, TypeInv
    <3>4. NewSession # Absent
      <4>1. NewSession.status = "created"
        BY DEF NewSession
      <4> QED  BY <4>1, AbsentIsNoFold DEF Statuses
    <3> QED  BY <2>1, <3>1, <3>2, <3>3, <3>4, Apart DEF KeysInv, Live
  <2>6. CASE RecordKey
    <3>1. script = ToRecord /\ script' = <<>>
      BY <2>6, Steps DEF RecordKey, Inv
    <3>2. /\ subject.id \in Sessions /\ index'[subject.id] # Absent
          /\ subject.key \in Keys \cup {None} /\ up
      BY <2>1, <3>1, Apart DEF KeysInv, Inv, ScriptInv
    <3>3. keys' = IF subject.key = None THEN keys ELSE [keys EXCEPT ![subject.key] = subject.id]
      BY <2>6 DEF RecordKey
    <3>4. /\ keys' \in [Keys -> Sessions \cup {None}]
          /\ \A k \in Keys : keys'[k] # None => up' /\ index'[keys'[k]] # Absent
      BY <2>1, <3>2, <3>3 DEF KeysInv, Live
    <3> QED  BY <3>1, <3>4, Apart DEF KeysInv, Live
  <2>7. CASE CancelQueued \/ DestroyWorkspace \/ EmitDeleted
    <3>1. Goes
      BY <2>7, Steps, Apart DEF CancelQueued, DestroyWorkspace, EmitDeleted, Inv
    <3>2. keys' = keys
      BY <2>7 DEF CancelQueued, DestroyWorkspace, EmitDeleted, memoryVars
    <3> QED  BY <2>2, <3>1, <3>2
  <2>8. ASSUME NEW s \in Streams, DeleteBegins(s) \/ CleanupNext(s)  PROVE KeysInv'
    <3>1. Goes /\ keys' = keys
      BY <2>8, Apart DEF DeleteBegins, CleanupNext, memoryVars
    <3> QED  BY <2>2, <3>1
  <2>9. ASSUME \/ \E s \in Streams :
                    \/ Fetch(s) \/ Enqueue(s) \/ Applies(s)
                    \/ \E st \in Reports : RunReports(s, st)
                    \/ \E p \in Priorities : SetPriority(s, p)
               \/ \E cutoff \in 0 .. now : CleanupBegins(cutoff)
               \/ \E w \in Workflows : WorkflowEvent(w)
               \/ \E knob \in Knobs : ClearDefault(knob) \/ \E v \in Values : SetDefault(knob, v)
               \/ Tick
        PROVE  KeysInv'
    <3>1. script' = script /\ subject' = subject /\ keys' = keys
      BY <2>9 DEF Fetch, Enqueue, Applies, RunReports, SetPriority, CleanupBegins, WorkflowEvent,
                  ClearDefault, SetDefault, unchangedByDefaults, Tick, memoryVars, handlerVars
    <3> QED  BY <2>2, <3>1
  <2> HIDE DEF Goes
  <2> QED  BY <1>3, <2>3, <2>4, <2>5, <2>6, <2>7, <2>8, <2>9, Zenon DEF Next
<1> QED  BY <1>1, <1>2, <1>3

LEMMA AnswersAlways == Spec => [](Inv /\ KeysInv)
<1>1. Init => KeysInv
  BY Apart DEF Init, KeysInv
<1> QED  BY <1>1, CatalogueInvariant, KeysStep, PTL DEF Spec

(* What a client asks of a key, a session, the list, a cleanup and a       *)
(* default is answered consistently, by routes and tools.                  *)
THEOREM AnswersAreConsistent == Spec => []AnswersAgree
<1>1. ASSUME Inv, KeysInv, NEW k \in Keys, keys[k] # None,
             NEW o \in Outcomes \ {"unknown_model"}
      PROVE  LET again == CreateAnswer(None, k, o)
             IN /\ again.code = 200 /\ CreateTool(None, k, o) = again
                /\ ShowAnswer(again.session_id).code = 200
                /\ DeleteAnswer(again.session_id).code = 200
  <2>1. k # None /\ Live(keys[k])
    BY <1>1, CatalogueAssumption DEF KeysInv
  <2>2. CreateAnswer(None, k, o) = CreatedAnswer(keys[k])
    BY <1>1, <2>1 DEF CreateAnswer
  <2>3. /\ CreatedAnswer(keys[k]).code = 200 /\ CreatedAnswer(keys[k]).session_id = keys[k]
        /\ CreateTool(None, k, o) = CreatedAnswer(keys[k])
    BY <2>2 DEF CreatedAnswer, CreateTool, Told
  <2>4. ShowAnswer(keys[k]).code = 200
    BY <2>1 DEF ShowAnswer, Fetched, Live
  <2>5. DeleteAnswer(keys[k]).code = 200
    BY <2>1 DEF DeleteAnswer
  <2> QED  BY <2>2, <2>3, <2>4, <2>5
<1>2. ASSUME Inv, NEW s \in Streams
      PROVE  LET shown == ShowAnswer(s)
                 listed == ListAnswer(Query(TRUE, None)).rows
             IN /\ (shown.code = 200) <=> \E row \in listed : row.session_id = s
                /\ shown.code = 200 => shown.session \in listed
                /\ OneSessionTools(s).mad_delete_session # ToolError =>
                     OneSessionTools(s).mad_get_session = shown
  <2>1. Known(s) = Fetched(s)
    BY DEF Known, Fetched
  <2>2. ListAnswer(Query(TRUE, None)).rows
          = {Shown(r, Known(r)) : r \in {q \in Streams : Known(q) # Absent}}
    BY DEF ListAnswer, Query, Matches, Within
  <2>3. \A r : Shown(r, Known(r)).session_id = r
    BY DEF Shown
  <2>4. (ShowAnswer(s).code = 200) <=> Known(s) # Absent
    BY <2>1 DEF ShowAnswer, Refused
  <2>5. Known(s) # Absent => ShowAnswer(s).session = Shown(s, Known(s))
    BY <2>1 DEF ShowAnswer
  <2>6. OneSessionTools(s).mad_delete_session # ToolError =>
          OneSessionTools(s).mad_get_session = ShowAnswer(s)
    <3>1. ~Live(s) => OneSessionTools(s).mad_delete_session = ToolError
      BY DEF OneSessionTools, DeleteAnswer, Refused, Told
    <3>2. Live(s) => ShowAnswer(s).code = 200
      BY <2>4 DEF Known, Live
    <3>3. ShowAnswer(s).code = 200 => OneSessionTools(s).mad_get_session = ShowAnswer(s)
      BY DEF OneSessionTools, Told
    <3> QED  BY <3>1, <3>2, <3>3
  <2> DEFINE listed == ListAnswer(Query(TRUE, None)).rows
  <2>7. Known(s) # Absent <=> \E row \in listed : row.session_id = s
    BY <2>2, <2>3
  <2>8. Known(s) # Absent => Shown(s, Known(s)) \in listed
    BY <2>2
  <2> HIDE DEF listed
  <2> QED  BY <2>4, <2>5, <2>6, <2>7, <2>8 DEF listed
<1>3. ASSUME Inv, NEW cutoff \in 0 .. now
      PROVE  LET tools == SessionTools(Query(FALSE, cutoff), cutoff)
             IN tools.mad_cleanup_sessions.would_delete =
                  {row.session_id : row \in {r \in tools.mad_list_sessions.rows :
                                               r.updated_at # cutoff}}
  <2> DEFINE listed == {r \in Streams : /\ Known(r) # Absent /\ Known(r).status # "deleted"
                                        /\ Known(r).updated <= cutoff}
             rows == {Shown(r, Known(r)) : r \in listed}
  <2>1. cutoff \in Nat /\ cutoff # None /\ ~(cutoff > now)
    BY <1>3, CatalogueAssumption DEF Inv, TypeInv
  <2>2. \A r \in Streams : Known(r) # Absent => Known(r).updated \in Nat
    <3> SUFFICES ASSUME NEW r \in Streams, Known(r) # Absent  PROVE Known(r).updated \in Nat
      OBVIOUS
    <3>1. Known(r) \in Folds \cup {Absent}
      BY <1>3, ReplayKeeps DEF Known, Inv, TypeInv
    <3> QED  BY <3>1 DEF Folds
  <2>3. SessionTools(Query(FALSE, cutoff), cutoff).mad_list_sessions.rows = rows
    <3>1. ListAnswer(Query(FALSE, cutoff)).rows = rows
      BY <2>1 DEF ListAnswer, Query, Matches, Within
    <3>2. ListAnswer(Query(FALSE, cutoff)).code = 200
      BY DEF ListAnswer
    <3>3. \A answer : answer.code = 200 => Told(answer) = answer
      BY DEF Told
    <3> HIDE DEF rows
    <3> QED  BY <3>1, <3>2, <3>3 DEF SessionTools
  <2>4. SessionTools(Query(FALSE, cutoff), cutoff).mad_cleanup_sessions.would_delete
          = Candidates(cutoff)
    BY <2>1 DEF SessionTools, Told, CleanupAnswer
  <2>5. \A r : Shown(r, Known(r)).session_id = r /\ Shown(r, Known(r)).updated_at = Known(r).updated
    BY DEF Shown
  <2>6. {row.session_id : row \in {r \in rows : r.updated_at # cutoff}}
          = {r \in listed : Known(r).updated # cutoff}
    BY <2>5
  <2>7. Candidates(cutoff) = {r \in listed : Known(r).updated # cutoff}
    BY <2>1, <2>2 DEF Candidates, Examined
  <2> QED  BY <2>3, <2>4, <2>6, <2>7
<1>4. ASSUME Inv, Idle, NEW v \in Values
      PROVE  LET tools == DefaultTools(v)
             IN /\ tools.mad_get_deployment_model.value = defaultLog["model"]
                /\ tools.mad_get_deployment_effort.value = defaultLog["effort"]
  <2>1. default = defaultLog
    BY <1>4 DEF Inv, MemoryInv, Idle
  <2> QED  BY <2>1 DEF DefaultTools, DefaultAnswer, Told
<1>5. Inv /\ KeysInv => AnswersAgree
  <2> SUFFICES ASSUME Inv, KeysInv  PROVE AnswersAgree
    OBVIOUS
  <2> QED  BY <1>1, <1>2, <1>3, <1>4, Zenon DEF AnswersAgree
<1> QED  BY <1>5, AnswersAlways, PTL
=============================================================================
