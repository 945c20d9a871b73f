---------------------------- MODULE Provisioning ----------------------------
(***************************************************************************)
(* What POST /v1/sessions does to the file system (core/sessions/          *)
(* use_cases/create_session.py, domain/value_objects/mount_path.py and     *)
(* adapters/outbound/persistence/local_workspace_provisioner.py): it       *)
(* mounts the resources of the request one after the other, clones and     *)
(* files, and installs Mad's hooks in every clone.  SessionCatalogue has   *)
(* the same handler as one of its scripts and leaves out the files.        *)
(*                                                                         *)
(* A mount path is the sequence of its names after the first slash, ".."   *)
(* among them; "." and doubled slashes are left out.  A place is where a   *)
(* path leads, as the sequence of names below the base directory: the      *)
(* session's workspace is <<"mad">>, and <<"workspace">> is a directory    *)
(* beside it, which MountPath lets every session reach by way of "..".     *)
(***************************************************************************)
EXTENDS Naturals, Sequences, SequencesExt

CONSTANTS Mounts,       \* mount paths that a request may give
          Directories,  \* those that it may give as its working directory
          Elsewhere,    \* mount paths that other sessions may give
          Places,       \* where they lead, and the places on the way
          Branches,     \* of None, "known" and "unknown" to the repository
          MaxResources, \* of a request
          HookEvents,   \* events of Mad's settings.local.json
          Ships,        \* what a repository may track at the hooks' places
          None          \* a model value

Base == <<>>
Workspace == <<"mad">>

-----------------------------------------------------------------------------
(* Paths.                                                                  *)

Step(place, name) == IF name = ".." THEN Front(place) ELSE Append(place, name)

(* Where the first n names of a path lead.                                 *)
Walk(start, names) ==
  LET place[n \in 0 .. Len(names)] ==
        IF n = 0 THEN start ELSE Step(place[n - 1], names[n])
  IN place

(* MountPath: the path never leaves the root by "..", and ends at          *)
(* /workspace or below.                                                    *)
ValidMount(mount) ==
  LET logical == Walk(<<>>, mount)
  IN /\ \A n \in DOMAIN mount : mount[n] = ".." => logical[n - 1] # <<>>
     /\ logical[Len(mount)] # <<>> /\ Head(logical[Len(mount)]) = "workspace"

(* _resolve_mount strips the prefix of the path as it is given, and joins  *)
(* the rest, ".." included, to the workspace.                              *)
Relative(mount) ==
  IF mount # <<>> /\ Head(mount) = "workspace" THEN Tail(mount) ELSE mount
Resolve(mount) == Walk(Workspace, Relative(mount))[Len(Relative(mount))]

(* The directories that mkdir(parents=True) and open walk through.         *)
Way(mount) == Range(Walk(Workspace, Relative(mount)))

HooksDir(p) == p \o <<".claude", "hooks">>
ForwarderAt(p) == p \o <<".claude", "hooks", "forward.sh">>
SettingsAt(p) == p \o <<".claude", "settings.local.json">>

-----------------------------------------------------------------------------
(* Nodes of the file system.                                               *)

Directory == [kind |-> "directory"]
Nothing == [kind |-> "nothing"]
Forward == "forward"   \* a matcher group that runs forward.sh

(* A settings.local.json: not there, not JSON, JSON but no object, or the  *)
(* matcher groups of each hook event.                                      *)
NoSettings == [kind |-> "absent"]
Hooks(groups) == [kind |-> "hooks", groups |-> groups]
Settings == {NoSettings, [kind |-> "malformed"], [kind |-> "list"]}
              \cup [kind : {"hooks"}, groups : [HookEvents -> Seq({Forward, "project"})]]

(* What a repository tracks: its settings.local.json and its forward.sh,   *)
(* none, the one an earlier session installed, executable as it was, or    *)
(* another one of the project.                                             *)
Tracked == [settings : Settings, forwarder : {"none", "mad", "project"}]
NothingTracked == [settings |-> NoSettings, forwarder |-> "none"]

(* The resource 0 stands for those of every other session.                 *)
File(k) == [kind |-> "file", of |-> k]
Clone(k, ships) == [kind |-> "clone", of |-> k, ships |-> ships, excluded |-> FALSE]
SettingsFile(settings) == [kind |-> "settings", holds |-> settings]
Forwarder(by) == [kind |-> "forwarder", by |-> by]

IsDirectory(node) == node.kind \in {"directory", "clone"}
IsFile(node) == node.kind \in {"file", "settings", "forwarder"}

(* A path does not come back to the place it leads to, nor from below it:  *)
(* rmtree of such a path removes a directory that it stands on.            *)
ASSUME ProvisioningAssumption ==
  /\ Places \subseteq Seq(STRING) /\ Workspace \in Places /\ Base \notin Places
  /\ \A m \in Mounts \cup Elsewhere : ValidMount(m) =>
       /\ Way(m) \ {Base} \subseteq Places
       /\ {Resolve(m), HooksDir(Resolve(m)), ForwarderAt(Resolve(m)), SettingsAt(Resolve(m))}
            \subseteq Places
       /\ \A n \in 0 .. Len(Relative(m)) - 1 :
            ~IsPrefix(Resolve(m), Walk(Workspace, Relative(m))[n])
  /\ Directories \subseteq Mounts
  /\ MaxResources \in Nat
  /\ None \notin Nat /\ None \notin Places /\ None \notin Mounts
  /\ Ships \subseteq Tracked

(* ResourceSpec; the branch of a file is not read.                         *)
Resources == [type : {"github_repository"}, mount_path : Mounts, base_branch : Branches]
               \cup [type : {"file"}, mount_path : Mounts, base_branch : {None}]
Requests == [resources : BoundedSeq(Resources, MaxResources),
             working_directory : Directories \cup {None}, base_branch : Branches]
NoRequest == [resources |-> <<>>, working_directory |-> None, base_branch |-> None]

VARIABLES
  disk,     \* what is at each place
  logged,   \* working directory in session.created, or None
  session,  \* in the live index: "none", "created" or "fetched"
  (* The handler. *)
  request,
  at,       \* the resource under way
  phase,    \* "idle", "mount", "clone" or "install"
  answer,   \* status of the response, or None
  others,   \* what other sessions mounted outside the workspace since the
            \* request, and where: an observation
  up

handlerVars == <<request, at, phase, answer>>
vars == <<disk, logged, session, handlerVars, others, up>>

Place(k) == Resolve(request.resources[k].mount_path)
IsRepository(r) == r.type = "github_repository"

(* Wrong variant of WorkingDirectory: the first clone of several.          *)
WorkingDirectoryFirst(r) ==
  LET clones == {k \in DOMAIN r.resources : IsRepository(r.resources[k])}
  IN IF r.working_directory # None THEN Resolve(r.working_directory)
     ELSE IF clones # {}
          THEN Resolve(r.resources[CHOOSE k \in clones : \A j \in clones : k <= j].mount_path)
          ELSE Workspace

(* _resolve_working_directory: explicit, or the only clone, or the         *)
(* workspace.                                                              *)
WorkingDirectory(r) ==
  LET clones == {k \in DOMAIN r.resources : IsRepository(r.resources[k])}
  IN IF r.working_directory # None THEN Resolve(r.working_directory)
     ELSE IF \E k \in clones : clones = {k}
          THEN Resolve(r.resources[CHOOSE k \in clones : TRUE].mount_path)
          ELSE Workspace

-----------------------------------------------------------------------------
(* Operations on a disk d.                                                 *)

(* mkdir and write_text meet a file on the way.                            *)
Blocked(d, way) == \E q \in way \cap Places : IsFile(d[q])

(* mkdir(parents=True, exist_ok=True).                                     *)
MadeDirs(d, way) ==
  [q \in Places |-> IF q \in way /\ d[q] = Nothing THEN Directory ELSE d[q]]

(* Wrong variant of Removed: the whole workspace is emptied.               *)
RemovedAll(d, p) ==
  [q \in Places |-> IF IsStrictPrefix(Workspace, q) \/ IsPrefix(p, q) THEN Nothing ELSE d[q]]

(* shutil.rmtree.                                                          *)
Removed(d, p) == [q \in Places |-> IF IsPrefix(p, q) THEN Nothing ELSE d[q]]

(* The mount point is made, and removed with all that is in it.            *)
Emptied(d, way, p) == Removed(MadeDirs(d, way), p)

(* git clone; of what the project tracks, only the hooks' places matter.   *)
Cloned(d, p, k, ships) ==
  [q \in Places |->
     CASE q = p -> Clone(k, ships)
       [] q = SettingsAt(p) /\ ships.settings # NoSettings -> SettingsFile(ships.settings)
       [] q = ForwarderAt(p) /\ ships.forwarder # "none" -> Forwarder(ships.forwarder)
       [] IsStrictPrefix(p, q) /\ IsPrefix(q, HooksDir(p)) /\ ships # NothingTracked ->
            Directory
       [] OTHER -> d[q]]

(* materialize_file.                                                       *)
Written(d, way, p, k) == [MadeDirs(d, way \ {p}) EXCEPT ![p] = File(k)]

-----------------------------------------------------------------------------
(* The hooks.                                                              *)

HasForward(groups) == \E i \in DOMAIN groups : groups[i] = Forward

(* Wrong variant of Merged: Mad's group is always added.                   *)
MergedAgain(existing) ==
  Hooks([e \in HookEvents |-> Append(existing.groups[e], Forward)])

(* _merge_hook_bootstrap, with Mad's one group for every event.            *)
Merged(existing) ==
  Hooks([e \in HookEvents |-> IF HasForward(existing.groups[e]) THEN existing.groups[e]
                              ELSE Append(existing.groups[e], Forward)])

Bootstrap == Hooks([e \in HookEvents |-> <<Forward>>])

(* forward.sh is written whatever the project has at its place.            *)
WithForwarder(d, p) ==
  [q \in Places |->
     CASE q = ForwarderAt(p) -> Forwarder("mad")
       [] IsStrictPrefix(p, q) /\ IsPrefix(q, HooksDir(p)) -> Directory
       [] OTHER -> d[q]]

(* Wrong variant of Installed: the exclude file is left alone.             *)
InstalledVisibly(d, p) ==
  [WithForwarder(d, p) EXCEPT
     ![SettingsAt(p)] =
        SettingsFile(IF d[SettingsAt(p)] = Nothing THEN Bootstrap
                     ELSE Merged(d[SettingsAt(p)].holds))]

(* _install_claude_hooks, when the project's settings can be merged.       *)
Installed(d, p) ==
  [WithForwarder(d, p) EXCEPT
     ![SettingsAt(p)] =
        SettingsFile(IF d[SettingsAt(p)] = Nothing THEN Bootstrap
                     ELSE Merged(d[SettingsAt(p)].holds)),
     ![p].excluded = TRUE]

-----------------------------------------------------------------------------
(* The handler.                                                            *)

Fails(status) == phase' = "idle" /\ answer' = status /\ UNCHANGED <<request, at>>
GoesOn == phase' = "mount" /\ at' = at + 1 /\ UNCHANGED <<request, answer>>

Resource == request.resources[at]
Passed == Way(Resource.mount_path)
Mounting(type) == phase = "mount" /\ at <= Len(request.resources) /\ Resource.type = type

(* All mount paths are looked at before anything is done; then the         *)
(* workspace is made and session.created emitted.                          *)
Post ==
  /\ up /\ phase = "idle" /\ session = "none" /\ logged = None
  /\ \E r \in Requests :
       LET mounts == {r.resources[k].mount_path : k \in DOMAIN r.resources}
                       \cup ({r.working_directory} \ {None})
       IN IF \A m \in mounts : ValidMount(m)
          THEN /\ disk' = [disk EXCEPT ![Workspace] = Directory]
               /\ logged' = WorkingDirectory(r)
               /\ request' = r /\ at' = 1 /\ phase' = "mount" /\ answer' = None
               /\ others' = {}
          ELSE /\ answer' = 400
               /\ UNCHANGED <<disk, logged, request, at, phase, others>>
  /\ UNCHANGED <<session, up>>

(* materialize_github_repo up to the clone.  Of a mkdir that fails, the    *)
(* directories made before it met the file are left out.                   *)
MakeRoom ==
  /\ Mounting("github_repository")
  /\ IF Blocked(disk, Passed)
     THEN Fails(500) /\ UNCHANGED disk
     ELSE /\ disk' = Emptied(disk, Passed, Place(at))
          /\ phase' = "clone"
          /\ UNCHANGED <<request, at, answer>>
  /\ UNCHANGED <<logged, session, others, up>>

GitClone ==
  /\ phase = "clone"
  /\ \/ Fails(502) /\ UNCHANGED disk
     \/ \E ships \in Ships :
          /\ disk' = Cloned(disk, Place(at), at, ships)
          /\ phase' = "install"
          /\ UNCHANGED <<request, at, answer>>
  /\ UNCHANGED <<logged, session, others, up>>

(* The branch is checked out, then the hooks are installed; forward.sh is  *)
(* written before the project's settings are read.                         *)
Install ==
  LET p == Place(at)
      shipped == disk[p].ships.settings.kind
      branch == IF Resource.base_branch # None THEN Resource.base_branch
                ELSE request.base_branch
  IN /\ phase = "install"
     /\ CASE branch = "unknown" -> Fails(400) /\ UNCHANGED disk
          [] branch # "unknown" /\ shipped \in {"malformed", "list"} ->
               /\ disk' = WithForwarder(disk, p)
               /\ Fails(IF shipped = "malformed" THEN 400 ELSE 500)
          [] OTHER -> disk' = Installed(disk, p) /\ GoesOn
     /\ UNCHANGED <<logged, session, others, up>>

WriteFile ==
  /\ Mounting("file")
  /\ IF Blocked(disk, Passed \ {Place(at)}) \/ IsDirectory(disk[Place(at)])
     THEN Fails(500) /\ UNCHANGED disk
     ELSE disk' = Written(disk, Passed, Place(at), at) /\ GoesOn
  /\ UNCHANGED <<logged, session, others, up>>

Created ==
  /\ phase = "mount" /\ at > Len(request.resources)
  /\ session' = "created"
  /\ phase' = "idle" /\ answer' = 200
  /\ UNCHANGED <<disk, logged, request, at, others, up>>

-----------------------------------------------------------------------------
(* Later.                                                                  *)

(* The request of another session mounts at a place outside the workspace. *)
(* The mounts of a request are one synchronous stretch, so that it comes   *)
(* before them or after; after a creation that failed it shows in nothing  *)
(* and is left out.  A clone fails, or tracks nothing of its own.          *)
OtherMounts ==
  /\ up /\ phase = "idle" /\ (logged = None \/ answer = 200)
  /\ \E m \in Elsewhere :
       LET p == Resolve(m)
           way == {q \in Way(m) : ~IsPrefix(Workspace, q)}
           room == Emptied(disk, way, p)
       IN /\ ValidMount(m) /\ ~IsPrefix(Workspace, p)
          /\ \/ /\ ~Blocked(disk, way)
                /\ \/ disk' = room
                   \/ disk' = Installed(Cloned(room, p, 0, NothingTracked), p)
                /\ others' = others \cup {[type |-> "github_repository", place |-> p]}
             \/ /\ ~Blocked(disk, way \ {p}) /\ ~IsDirectory(disk[p])
                /\ disk' = Written(disk, way, p, 0)
                /\ others' = others \cup {[type |-> "file", place |-> p]}
  /\ UNCHANGED <<logged, session, handlerVars, up>>

(* GET /v1/sessions/{id} loads a session from its log, one whose creation  *)
(* failed too.                                                             *)
Fetch ==
  /\ up /\ phase = "idle" /\ session = "none" /\ logged # None
  /\ session' = "fetched"
  /\ UNCHANGED <<disk, logged, handlerVars, others, up>>

(* What a session leaves outside its workspace is another's for the next.  *)
Foreign(node) == IF node.kind \in {"file", "clone"} THEN [node EXCEPT !.of = 0] ELSE node

(* DELETE: the workspace goes; the next POST makes another session.        *)
Delete ==
  /\ up /\ phase = "idle" /\ session # "none"
  /\ disk' = [q \in Places |-> IF IsPrefix(Workspace, q) THEN Nothing ELSE Foreign(disk[q])]
  /\ logged' = None /\ session' = "none"
  /\ request' = NoRequest /\ at' = 1 /\ answer' = None /\ others' = {}
  /\ UNCHANGED <<phase, up>>

(* The request under way goes with the process, and what was answered is  *)
(* of no further interest.                                                 *)
Crash ==
  /\ up /\ up' = FALSE
  /\ session' = "none" /\ phase' = "idle"
  /\ request' = NoRequest /\ at' = 1 /\ answer' = None /\ others' = {}
  /\ UNCHANGED <<disk, logged>>

Restart ==
  /\ ~up /\ up' = TRUE
  /\ UNCHANGED <<disk, logged, session, handlerVars, others>>

Init ==
  /\ disk = [q \in Places |-> Nothing] /\ logged = None /\ session = "none"
  /\ request = NoRequest /\ at = 1 /\ phase = "idle" /\ answer = None /\ others = {}
  /\ up = TRUE

Next == \/ Post \/ MakeRoom \/ GitClone \/ Install \/ WriteFile \/ Created
        \/ OtherMounts \/ Fetch \/ Delete \/ Crash \/ Restart

Spec == Init /\ [][Next]_vars

-----------------------------------------------------------------------------
Files == [kind : {"file"}, of : 0 .. MaxResources]
Clones == [kind : {"clone"}, of : 0 .. MaxResources, ships : Tracked, excluded : BOOLEAN]
SettingsFiles == [kind : {"settings"}, holds : Settings]
Forwarders == [kind : {"forwarder"}, by : {"mad", "project"}]
Nodes == {Nothing, Directory} \cup Files \cup Clones \cup SettingsFiles \cup Forwarders

(* Every variable has its type.                                            *)
TypeOK ==
  /\ disk \in [Places -> Nodes]
  /\ logged \in Places \cup {None}
  /\ session \in {"none", "created", "fetched"}
  /\ request \in Requests
  /\ at \in 1 .. MaxResources + 1
  /\ phase \in {"idle", "mount", "clone", "install"}
  /\ answer \in {None, 200, 400, 500, 502}
  /\ others \subseteq [type : {"github_repository", "file"}, place : Places]
  /\ up \in BOOLEAN

InPlace(k) == disk[Place(k)].kind \in {"file", "clone"} /\ disk[Place(k)].of = k

(* A clone empties its mount point p; a file replaces a file.              *)
Covering(r, p, q) == IF IsRepository(r) THEN IsPrefix(p, q) ELSE p = q

Covers(j, q) == Covering(request.resources[j], Place(j), q)
Overwrites(j, k) ==
  /\ Covers(j, Place(k))
  /\ IsRepository(request.resources[k]) => IsRepository(request.resources[j])

(* Another session has mounted something over q since.                     *)
Disturbed(q) == \E o \in others : Covering(o, o.place, q)

Later(k) == k + 1 .. Len(request.resources)

(* A session answered 200 has each of its resources in place, unless a     *)
(* later resource of the same request was mounted over it: a repository at *)
(* the same place or above it, or a file in place of a file; or it lies    *)
(* beside the workspace and another session has mounted over it since.     *)
(* The response lists those as cloned or written too (rmtree in            *)
(* materialize_github_repo, _resolve_mount).                               *)
MountsSurvive ==
  answer = 200 =>
    \A k \in DOMAIN request.resources :
      InPlace(k) <=> ~Disturbed(Place(k)) /\ \A j \in Later(k) : ~Overwrites(j, k)

(* Neither a later resource nor another session was mounted over the file  *)
(* q of the resource k.                                                    *)
Kept(k, q) == ~Disturbed(q) /\ \A j \in Later(k) : ~Covers(j, q)

Forwards(groups) == Cardinality({i \in DOMAIN groups : groups[i] = Forward})

(* The settings at p run forward.sh for each hook event, once unless the   *)
(* project itself ships it more often, after the groups of the project,    *)
(* all of which are kept in their order (_merge_hook_bootstrap).           *)
Forwarding(p) ==
  LET ships == disk[p].ships.settings
      shipped(e) == IF ships = NoSettings THEN <<>> ELSE ships.groups[e]
      groups(e) == disk[SettingsAt(p)].holds.groups[e]
  IN /\ disk[SettingsAt(p)].kind = "settings"
     /\ \A e \in HookEvents :
          /\ IsPrefix(shipped(e), groups(e))
          /\ Forwards(groups(e)) = (IF Forwards(shipped(e)) = 0 THEN 1 ELSE Forwards(shipped(e)))

(* In every clone of a session answered 200, forward.sh and the settings   *)
(* are what Mad made of them, each unless a later resource of the request  *)
(* or another session was mounted over that file: what is mounted beside   *)
(* or below leaves the hooks alone.                                        *)
HooksForward ==
  answer = 200 =>
    \A k \in DOMAIN request.resources :
      IsRepository(request.resources[k]) =>
        /\ Kept(k, ForwarderAt(Place(k))) => disk[ForwarderAt(Place(k))] = Forwarder("mad")
        /\ Kept(k, SettingsAt(Place(k))) => Forwarding(Place(k))

(* git status of the clone at p: tracked files that changed, files that    *)
(* are not tracked and not excluded; the exclude file hides no tracked     *)
(* file.  The layout of merged settings, which may differ where the hooks  *)
(* do not, is left out.                                                    *)
Dirty(p) ==
  LET ships == disk[p].ships
      tracks(q) == \/ q = SettingsAt(p) /\ ships.settings # NoSettings
                   \/ q = ForwarderAt(p) /\ ships.forwarder # "none"
      hidden(q) == disk[p].excluded /\ (IsPrefix(HooksDir(p), q) \/ IsPrefix(SettingsAt(p), q))
  IN \/ ships.settings # NoSettings /\ disk[SettingsAt(p)] # SettingsFile(ships.settings)
     \/ ships.forwarder # "none" /\ disk[ForwarderAt(p)] # Forwarder(ships.forwarder)
     \/ \E q \in Places : /\ IsStrictPrefix(p, q) /\ disk[q] \notin {Nothing, Directory}
                          /\ ~tracks(q) /\ ~hidden(q)

(* Before an agent has run, git finds a clone changed only if the project  *)
(* tracks a settings.local.json or a forward.sh of its own, or something   *)
(* else was mounted inside: Mad's own files do not show, so the dirty flag *)
(* of task.git_result and the auto-sync run speak of the agent's work.     *)
CleanUnlessAsked ==
  answer = 200 =>
    \A k \in DOMAIN request.resources :
      /\ IsRepository(request.resources[k]) /\ InPlace(k) /\ Dirty(Place(k))
      => \/ disk[Place(k)].ships.settings # NoSettings
         \/ disk[Place(k)].ships.forwarder = "project"
         \/ \E j \in Later(k) : IsStrictPrefix(Place(k), Place(j))
         \/ \E o \in others : IsStrictPrefix(Place(k), o.place)

(* A session answered 200 that named no working directory starts its agent *)
(* in a directory that is there, in the clone when it has just one, unless *)
(* that clone lies beside the workspace and another session has mounted    *)
(* over it; one that named a directory is on its own, and may start        *)
(* nowhere.                                                                *)
AgentStartsSomewhere ==
  answer = 200 /\ request.working_directory = None /\ ~Disturbed(logged) =>
    LET clones == {k \in DOMAIN request.resources : IsRepository(request.resources[k])}
    IN /\ IsDirectory(disk[logged])
       /\ \A k \in clones : clones = {k} => disk[logged].kind = "clone" /\ disk[logged].of = k
=============================================================================
