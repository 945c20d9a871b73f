-------------------------- MODULE ProvisioningProofs --------------------------
(***************************************************************************)
(* Which resources of a session survive its creation, what its clones have *)
(* of Mad's hooks and of changes, and where its agent starts, for every    *)
(* set of mount paths, every request, everything that repositories track   *)
(* and whatever other sessions mount beside the workspace.                 *)
(***************************************************************************)
EXTENDS Provisioning, FiniteSetTheorems, TLAPS

-----------------------------------------------------------------------------
(* Prefixes of places.                                                     *)

(* The provers do not take a string for a member of STRING.                *)
Names == STRING \cup {".claude", "hooks", "forward.sh", "settings.local.json"}

LEMMA PrefixIs ==
  ASSUME NEW p \in Seq(Names), NEW q \in Seq(Names)
  PROVE  IsPrefix(p, q) <=> Len(p) <= Len(q) /\ \A i \in 1 .. Len(p) : p[i] = q[i]
<1>1. CASE Len(p) <= Len(q)
  <2>1. SubSeq(p, 1, Len(p)) \in Seq(Names) /\ SubSeq(q, 1, Len(p)) \in Seq(Names)
    BY <1>1
  <2>2. Len(SubSeq(p, 1, Len(p))) = Len(p) /\ Len(SubSeq(q, 1, Len(p))) = Len(p)
    BY <1>1
  <2>3. \A i \in 1 .. Len(p) : SubSeq(p, 1, Len(p))[i] = p[i] /\ SubSeq(q, 1, Len(p))[i] = q[i]
    BY <1>1
  <2>4. SubSeq(p, 1, Len(p)) = SubSeq(q, 1, Len(p))
          <=> \A i \in 1 .. Len(p) : SubSeq(p, 1, Len(p))[i] = SubSeq(q, 1, Len(p))[i]
    BY <2>1, <2>2
  <2> QED  BY <1>1, <2>3, <2>4 DEF IsPrefix
<1>2. CASE ~(Len(p) <= Len(q))
  BY <1>2 DEF IsPrefix
<1> QED  BY <1>1, <1>2

LEMMA PrefixReflexive == \A p \in Seq(Names) : IsPrefix(p, p)
  BY PrefixIs

LEMMA PrefixTransitive ==
  \A p, q, r \in Seq(Names) : IsPrefix(p, q) /\ IsPrefix(q, r) => IsPrefix(p, r)
<1> SUFFICES ASSUME NEW p \in Seq(Names), NEW q \in Seq(Names), NEW r \in Seq(Names),
                    IsPrefix(p, q), IsPrefix(q, r)
             PROVE  IsPrefix(p, r)
  OBVIOUS
<1>1. Len(p) <= Len(q) /\ \A i \in 1 .. Len(p) : p[i] = q[i]
  BY PrefixIs
<1>2. Len(q) <= Len(r) /\ \A i \in 1 .. Len(q) : q[i] = r[i]
  BY PrefixIs
<1>3. Len(p) <= Len(r) /\ \A i \in 1 .. Len(p) : p[i] = r[i]
  BY <1>1, <1>2
<1> QED  BY <1>3, PrefixIs

LEMMA PrefixAntisymmetric ==
  \A p, q \in Seq(Names) : IsPrefix(p, q) /\ IsPrefix(q, p) => p = q
<1> SUFFICES ASSUME NEW p \in Seq(Names), NEW q \in Seq(Names), IsPrefix(p, q), IsPrefix(q, p)
             PROVE  p = q
  OBVIOUS
<1>1. Len(p) <= Len(q) /\ \A i \in 1 .. Len(p) : p[i] = q[i]
  BY PrefixIs
<1>2. Len(q) <= Len(p)
  BY PrefixIs
<1> QED  BY <1>1, <1>2

LEMMA PlacesAreSeqs == Places \subseteq Seq(Names)
<1>1. \A S, T : S \subseteq T => \A p \in Seq(S) : p \in Seq(T)
  OBVIOUS
<1>2. STRING \subseteq Names
  BY DEF Names
<1> QED  BY <1>1, <1>2, ProvisioningAssumption

(* Two places above the same one lie one above the other.                  *)
LEMMA PrefixesCompare ==
  \A p, q, r \in Seq(Names) :
    IsPrefix(p, r) /\ IsPrefix(q, r) => IsPrefix(p, q) \/ IsPrefix(q, p)
<1> SUFFICES ASSUME NEW p \in Seq(Names), NEW q \in Seq(Names), NEW r \in Seq(Names),
                    IsPrefix(p, r), IsPrefix(q, r)
             PROVE  IsPrefix(p, q) \/ IsPrefix(q, p)
  OBVIOUS
<1>1. Len(p) <= Len(r) /\ \A i \in 1 .. Len(p) : p[i] = r[i]
  BY PrefixIs
<1>2. Len(q) <= Len(r) /\ \A i \in 1 .. Len(q) : q[i] = r[i]
  BY PrefixIs
<1>3. CASE Len(p) <= Len(q)
  <2>1. \A i \in 1 .. Len(p) : p[i] = q[i]
    BY <1>1, <1>2, <1>3
  <2> QED  BY <1>3, <2>1, PrefixIs
<1>4. CASE Len(q) <= Len(p)
  <2>1. \A i \in 1 .. Len(q) : q[i] = p[i]
    BY <1>1, <1>2, <1>4
  <2> QED  BY <1>4, <2>1, PrefixIs
<1> QED  BY <1>3, <1>4

(* The hooks' files lie inside their clone, beside each other.             *)
LEMMA HooksInside ==
  ASSUME NEW p \in Seq(Names)
  PROVE  /\ IsStrictPrefix(p, ForwarderAt(p)) /\ IsStrictPrefix(p, SettingsAt(p))
         /\ ForwarderAt(p) # SettingsAt(p)
         /\ IsPrefix(HooksDir(p), ForwarderAt(p))
         /\ ~IsPrefix(ForwarderAt(p), HooksDir(p)) /\ ~IsPrefix(SettingsAt(p), HooksDir(p))
         /\ HooksDir(p) \in Seq(Names) /\ ForwarderAt(p) \in Seq(Names)
         /\ SettingsAt(p) \in Seq(Names)
<1> DEFINE h == HooksDir(p)
           f == ForwarderAt(p)
           s == SettingsAt(p)
<1>0. {".claude", "hooks", "forward.sh", "settings.local.json"} \subseteq Names
  BY DEF Names
<1>1. h \in Seq(Names) /\ f \in Seq(Names) /\ s \in Seq(Names)
  BY <1>0 DEF HooksDir, ForwarderAt, SettingsAt
<1>2. Len(h) = Len(p) + 2 /\ Len(f) = Len(p) + 3 /\ Len(s) = Len(p) + 2
  BY <1>0 DEF HooksDir, ForwarderAt, SettingsAt
<1>3. \A i \in 1 .. Len(p) : h[i] = p[i] /\ f[i] = p[i] /\ s[i] = p[i]
  BY <1>0 DEF HooksDir, ForwarderAt, SettingsAt
<1>4. /\ h[Len(p) + 1] = ".claude" /\ f[Len(p) + 1] = ".claude"
      /\ h[Len(p) + 2] = "hooks" /\ f[Len(p) + 2] = "hooks"
      /\ s[Len(p) + 2] = "settings.local.json"
  BY <1>0 DEF HooksDir, ForwarderAt, SettingsAt
<1> HIDE DEF h, f, s
<1>5. IsPrefix(p, f) /\ IsPrefix(p, s) /\ p # f /\ p # s /\ f # s
  BY <1>1, <1>2, <1>3, PrefixIs
<1>6. IsPrefix(h, f)
  <2>1. \A i \in 1 .. Len(h) : h[i] = f[i]
    BY <1>2, <1>3, <1>4
  <2> QED  BY <1>1, <1>2, <2>1, PrefixIs
<1>7. ~IsPrefix(f, h)
  BY <1>1, <1>2, PrefixIs
<1>8. ~IsPrefix(s, h)
  <2>1. Len(p) + 2 \in 1 .. Len(s) /\ s[Len(p) + 2] # h[Len(p) + 2]
    BY <1>2, <1>4
  <2> QED  BY <1>1, <2>1, PrefixIs
<1> QED  BY <1>1, <1>5, <1>6, <1>7, <1>8 DEF IsStrictPrefix, h, f, s

-----------------------------------------------------------------------------
(* Operations on a disk.                                                   *)

USE DEF Nothing, Directory

Disks == [Places -> Nodes]

HasHooks(p) == {HooksDir(p), ForwarderAt(p), SettingsAt(p)} \subseteq Places

(* What is at q stays, but for a directory that may be made there.         *)
Grown(d, e, q) == e[q] = d[q] \/ (d[q] = Nothing /\ e[q] = Directory)

LEMMA MadeDirsDisk ==
  ASSUME NEW d \in Disks, NEW way
  PROVE  MadeDirs(d, way) \in Disks /\ \A q \in Places : Grown(d, MadeDirs(d, way), q)
  BY DEF MadeDirs, Disks, Nodes, Grown

LEMMA EmptiedDisk ==
  ASSUME NEW d \in Disks, NEW way, NEW p \in Places
  PROVE  /\ Emptied(d, way, p) \in Disks
         /\ \A q \in Places : IsPrefix(p, q) => Emptied(d, way, p)[q] = Nothing
         /\ \A q \in Places : ~IsPrefix(p, q) => Grown(d, Emptied(d, way, p), q)
  BY MadeDirsDisk DEF Emptied, Removed, Disks, Nodes, Grown

LEMMA WrittenDisk ==
  ASSUME NEW d \in Disks, NEW way, NEW p \in Places, NEW k \in 0 .. MaxResources
  PROVE  /\ Written(d, way, p, k) \in Disks
         /\ Written(d, way, p, k)[p] = File(k)
         /\ \A q \in Places : q # p => Grown(d, Written(d, way, p, k), q)
<1>1. File(k) \in Nodes
  BY DEF File, Files, Nodes
<1> QED  BY <1>1, MadeDirsDisk DEF Written, Disks, Grown

(* What may come to be inside a clone at p when its hooks are made.        *)
HookNode(p, q, node) ==
  \/ node = Directory
  \/ q \in {ForwarderAt(p), SettingsAt(p)} /\ node.kind \in {"settings", "forwarder"}

LEMMA ClonedDisk ==
  ASSUME NEW d \in Disks, NEW p \in Places, HasHooks(p), NEW k \in 0 .. MaxResources,
         NEW ships \in Tracked
  PROVE  /\ Cloned(d, p, k, ships) \in Disks
         /\ Cloned(d, p, k, ships)[p] = Clone(k, ships)
         /\ Cloned(d, p, k, ships)[SettingsAt(p)] =
              IF ships.settings = NoSettings THEN d[SettingsAt(p)]
              ELSE SettingsFile(ships.settings)
         /\ \A q \in Places : ~IsPrefix(p, q) => Cloned(d, p, k, ships)[q] = d[q]
         /\ \A q \in Places : IsStrictPrefix(p, q) =>
              \/ Cloned(d, p, k, ships)[q] = d[q]
              \/ HookNode(p, q, Cloned(d, p, k, ships)[q])
<1> DEFINE e == Cloned(d, p, k, ships)
<1>1. p \in Seq(Names)
  BY PlacesAreSeqs
<1>2. /\ p # ForwarderAt(p) /\ p # SettingsAt(p) /\ ForwarderAt(p) # SettingsAt(p)
      /\ ~IsPrefix(ForwarderAt(p), HooksDir(p)) /\ ~IsPrefix(SettingsAt(p), HooksDir(p))
      /\ IsPrefix(p, ForwarderAt(p)) /\ IsPrefix(p, SettingsAt(p)) /\ IsPrefix(p, p)
  BY <1>1, HooksInside, PrefixReflexive DEF IsStrictPrefix
<1>3. /\ Clone(k, ships) \in Nodes /\ SettingsFile(ships.settings) \in Nodes
      /\ ships.forwarder # "none" => Forwarder(ships.forwarder) \in Nodes
  BY DEF Clone, Clones, SettingsFile, SettingsFiles, Forwarder, Forwarders, Nodes, Tracked
<1>4. e[p] = Clone(k, ships)
  BY <1>2 DEF Cloned, IsStrictPrefix
<1>5. e[SettingsAt(p)] = IF ships.settings = NoSettings THEN d[SettingsAt(p)]
                         ELSE SettingsFile(ships.settings)
  BY <1>2 DEF Cloned, HasHooks
<1>6. \A q \in Places : ~IsPrefix(p, q) => e[q] = d[q]
  BY <1>2 DEF Cloned, IsStrictPrefix
<1>7. ASSUME NEW q \in Places, IsStrictPrefix(p, q)
      PROVE  (e[q] = d[q] \/ HookNode(p, q, e[q])) /\ e[q] \in Nodes
  <2>1. q # p
    BY <1>7 DEF IsStrictPrefix
  <2>2. CASE q = SettingsAt(p)
    BY <1>3, <1>5, <2>2 DEF HookNode, SettingsFile, Disks
  <2>3. CASE q = ForwarderAt(p)
    <3>1. e[q] = IF ships.forwarder = "none" THEN d[q] ELSE Forwarder(ships.forwarder)
      BY <1>2, <2>3 DEF Cloned
    <3> QED  BY <1>3, <2>3, <3>1 DEF HookNode, Forwarder, Disks
  <2>4. CASE q # SettingsAt(p) /\ q # ForwarderAt(p)
    <3>1. e[q] = Directory \/ e[q] = d[q]
      BY <2>1, <2>4 DEF Cloned
    <3> QED  BY <3>1 DEF HookNode, Disks, Nodes
  <2> QED  BY <2>2, <2>3, <2>4
<1>8. e \in Disks
  <2>1. e = [q \in Places |-> e[q]]
    BY DEF Cloned
  <2>2. \A q \in Places : e[q] \in Nodes
    BY <1>3, <1>4, <1>6, <1>7 DEF IsStrictPrefix, Disks
  <2> HIDE DEF e
  <2> QED  BY <2>1, <2>2 DEF Disks
<1> QED  BY <1>4, <1>5, <1>6, <1>7, <1>8

(* What Mad makes of the settings that a repository tracks.                *)
Final(settings) == IF settings = NoSettings THEN Bootstrap ELSE Merged(settings)

LEMMA FinalIsSettings ==
  ASSUME NEW settings \in Settings, settings.kind \notin {"malformed", "list"}
  PROVE  Final(settings) \in Settings
<1>1. CASE settings = NoSettings
  BY <1>1 DEF Final, Bootstrap, Hooks, Settings, Forward
<1>2. CASE settings # NoSettings
  <2>1. settings \in [kind : {"hooks"}, groups : [HookEvents -> Seq({Forward, "project"})]]
    BY <1>2 DEF Settings
  <2>2. \A e \in HookEvents : settings.groups[e] \in Seq({Forward, "project"})
    BY <2>1
  <2>3. \A e \in HookEvents : Append(settings.groups[e], Forward) \in Seq({Forward, "project"})
    BY <2>2
  <2> QED  BY <1>2, <2>2, <2>3 DEF Final, Merged, Hooks, Settings
<1> QED  BY <1>1, <1>2

LEMMA InstalledDisk ==
  ASSUME NEW d \in Disks, NEW p \in Places, HasHooks(p), d[p].kind = "clone",
         NEW ships \in Settings, ships.kind \notin {"malformed", "list"},
         d[SettingsAt(p)] = IF ships = NoSettings THEN Nothing ELSE SettingsFile(ships)
  PROVE  /\ Installed(d, p) \in Disks
         /\ Installed(d, p)[p] = [d[p] EXCEPT !.excluded = TRUE]
         /\ Installed(d, p)[p] \in Clones
         /\ Installed(d, p)[ForwarderAt(p)] = Forwarder("mad")
         /\ Installed(d, p)[SettingsAt(p)] = SettingsFile(Final(ships))
         /\ \A q \in Places : ~IsPrefix(p, q) => Installed(d, p)[q] = d[q]
         /\ \A q \in Places : IsStrictPrefix(p, q) =>
              Installed(d, p)[q] = d[q] \/ HookNode(p, q, Installed(d, p)[q])
<1> DEFINE e == Installed(d, p)
           w == WithForwarder(d, p)
           final == IF d[SettingsAt(p)] = Nothing THEN Bootstrap
                    ELSE Merged(d[SettingsAt(p)].holds)
<1>1. p \in Seq(Names) /\ p \in Places /\ SettingsAt(p) \in Places /\ ForwarderAt(p) \in Places
  BY PlacesAreSeqs DEF HasHooks
<1>2. /\ p # ForwarderAt(p) /\ p # SettingsAt(p) /\ ForwarderAt(p) # SettingsAt(p)
      /\ ~IsPrefix(ForwarderAt(p), HooksDir(p)) /\ ~IsPrefix(SettingsAt(p), HooksDir(p))
      /\ IsPrefix(p, ForwarderAt(p)) /\ IsPrefix(p, SettingsAt(p)) /\ IsPrefix(p, p)
  BY <1>1, HooksInside, PrefixReflexive DEF IsStrictPrefix
<1>3. final = Final(ships)
  BY DEF Final, SettingsFile
<1>4. DOMAIN w = Places /\ w[p] = d[p] /\ w[ForwarderAt(p)] = Forwarder("mad")
  BY <1>1, <1>2 DEF WithForwarder, IsStrictPrefix
<1>5. \A q \in Places : ~IsPrefix(p, q) => w[q] = d[q]
  BY <1>2 DEF WithForwarder, IsStrictPrefix
<1>6. \A q \in Places : q # ForwarderAt(p) => w[q] = d[q] \/ w[q] = Directory
  BY DEF WithForwarder
<1>7. e = [w EXCEPT ![SettingsAt(p)] = SettingsFile(final), ![p].excluded = TRUE]
  BY DEF Installed
<1> HIDE DEF w, final, e
<1>8. /\ e[p] = [d[p] EXCEPT !.excluded = TRUE]
      /\ e[ForwarderAt(p)] = Forwarder("mad")
      /\ e[SettingsAt(p)] = SettingsFile(Final(ships))
      /\ \A q \in Places : q # p /\ q # SettingsAt(p) => e[q] = w[q]
      /\ e = [q \in Places |-> e[q]]
  BY <1>1, <1>2, <1>3, <1>4, <1>7
<1>9. \A q \in Places : ~IsPrefix(p, q) => e[q] = d[q]
  BY <1>2, <1>5, <1>8
<1>10. ASSUME NEW q \in Places, IsStrictPrefix(p, q)
       PROVE  e[q] = d[q] \/ HookNode(p, q, e[q])
  BY <1>6, <1>8, <1>10 DEF IsStrictPrefix, HookNode, SettingsFile, Forwarder
<1>11. e[p] \in Clones
  <2>1. d[p] \in Clones
    BY DEF Disks, Nodes, Files, SettingsFiles, Forwarders
  <2> QED  BY <1>8, <2>1 DEF Clones
<1>12. e \in Disks
  <2>1. SettingsFile(Final(ships)) \in Nodes /\ Forwarder("mad") \in Nodes /\ Directory \in Nodes
    BY FinalIsSettings DEF SettingsFile, SettingsFiles, Forwarder, Forwarders, Nodes
  <2>2. e[p] \in Nodes
    BY <1>11 DEF Nodes
  <2>3. ASSUME NEW q \in Places  PROVE e[q] \in Nodes
    <3>1. CASE q = p \/ q = SettingsAt(p) \/ q = ForwarderAt(p)
      BY <1>8, <2>1, <2>2, <3>1
    <3>2. CASE q # p /\ q # SettingsAt(p) /\ q # ForwarderAt(p)
      BY <1>6, <1>8, <2>1, <3>2 DEF Disks
    <3> QED  BY <3>1, <3>2
  <2> QED  BY <1>8, <2>3 DEF Disks
<1> QED  BY <1>8, <1>9, <1>10, <1>11, <1>12 DEF e

LEMMA WithForwarderDisk ==
  ASSUME NEW d \in Disks, NEW p
  PROVE  WithForwarder(d, p) \in Disks
<1>1. Forwarder("mad") \in Nodes /\ Directory \in Nodes
  BY DEF Forwarder, Forwarders, Nodes
<1>2. \A q \in Places : WithForwarder(d, p)[q] \in {Forwarder("mad"), Directory, d[q]}
  BY DEF WithForwarder
<1>3. WithForwarder(d, p) = [q \in Places |-> WithForwarder(d, p)[q]]
  BY DEF WithForwarder
<1> HIDE DEF WithForwarder
<1>4. \A q \in Places : WithForwarder(d, p)[q] \in Nodes
  BY <1>1, <1>2 DEF Disks
<1> QED  BY <1>3, <1>4 DEF Disks

-----------------------------------------------------------------------------
(* The invariant.                                                          *)

ValidRequest ==
  /\ request.resources \in Seq(Resources) /\ Len(request.resources) <= MaxResources
  /\ \A k \in 1 .. Len(request.resources) : ValidMount(request.resources[k].mount_path)

Busy == phase \in {"clone", "install"}

(* A request is under way or answered 200.                                 *)
Alive == phase # "idle" \/ answer = 200

(* How many resources may have covered what was there, and those that      *)
(* have got what they mount.                                               *)
Reach == IF Busy THEN at ELSE at - 1
Handled(k) == k < at \/ (k = at /\ phase = "install")

Own(q) == disk[q].kind \in {"file", "clone"} /\ disk[q].of # 0
OwnClone(q) == disk[q].kind = "clone" /\ disk[q].of # 0
Content(q) == disk[q] # Nothing /\ disk[q] # Directory

Progress ==
  /\ at \in 1 .. Len(request.resources) + 1
  /\ Busy => at <= Len(request.resources) /\ IsRepository(Resource)
  /\ phase = "idle" => at = Len(request.resources) + 1
  /\ phase # "idle" => others = {}

(* What lies at q belongs to the resource mounted there, and nothing was   *)
(* mounted over it since.                                                  *)
OwnedBy(k, q) ==
  /\ k \in 1 .. Len(request.resources) /\ Place(k) = q /\ Handled(k)
  /\ IsRepository(request.resources[k]) <=> disk[q].kind = "clone"
  /\ ~Disturbed(q) /\ \A j \in k + 1 .. Reach : ~Overwrites(j, k)
Owned == \A q \in Places : Own(q) => OwnedBy(disk[q].of, q)

Unspoiled(k) == ~Disturbed(Place(k)) /\ \A j \in Later(k) : ~Overwrites(j, k)
Surviving ==
  \A k \in 1 .. Len(request.resources) : Handled(k) /\ Unspoiled(k) => InPlace(k)

SettingsDone(k) ==
  /\ InPlace(k) /\ disk[Place(k)] \in Clones
  /\ disk[Place(k)].ships.settings.kind \notin {"malformed", "list"}
  /\ disk[SettingsAt(Place(k))] = SettingsFile(Final(disk[Place(k)].ships.settings))
HookedAt(k) ==
  /\ Kept(k, ForwarderAt(Place(k))) => disk[ForwarderAt(Place(k))] = Forwarder("mad")
  /\ Kept(k, SettingsAt(Place(k))) => SettingsDone(k)
Hooked ==
  \A k \in 1 .. Len(request.resources) :
    k < at /\ IsRepository(request.resources[k]) => HookedAt(k)

Hidden == \A q \in Places : OwnClone(q) /\ disk[q].of < at => disk[q].excluded

(* Why there is something at q inside the clone at p.                      *)
Because(p, q) ==
  \/ q \in {ForwarderAt(p), SettingsAt(p)}
  \/ \E j \in Later(disk[p].of) : IsStrictPrefix(p, Place(j)) /\ IsPrefix(Place(j), q)
  \/ \E o \in others : IsStrictPrefix(p, o.place) /\ IsPrefix(o.place, q)
Explained ==
  \A p, q \in Places : OwnClone(p) /\ IsStrictPrefix(p, q) /\ Content(q) => Because(p, q)

(* The mount point under way has been emptied, and holds a fresh clone.    *)
Emptiness ==
  phase = "clone" => \A q \in Places : IsPrefix(Place(at), q) => disk[q] = Nothing
FreshClone ==
  phase = "install" =>
    /\ disk[Place(at)].kind = "clone" /\ disk[Place(at)].of = at
    /\ disk[SettingsAt(Place(at))] =
         IF disk[Place(at)].ships.settings = NoSettings THEN Nothing
         ELSE SettingsFile(disk[Place(at)].ships.settings)

Started ==
  /\ logged = WorkingDirectory(request)
  /\ IsDirectory(disk[Workspace]) \/ (phase = "clone" /\ Place(at) = Workspace)

Tree == /\ Progress /\ Owned /\ Surviving /\ Hooked /\ Hidden /\ Explained
        /\ Emptiness /\ FreshClone /\ Started

Inv ==
  /\ disk \in Disks /\ ValidRequest
  /\ others \subseteq [type : {"github_repository", "file"}, place : Places]
  /\ phase \in {"idle", "mount", "clone", "install"}
  /\ phase # "idle" => answer # 200
  /\ logged = None => ~Alive /\ \A q \in Places : ~Own(q)
  /\ Alive => Tree

-----------------------------------------------------------------------------
(* What every step uses.                                                   *)

LEMMA PlaceIn ==
  ASSUME ValidRequest, NEW k \in 1 .. Len(request.resources)
  PROVE  /\ Place(k) \in Places /\ Place(k) \in Seq(Names) /\ HasHooks(Place(k))
         /\ ForwarderAt(Place(k)) \in Places /\ SettingsAt(Place(k)) \in Places
         /\ request.resources[k] \in Resources
<1>1. request.resources[k] \in Resources
  BY DEF ValidRequest
<1>2. request.resources[k].mount_path \in Mounts /\ ValidMount(request.resources[k].mount_path)
  BY <1>1 DEF ValidRequest, Resources
<1>3. Place(k) \in Places /\ HasHooks(Place(k))
  BY <1>2, ProvisioningAssumption DEF Place, HasHooks
<1> QED  BY <1>1, <1>3, PlacesAreSeqs DEF HasHooks

LEMMA SameRequest ==
  ASSUME UNCHANGED request
  PROVE  /\ \A k : Place(k)' = Place(k) /\ Later(k)' = Later(k)
         /\ \A j, k : Overwrites(j, k)' <=> Overwrites(j, k)
         /\ \A j, q : Covers(j, q)' <=> Covers(j, q)
         /\ WorkingDirectory(request') = WorkingDirectory(request)
  BY DEF Place, Later, Overwrites, Covers, Covering, IsRepository

LEMMA WorkspaceAlone ==
  ASSUME NEW p \in Places, IsPrefix(p, Workspace)
  PROVE  p = Workspace
<1>1. p \in Seq(Names) /\ Workspace \in Seq(Names) /\ p # <<>>
  BY PlacesAreSeqs, ProvisioningAssumption DEF Base
<1>2. Len(p) <= Len(Workspace) /\ \A i \in 1 .. Len(p) : p[i] = Workspace[i]
  BY <1>1, PrefixIs
<1>3. Len(p) = Len(Workspace)
  <2>1. Len(Workspace) = 1
    BY DEF Workspace
  <2>2. Len(p) \in Nat /\ Len(p) # 0
    BY <1>1
  <2>3. \A n \in Nat : n # 0 /\ n <= 1 => n = 1
    OBVIOUS
  <2> QED  BY <1>2, <2>1, <2>2, <2>3
<1> QED  BY <1>1, <1>2, <1>3

(* A step that mounts r at p, and at most makes directories elsewhere.     *)
MountsAt(r, p) ==
  /\ p \in Places /\ UNCHANGED request /\ disk' \in Disks
  /\ \A q \in Places : Covering(r, p, q) \/ Grown(disk, disk', q)
  /\ IsRepository(r) \/ ~IsDirectory(disk[p])

LEMMA HookedStays ==
  ASSUME ValidRequest, disk \in Disks, NEW r, NEW p, MountsAt(r, p),
         NEW k \in 1 .. Len(request.resources), IsRepository(request.resources[k]),
         HookedAt(k), \A q : Kept(k, q)' => Kept(k, q) /\ ~Covering(r, p, q)
  PROVE  HookedAt(k)'
<1>0. PICK c \in Places : c = Place(k)
  BY PlaceIn
<1> DEFINE f == ForwarderAt(c)
           s == SettingsAt(c)
<1>1. f \in Places /\ s \in Places /\ Place(k)' = c
  BY <1>0, PlaceIn, SameRequest DEF MountsAt
<1>2. /\ c \in Seq(Names) /\ f \in Seq(Names) /\ s \in Seq(Names) /\ p \in Seq(Names)
      /\ IsPrefix(c, s)
  BY <1>1, PlacesAreSeqs, HooksInside DEF MountsAt, IsStrictPrefix
<1>3. ASSUME Kept(k, f)'  PROVE disk'[f] = Forwarder("mad")
  <2>1. disk[f] = Forwarder("mad") /\ ~Covering(r, p, f)
    BY <1>0, <1>3 DEF HookedAt
  <2> QED  BY <1>1, <2>1 DEF MountsAt, Grown, Forwarder
<1>4. ASSUME Kept(k, s)'  PROVE SettingsDone(k)'
  <2>1. SettingsDone(k) /\ ~Covering(r, p, s)
    BY <1>0, <1>4 DEF HookedAt
  <2>2. disk'[s] = disk[s]
    BY <1>0, <1>1, <2>1 DEF MountsAt, Grown, SettingsDone, SettingsFile
  <2>3. disk[c].kind = "clone"
    BY <1>0, <2>1 DEF SettingsDone, Clones
  <2>4. ~Covering(r, p, c)
    BY <1>2, <2>1, <2>3, PrefixTransitive DEF Covering, MountsAt, IsDirectory
  <2>5. disk'[c] = disk[c]
    BY <1>1, <2>3, <2>4 DEF MountsAt, Grown
  <2> QED  BY <1>0, <1>1, <2>1, <2>2, <2>5 DEF SettingsDone, InPlace
<1> QED  BY <1>1, <1>3, <1>4 DEF HookedAt

LEMMA ExplainedStays ==
  ASSUME disk \in Disks, NEW r, NEW p, MountsAt(r, p), Explained,
         others \subseteq others',
         \A a \in Places : OwnClone(a)' /\ a # p =>
           OwnClone(a) /\ disk'[a].of = disk[a].of /\ ~Covering(r, p, a),
         \A a \in Places : OwnClone(a)' /\ IsStrictPrefix(a, p) =>
           \/ \E j \in Later(disk[a].of) : Place(j) = p
           \/ \E o \in others' : o.place = p,
         \A q \in Places : OwnClone(p)' /\ IsStrictPrefix(p, q) /\ Content(q)' => Because(p, q)'
  PROVE  Explained'
<1> SUFFICES ASSUME NEW a \in Places, NEW q \in Places,
                    OwnClone(a)', IsStrictPrefix(a, q), Content(q)', a # p
             PROVE  Because(a, q)'
  BY DEF Explained
<1>1. a \in Seq(Names) /\ q \in Seq(Names) /\ p \in Seq(Names) /\ p \in Places
  BY PlacesAreSeqs DEF MountsAt
<1>2. OwnClone(a) /\ disk'[a].of = disk[a].of /\ ~Covering(r, p, a)
  OBVIOUS
<1>2a. PICK k : k = disk[a].of
  OBVIOUS
<1>3. /\ (\A j : Place(j)' = Place(j)) /\ Later(k)' = Later(k)
      /\ disk[a].of = k /\ disk'[a].of = k
  BY <1>2, <1>2a, SameRequest DEF MountsAt
<1>4. CASE ~Covering(r, p, q)
  <2>1. Content(q)
    BY <1>4 DEF MountsAt, Grown, Content
  <2>2. Because(a, q)
    BY <1>2, <2>1 DEF Explained
  <2> QED  BY <1>3, <2>2 DEF Because
<1>5. CASE Covering(r, p, q)
  <2>1. IsPrefix(p, q) /\ IsPrefix(a, q)
    BY <1>1, <1>5, PrefixReflexive DEF Covering, IsStrictPrefix
  <2>2. IsStrictPrefix(a, p)
    BY <1>1, <1>2, <1>5, <2>1, PrefixesCompare DEF Covering, IsStrictPrefix
  <2>3. CASE \E j \in Later(disk[a].of) : Place(j) = p
    BY <1>3, <2>1, <2>2, <2>3 DEF Because
  <2>4. CASE \E o \in others' : o.place = p
    BY <2>1, <2>2, <2>4 DEF Because
  <2> QED  BY <2>2, <2>3, <2>4
<1> QED  BY <1>4, <1>5

-----------------------------------------------------------------------------
(* The steps of a request.                                                 *)

(* The resource under way is mounted at p, which nothing disturbs.         *)
AtWork(r, p) ==
  /\ Tree /\ ValidRequest /\ disk \in Disks
  /\ at \in 1 .. Len(request.resources) /\ at \in Nat \ {0} /\ Len(request.resources) \in Nat
  /\ r = Resource /\ p = Place(at) /\ p \in Places /\ p \in Seq(Names) /\ HasHooks(p)
  /\ others = {} /\ UNCHANGED <<request, others, logged>>

LEMMA Starting ==
  ASSUME Inv, phase # "idle", at <= Len(request.resources),
         UNCHANGED <<request, others, logged>>
  PROVE  \E r, p : AtWork(r, p)
<1>1. Tree /\ Len(request.resources) \in Nat
  BY DEF Inv, Alive, ValidRequest
<1>2. at \in 1 .. Len(request.resources) /\ at \in Nat \ {0} /\ others = {}
  BY <1>1 DEF Tree, Progress
<1> QED  BY <1>1, <1>2, PlaceIn DEF AtWork, Inv

(* Nothing that is kept is covered by the resource under way.              *)
LEMMA Uncovered ==
  ASSUME NEW r, NEW p, AtWork(r, p), NEW k \in 1 .. at - 1
  PROVE  /\ \A q : Kept(k, q)' => Kept(k, q) /\ ~Covering(r, p, q)
         /\ Unspoiled(k)' <=> Unspoiled(k)
         /\ Unspoiled(k) => ~Overwrites(at, k)
<1>1. at \in Later(k)
  BY DEF AtWork, Later
<1>2. \A q : Kept(k, q)' <=> Kept(k, q)
  BY SameRequest DEF AtWork, Kept, Disturbed
<1>3. \A q : Kept(k, q) => ~Covering(r, p, q)
  BY <1>1 DEF Kept, Covers, AtWork, Resource
<1>4. Unspoiled(k)' <=> Unspoiled(k)
  BY SameRequest DEF AtWork, Unspoiled, Disturbed
<1> QED  BY <1>1, <1>2, <1>3, <1>4 DEF Unspoiled

LEMMA MakeRoomTree ==
  ASSUME NEW r, NEW p, AtWork(r, p), phase = "mount", IsRepository(r),
         disk' = Emptied(disk, Passed, p), phase' = "clone", UNCHANGED at
  PROVE  disk' \in Disks /\ Tree'
<1> USE DEF AtWork
<1>1. /\ disk' \in Disks
      /\ \A q \in Places : IsPrefix(p, q) => disk'[q] = Nothing
      /\ \A q \in Places : ~IsPrefix(p, q) => Grown(disk, disk', q)
  BY EmptiedDisk
<1>2. MountsAt(r, p)
  BY <1>1 DEF MountsAt, Covering
<1>3. Place(at)' = p /\ (\A k : Place(k)' = Place(k)) /\ \A q : Disturbed(q)' <=> Disturbed(q)
  BY SameRequest DEF Disturbed
<1>4. \A q \in Places : disk'[q].kind \in {"file", "clone"} => disk'[q] = disk[q] /\ ~IsPrefix(p, q)
  BY <1>1 DEF Grown
<1>5. \A q \in Places : disk[q].kind \in {"file", "clone"} /\ ~IsPrefix(p, q) => disk'[q] = disk[q]
  BY <1>1 DEF Grown
<1>6. \A k : Place(k) \in Places => (Overwrites(at, k) <=> IsPrefix(p, Place(k)))
  BY DEF Overwrites, Covers, Covering, Resource
<1>7. Progress'
  BY DEF Tree, Progress, Busy, Resource
<1>8. Owned'
  <2> SUFFICES ASSUME NEW q \in Places, Own(q)'  PROVE OwnedBy(disk[q].of, q)'
    BY DEF Owned
  <2>1. Own(q) /\ disk'[q] = disk[q] /\ ~IsPrefix(p, q)
    BY <1>4 DEF Own
  <2>2. PICK k : k = disk[q].of
    OBVIOUS
  <2>3. OwnedBy(k, q)
    BY <2>1, <2>2 DEF Tree, Owned
  <2>4. k \in 1 .. at - 1 /\ ~Overwrites(at, k)
    BY <1>6, <2>1, <2>3 DEF OwnedBy, Handled
  <2>5. \A j \in k + 1 .. at : ~Overwrites(j, k)
    BY <2>3, <2>4 DEF OwnedBy, Reach, Busy
  <2>6. OwnedBy(k, q)'
    BY <1>3, <2>1, <2>3, <2>4, <2>5, SameRequest DEF OwnedBy, Handled, Reach, Busy, IsRepository
  <2> QED  BY <2>1, <2>2, <2>6
<1>9. Surviving'
  <2> SUFFICES ASSUME NEW k \in 1 .. Len(request.resources), Handled(k)', Unspoiled(k)'
               PROVE  InPlace(k)'
    BY DEF Surviving
  <2>1. k \in 1 .. at - 1
    BY DEF Handled
  <2>2. InPlace(k) /\ ~Overwrites(at, k)
    BY <2>1, Uncovered DEF Tree, Surviving, Handled
  <2>3. Place(k) \in Places
    BY PlaceIn
  <2> QED  BY <1>3, <1>5, <1>6, <2>2, <2>3 DEF InPlace
<1>10. Hooked'
  <2> SUFFICES ASSUME NEW k \in 1 .. Len(request.resources), k < at,
                      IsRepository(request.resources[k])
               PROVE  HookedAt(k)'
    BY DEF Hooked
  <2>1. k \in 1 .. at - 1 /\ HookedAt(k)
    BY DEF Tree, Hooked
  <2> QED  BY <1>2, <2>1, Uncovered, HookedStays
<1>11. Hidden'
  BY <1>4 DEF Hidden, OwnClone, Tree
<1>12. Explained'
  <2>1. \A a \in Places : OwnClone(a)' => OwnClone(a) /\ disk'[a] = disk[a] /\ ~IsPrefix(p, a)
    BY <1>4 DEF OwnClone
  <2>2. ASSUME NEW a \in Places, OwnClone(a)', IsStrictPrefix(a, p)
        PROVE  \E j \in Later(disk[a].of) : Place(j) = p
    <3>1. OwnedBy(disk[a].of, a)
      BY <2>1, <2>2 DEF Tree, Owned, Own, OwnClone
    <3>2. at \in Later(disk[a].of)
      BY <3>1 DEF OwnedBy, Handled, Later
    <3> QED  BY <3>2
  <2>3. ~OwnClone(p)'
    BY <1>1, PrefixReflexive DEF OwnClone
  <2> QED  BY <1>2, <2>1, <2>2, <2>3, ExplainedStays DEF Tree, Covering
<1>13. Emptiness' /\ FreshClone'
  BY <1>1, <1>3 DEF Emptiness, FreshClone
<1>14. Started'
  <2>1. p = Workspace \/ ~IsPrefix(p, Workspace)
    BY WorkspaceAlone
  <2>2. IsDirectory(disk[Workspace]) /\ Workspace \in Places
    BY ProvisioningAssumption DEF Tree, Started
  <2>3. p # Workspace => IsDirectory(disk'[Workspace])
    BY <1>1, <2>1, <2>2 DEF Grown, IsDirectory
  <2> QED  BY <1>3, <2>3, SameRequest DEF Tree, Started
<1> QED  BY <1>1, <1>7, <1>8, <1>9, <1>10, <1>11, <1>12, <1>13, <1>14 DEF Tree

LEMMA GitCloneTree ==
  ASSUME NEW r, NEW p, AtWork(r, p), phase = "clone", NEW ships \in Tracked,
         disk' = Cloned(disk, p, at, ships), phase' = "install", UNCHANGED at
  PROVE  disk' \in Disks /\ Tree'
<1> USE DEF AtWork
<1>0. PICK n \in 1 .. MaxResources : n = at
  BY ProvisioningAssumption DEF ValidRequest
<1>1. /\ disk' \in Disks
      /\ disk'[p] = Clone(n, ships)
      /\ disk'[SettingsAt(p)] =
           IF ships.settings = NoSettings THEN disk[SettingsAt(p)] ELSE SettingsFile(ships.settings)
      /\ \A q \in Places : ~IsPrefix(p, q) => disk'[q] = disk[q]
      /\ \A q \in Places : IsStrictPrefix(p, q) =>
           disk'[q] = disk[q] \/ HookNode(p, q, disk'[q])
  BY <1>0, ClonedDisk
<1>2. IsRepository(r) /\ IsPrefix(p, p)
  BY PrefixReflexive DEF Tree, Progress, Busy
<1>3. MountsAt(r, p)
  BY <1>1, <1>2 DEF MountsAt, Covering, Grown
<1>4. /\ Place(at)' = p /\ (\A k : Place(k)' = Place(k)) /\ \A q : Disturbed(q)' <=> Disturbed(q)
      /\ \A q : ~Disturbed(q)
  BY SameRequest DEF Disturbed
<1>5. \A q \in Places : IsPrefix(p, q) => disk[q] = Nothing
  BY DEF Tree, Emptiness
<1>6. \A q \in Places :
        disk'[q].kind \in {"file", "clone"} => q = p \/ (disk'[q] = disk[q] /\ ~IsPrefix(p, q))
  BY <1>1, <1>5 DEF HookNode, IsStrictPrefix
<1>7. \A q \in Places : disk[q] # Nothing => disk'[q] = disk[q]
  BY <1>1, <1>5
<1>8. disk'[p].kind = "clone" /\ disk'[p].of = n /\ disk'[p].ships = ships
  BY <1>1 DEF Clone
<1>9. Progress'
  BY DEF Tree, Progress, Busy, Resource
<1>10. Owned'
  <2> SUFFICES ASSUME NEW q \in Places, Own(q)'  PROVE OwnedBy(disk[q].of, q)'
    BY DEF Owned
  <2>1. CASE q = p
    <3>1. OwnedBy(n, q)'
      BY <1>0, <1>2, <1>4, <1>8, <2>1 DEF OwnedBy, Handled, Reach, Busy, Resource, IsRepository
    <3> QED  BY <1>8, <2>1, <3>1
  <2>2. CASE q # p
    <3>1. Own(q) /\ disk'[q] = disk[q]
      BY <1>6, <2>2 DEF Own
    <3>2. PICK k : k = disk[q].of
      OBVIOUS
    <3>3. OwnedBy(k, q)
      BY <3>1, <3>2 DEF Tree, Owned
    <3>4. OwnedBy(k, q)'
      BY <1>4, <3>1, <3>3, SameRequest DEF OwnedBy, Handled, Reach, Busy, IsRepository
    <3> QED  BY <3>1, <3>2, <3>4
  <2> QED  BY <2>1, <2>2
<1>11. Surviving'
  <2> SUFFICES ASSUME NEW k \in 1 .. Len(request.resources), Handled(k)', Unspoiled(k)'
               PROVE  InPlace(k)'
    BY DEF Surviving
  <2>1. CASE k = n
    BY <1>0, <1>4, <1>8, <2>1 DEF InPlace
  <2>2. CASE k # n
    <3>1. k \in 1 .. at - 1
      BY <1>0, <2>2 DEF Handled
    <3>2. InPlace(k) /\ Place(k) \in Places
      BY <3>1, Uncovered, PlaceIn DEF Tree, Surviving, Handled
    <3> QED  BY <1>4, <1>7, <3>2 DEF InPlace
  <2> QED  BY <2>1, <2>2
<1>12. Hooked'
  <2> SUFFICES ASSUME NEW k \in 1 .. Len(request.resources), k < at,
                      IsRepository(request.resources[k])
               PROVE  HookedAt(k)'
    BY DEF Hooked
  <2>1. k \in 1 .. at - 1 /\ HookedAt(k)
    BY DEF Tree, Hooked
  <2> QED  BY <1>2, <1>3, <2>1, Uncovered, HookedStays
<1>13. Hidden'
  BY <1>0, <1>6, <1>8 DEF Hidden, OwnClone, Tree
<1>14. Explained'
  <2>1. \A a \in Places : OwnClone(a)' /\ a # p =>
          OwnClone(a) /\ disk'[a] = disk[a] /\ ~IsPrefix(p, a)
    BY <1>6 DEF OwnClone
  <2>2. ASSUME NEW a \in Places, OwnClone(a)', IsStrictPrefix(a, p)
        PROVE  \E j \in Later(disk[a].of) : Place(j) = p
    <3>1. OwnedBy(disk[a].of, a)
      BY <2>1, <2>2 DEF Tree, Owned, Own, OwnClone, IsStrictPrefix
    <3>2. at \in Later(disk[a].of)
      BY <3>1 DEF OwnedBy, Handled, Later
    <3> QED  BY <3>2
  <2>3. ASSUME NEW q \in Places, IsStrictPrefix(p, q), Content(q)'  PROVE Because(p, q)'
    <3>1. HookNode(p, q, disk'[q]) /\ disk'[q] # Directory
      BY <1>1, <1>5, <2>3 DEF Content, IsStrictPrefix
    <3> QED  BY <3>1 DEF HookNode, Because
  <2> QED  BY <1>2, <1>3, <2>1, <2>2, <2>3, ExplainedStays DEF Tree, Covering
<1>15. Emptiness' /\ FreshClone'
  <2>1. SettingsAt(p) \in Places /\ disk[SettingsAt(p)] = Nothing
    BY <1>5, HooksInside DEF HasHooks, IsStrictPrefix
  <2> QED  BY <1>0, <1>1, <1>4, <1>8, <2>1 DEF Emptiness, FreshClone
<1>16. Started'
  <2>1. IsDirectory(disk'[Workspace])
    BY <1>1, <1>8, WorkspaceAlone, ProvisioningAssumption DEF Tree, Started, IsDirectory
  <2> QED  BY <1>4, <2>1, SameRequest DEF Tree, Started
<1> QED  BY <1>1, <1>9, <1>10, <1>11, <1>12, <1>13, <1>14, <1>15, <1>16 DEF Tree

LEMMA InstallTree ==
  ASSUME NEW r, NEW p, AtWork(r, p), phase = "install",
         disk[p].ships.settings.kind \notin {"malformed", "list"},
         disk' = Installed(disk, p), phase' = "mount", at' = at + 1
  PROVE  disk' \in Disks /\ Tree'
<1> USE DEF AtWork
<1>0. PICK n \in 1 .. MaxResources : n = at
  BY ProvisioningAssumption DEF ValidRequest
<1>1. PICK ships \in Settings : ships = disk[p].ships.settings
  <2>1. disk[p].kind = "clone" /\ disk[p] \in Nodes
    BY DEF Tree, FreshClone, Disks
  <2>2. disk[p] \in Clones
    BY <2>1 DEF Nodes, Files, SettingsFiles, Forwarders
  <2> QED  BY <2>2 DEF Clones, Tracked
<1>2. /\ disk[p].kind = "clone" /\ disk[p].of = n
      /\ disk[SettingsAt(p)] = IF ships = NoSettings THEN Nothing ELSE SettingsFile(ships)
  BY <1>0, <1>1 DEF Tree, FreshClone
<1>3. /\ disk' \in Disks
      /\ disk'[p] = [disk[p] EXCEPT !.excluded = TRUE] /\ disk'[p] \in Clones
      /\ disk'[ForwarderAt(p)] = Forwarder("mad")
      /\ disk'[SettingsAt(p)] = SettingsFile(Final(ships))
      /\ \A q \in Places : ~IsPrefix(p, q) => disk'[q] = disk[q]
      /\ \A q \in Places : IsStrictPrefix(p, q) =>
           disk'[q] = disk[q] \/ HookNode(p, q, disk'[q])
  <2>1. ships.kind \notin {"malformed", "list"} /\ HasHooks(p)
    BY <1>1
  <2> QED  BY <1>2, <2>1, InstalledDisk
<1>4. IsRepository(r) /\ IsPrefix(p, p)
  BY PrefixReflexive DEF Tree, Progress, Busy
<1>5. /\ Place(at) = p /\ (\A k : Place(k)' = Place(k)) /\ \A q : Disturbed(q)' <=> Disturbed(q)
      /\ \A q : ~Disturbed(q)
  BY SameRequest DEF Disturbed
<1>6. /\ disk'[p].kind = "clone" /\ disk'[p].of = n /\ disk'[p].ships = disk[p].ships
      /\ disk'[p].excluded = TRUE
  <2>1. disk[p] \in Nodes
    BY DEF Disks
  <2>2. disk[p] \in Clones
    BY <1>2, <2>1 DEF Nodes, Files, SettingsFiles, Forwarders
  <2> QED  BY <1>2, <1>3, <2>2 DEF Clones
<1>7. MountsAt(r, p)
  BY <1>3, <1>4 DEF MountsAt, Covering, Grown
<1>8. \A q \in Places : disk'[q].kind \in {"file", "clone"} => q = p \/ disk'[q] = disk[q]
  BY <1>3 DEF HookNode, IsStrictPrefix
<1>9. \A k : Place(k) \in Places => (Overwrites(at, k) <=> IsPrefix(p, Place(k)))
  BY <1>4 DEF Overwrites, Covers, Covering, Resource
<1>10. ASSUME NEW q \in Places, Own(q), q # p
       PROVE  disk[q].of \in 1 .. at - 1 /\ ~IsPrefix(p, q) /\ OwnedBy(disk[q].of, q)
  <2>1. PICK k : k = disk[q].of
    OBVIOUS
  <2>2. OwnedBy(k, q)
    BY <1>10, <2>1 DEF Tree, Owned
  <2>3. k \in 1 .. at - 1
    BY <1>5, <1>10, <2>2 DEF OwnedBy, Handled
  <2>4. ~Overwrites(at, k)
    BY <2>2, <2>3 DEF OwnedBy, Reach, Busy
  <2> QED  BY <1>9, <2>1, <2>2, <2>3, <2>4 DEF OwnedBy
<1>11. Progress'
  BY DEF Tree, Progress, Busy
<1>12. Owned'
  <2> SUFFICES ASSUME NEW q \in Places, Own(q)'  PROVE OwnedBy(disk[q].of, q)'
    BY DEF Owned
  <2>1. CASE q = p
    <3>1. OwnedBy(n, q)'
      BY <1>0, <1>4, <1>5, <1>6, <2>1 DEF OwnedBy, Handled, Reach, Busy, Resource, IsRepository
    <3> QED  BY <1>6, <2>1, <3>1
  <2>2. CASE q # p
    <3>1. Own(q) /\ disk'[q] = disk[q]
      BY <1>8, <2>2 DEF Own
    <3>2. PICK k : k = disk[q].of
      OBVIOUS
    <3>3. k \in 1 .. at - 1 /\ OwnedBy(k, q)
      BY <1>10, <2>2, <3>1, <3>2
    <3>4. OwnedBy(k, q)'
      BY <1>5, <3>1, <3>3, SameRequest DEF OwnedBy, Handled, Reach, Busy, IsRepository
    <3> QED  BY <3>1, <3>2, <3>4
  <2> QED  BY <2>1, <2>2
<1>13. Surviving'
  <2> SUFFICES ASSUME NEW k \in 1 .. Len(request.resources), Handled(k)', Unspoiled(k)'
               PROVE  InPlace(k)'
    BY DEF Surviving
  <2>1. CASE k = n
    BY <1>0, <1>5, <1>6, <2>1 DEF InPlace
  <2>2. CASE k # n
    <3>1. k \in 1 .. at - 1
      BY <1>0, <2>2 DEF Handled
    <3>2. Unspoiled(k) /\ ~Overwrites(at, k) /\ Place(k) \in Places
      BY <3>1, Uncovered, PlaceIn
    <3>3. InPlace(k)
      BY <3>1, <3>2 DEF Tree, Surviving, Handled
    <3> QED  BY <1>3, <1>5, <1>9, <3>2, <3>3 DEF InPlace
  <2> QED  BY <2>1, <2>2
<1>14. Hooked'
  <2> SUFFICES ASSUME NEW k \in 1 .. Len(request.resources), k < at',
                      IsRepository(request.resources[k])
               PROVE  HookedAt(k)'
    BY DEF Hooked
  <2>1. CASE k = n
    <3>1. Place(k)' = p
      BY <1>0, <1>5, <2>1
    <3>2. SettingsDone(k)'
      BY <1>1, <1>3, <1>6, <2>1, <3>1 DEF SettingsDone, InPlace
    <3> QED  BY <1>3, <3>1, <3>2 DEF HookedAt
  <2>2. CASE k # n
    <3>1. k \in 1 .. at - 1 /\ HookedAt(k)
      BY <1>0, <2>2 DEF Tree, Hooked
    <3> QED  BY <1>7, <3>1, Uncovered, HookedStays
  <2> QED  BY <2>1, <2>2
<1>15. Hidden'
  <2> SUFFICES ASSUME NEW q \in Places, OwnClone(q)', q # p  PROVE disk'[q].excluded
    BY <1>6 DEF Hidden
  <2>1. Own(q) /\ disk'[q] = disk[q] /\ OwnClone(q)
    BY <1>8 DEF Own, OwnClone
  <2>2. disk[q].of < at
    BY <1>10, <2>1
  <2> QED  BY <2>1, <2>2 DEF Hidden, Tree
<1>16. Explained'
  <2>1. \A a \in Places : OwnClone(a)' /\ a # p =>
          OwnClone(a) /\ disk'[a] = disk[a] /\ ~IsPrefix(p, a) /\ disk[a].of \in 1 .. at - 1
    BY <1>8, <1>10 DEF OwnClone, Own
  <2>2. ASSUME NEW a \in Places, OwnClone(a)', IsStrictPrefix(a, p)
        PROVE  \E j \in Later(disk[a].of) : Place(j) = p
    <3>1. disk[a].of \in 1 .. at - 1
      BY <2>1, <2>2 DEF IsStrictPrefix
    <3>2. at \in Later(disk[a].of)
      BY <3>1 DEF Later
    <3> QED  BY <3>2
  <2>3. ASSUME NEW q \in Places, IsStrictPrefix(p, q), Content(q)'  PROVE Because(p, q)'
    <3>1. CASE HookNode(p, q, disk'[q])
      BY <2>3, <3>1 DEF HookNode, Because, Content
    <3>2. CASE disk'[q] = disk[q]
      <4>1. OwnClone(p)
        BY <1>2 DEF OwnClone
      <4>2. Because(p, q)
        BY <2>3, <3>2, <4>1 DEF Tree, Explained, Content
      <4> QED  BY <1>2, <1>5, <1>6, <4>2, SameRequest DEF Because
    <3> QED  BY <1>3, <2>3, <3>1, <3>2
  <2> QED  BY <1>4, <1>7, <2>1, <2>2, <2>3, ExplainedStays DEF Tree, Covering
<1>17. Emptiness' /\ FreshClone'
  BY DEF Emptiness, FreshClone
<1>18. Started'
  <2>1. IsDirectory(disk'[Workspace])
    BY <1>3, <1>6, WorkspaceAlone, ProvisioningAssumption DEF Tree, Started, IsDirectory
  <2> QED  BY <2>1, SameRequest DEF Tree, Started
<1> QED  BY <1>3, <1>11, <1>12, <1>13, <1>14, <1>15, <1>16, <1>17, <1>18 DEF Tree

LEMMA WriteFileTree ==
  ASSUME NEW r, NEW p, AtWork(r, p), phase = "mount", ~IsRepository(r), ~IsDirectory(disk[p]),
         disk' = Written(disk, Passed, p, at), phase' = "mount", at' = at + 1
  PROVE  disk' \in Disks /\ Tree'
<1> USE DEF AtWork
<1>0. PICK n \in 1 .. MaxResources : n = at
  BY ProvisioningAssumption DEF ValidRequest
<1>1. /\ disk' \in Disks
      /\ disk'[p] = File(n)
      /\ \A q \in Places : q # p => Grown(disk, disk', q)
  <2>1. n \in 0 .. MaxResources
    BY ProvisioningAssumption
  <2> QED  BY <1>0, <2>1, WrittenDisk
<1>2. MountsAt(r, p)
  BY <1>1 DEF MountsAt, Covering
<1>3. /\ Place(at) = p /\ (\A k : Place(k)' = Place(k)) /\ \A q : Disturbed(q)' <=> Disturbed(q)
      /\ \A q : ~Disturbed(q)
  BY SameRequest DEF Disturbed
<1>4. \A q \in Places :
        q # p /\ disk'[q].kind \in {"file", "clone"} => disk'[q] = disk[q]
  BY <1>1 DEF Grown
<1>5. \A q \in Places : q # p /\ disk[q].kind \in {"file", "clone"} => disk'[q] = disk[q]
  BY <1>1 DEF Grown
<1>6. disk'[p].kind = "file" /\ disk'[p].of = n
  BY <1>1 DEF File
<1>7. \A k : Overwrites(at, k) <=> p = Place(k) /\ ~IsRepository(request.resources[k])
  BY DEF Overwrites, Covers, Covering, Resource
<1>8. Progress'
  BY DEF Tree, Progress, Busy
<1>9. Owned'
  <2> SUFFICES ASSUME NEW q \in Places, Own(q)'  PROVE OwnedBy(disk[q].of, q)'
    BY DEF Owned
  <2>1. CASE q = p
    <3>1. OwnedBy(n, q)'
      BY <1>0, <1>3, <1>6, <2>1 DEF OwnedBy, Handled, Reach, Busy, Resource, IsRepository
    <3> QED  BY <1>6, <2>1, <3>1
  <2>2. CASE q # p
    <3>1. Own(q) /\ disk'[q] = disk[q]
      BY <1>4, <2>2 DEF Own
    <3>2. PICK k : k = disk[q].of
      OBVIOUS
    <3>3. OwnedBy(k, q)
      BY <3>1, <3>2 DEF Tree, Owned
    <3>4. k \in 1 .. at - 1 /\ ~Overwrites(at, k)
      BY <1>7, <2>2, <3>3 DEF OwnedBy, Handled
    <3>5. \A j \in k + 1 .. at : ~Overwrites(j, k)
      BY <3>3, <3>4 DEF OwnedBy, Reach, Busy
    <3>6. OwnedBy(k, q)'
      BY <1>3, <3>1, <3>3, <3>4, <3>5, SameRequest
      DEF OwnedBy, Handled, Reach, Busy, IsRepository
    <3> QED  BY <3>1, <3>2, <3>6
  <2> QED  BY <2>1, <2>2
<1>10. Surviving'
  <2> SUFFICES ASSUME NEW k \in 1 .. Len(request.resources), Handled(k)', Unspoiled(k)'
               PROVE  InPlace(k)'
    BY DEF Surviving
  <2>1. CASE k = n
    BY <1>0, <1>3, <1>6, <2>1 DEF InPlace
  <2>2. CASE k # n
    <3>1. k \in 1 .. at - 1
      BY <1>0, <2>2 DEF Handled
    <3>2. Unspoiled(k) /\ ~Overwrites(at, k) /\ Place(k) \in Places
      BY <3>1, Uncovered, PlaceIn
    <3>3. InPlace(k)
      BY <3>1, <3>2 DEF Tree, Surviving, Handled
    <3>4. PICK q \in Places : q = Place(k)
      BY <3>2
    <3>5. Own(q) /\ disk[q].of = k
      BY <3>1, <3>3, <3>4 DEF InPlace, Own
    <3>6. IsRepository(request.resources[k]) <=> disk[q].kind = "clone"
      BY <3>5 DEF Tree, Owned, OwnedBy
    <3>7. q # p
      BY <1>7, <3>2, <3>4, <3>6 DEF IsDirectory
    <3> QED  BY <1>3, <1>5, <3>3, <3>4, <3>7 DEF InPlace
  <2> QED  BY <2>1, <2>2
<1>11. Hooked'
  <2> SUFFICES ASSUME NEW k \in 1 .. Len(request.resources), k < at',
                      IsRepository(request.resources[k])
               PROVE  HookedAt(k)'
    BY DEF Hooked
  <2>1. k \in 1 .. at - 1
    BY DEF Resource
  <2>2. HookedAt(k)
    BY <2>1 DEF Tree, Hooked
  <2> QED  BY <1>2, <2>1, <2>2, Uncovered, HookedStays
<1>12. \A a \in Places : OwnClone(a)' =>
         a # p /\ OwnClone(a) /\ disk'[a] = disk[a] /\ disk[a].of \in 1 .. at - 1
  <2> SUFFICES ASSUME NEW a \in Places, OwnClone(a)'
               PROVE  a # p /\ OwnClone(a) /\ disk'[a] = disk[a] /\ disk[a].of \in 1 .. at - 1
    OBVIOUS
  <2>1. a # p /\ OwnClone(a) /\ disk'[a] = disk[a]
    BY <1>4, <1>6 DEF OwnClone
  <2>2. OwnedBy(disk[a].of, a)
    BY <2>1 DEF Tree, Owned, Own, OwnClone
  <2> QED  BY <2>1, <2>2 DEF OwnedBy, Handled
<1>13. Hidden'
  BY <1>12 DEF Hidden, Tree
<1>14. Explained'
  <2>1. ASSUME NEW a \in Places, OwnClone(a)', IsStrictPrefix(a, p)
        PROVE  \E j \in Later(disk[a].of) : Place(j) = p
    <3>1. disk[a].of \in 1 .. at - 1
      BY <1>12, <2>1
    <3>2. at \in Later(disk[a].of)
      BY <3>1 DEF Later
    <3> QED  BY <3>2
  <2> QED  BY <1>2, <1>12, <2>1, ExplainedStays DEF Tree, Covering
<1>15. Emptiness' /\ FreshClone'
  BY DEF Emptiness, FreshClone
<1>16. Started'
  <2>1. IsDirectory(disk[Workspace]) /\ Workspace \in Places
    BY ProvisioningAssumption DEF Tree, Started
  <2>2. IsDirectory(disk'[Workspace])
    BY <1>1, <2>1 DEF Grown, IsDirectory
  <2> QED  BY <2>2, SameRequest DEF Tree, Started
<1> QED  BY <1>1, <1>8, <1>9, <1>10, <1>11, <1>13, <1>14, <1>15, <1>16 DEF Tree

-----------------------------------------------------------------------------
(* The mounts of other sessions.                                           *)

(* Another session mounts o, and leaves nothing of this one where it does. *)
Outside(o) ==
  /\ o \in [type : {"github_repository", "file"}, place : Places]
  /\ ~IsPrefix(Workspace, o.place) /\ others' = others \cup {o}
  /\ MountsAt(o, o.place)
  /\ \A q \in Places : Covering(o, o.place, q) => ~Own(q)'

LEMMA OthersOutside ==
  ASSUME Inv, OtherMounts
  PROVE  \E o : Outside(o)
<1> DEFINE way(m) == {q \in Way(m) : ~IsPrefix(Workspace, q)}
           room(m) == Emptied(disk, way(m), Resolve(m))
<1>1. PICK m \in Elsewhere :
        /\ ValidMount(m) /\ ~IsPrefix(Workspace, Resolve(m))
        /\ \/ /\ \/ disk' = room(m)
                 \/ disk' = Installed(Cloned(room(m), Resolve(m), 0, NothingTracked), Resolve(m))
              /\ others' = others \cup {[type |-> "github_repository", place |-> Resolve(m)]}
           \/ /\ ~IsDirectory(disk[Resolve(m)])
              /\ disk' = Written(disk, way(m), Resolve(m), 0)
              /\ others' = others \cup {[type |-> "file", place |-> Resolve(m)]}
  BY DEF OtherMounts
<1>2. PICK p \in Places : p = Resolve(m) /\ HasHooks(p) /\ p \in Seq(Names)
  BY <1>1, ProvisioningAssumption, PlacesAreSeqs DEF HasHooks
<1>3. PICK w : w = way(m)
  OBVIOUS
<1>4. UNCHANGED request /\ disk \in Disks /\ 0 \in 0 .. MaxResources
  BY ProvisioningAssumption DEF OtherMounts, handlerVars, Inv
<1> HIDE DEF way
<1> DEFINE e == Emptied(disk, w, p)
           c == Cloned(e, p, 0, NothingTracked)
           i == Installed(c, p)
           repository == [type |-> "github_repository", place |-> p]
           file == [type |-> "file", place |-> p]
<1>5. /\ e \in Disks
      /\ \A q \in Places : IsPrefix(p, q) => e[q] = Nothing
      /\ \A q \in Places : ~IsPrefix(p, q) => Grown(disk, e, q)
  BY <1>4, EmptiedDisk
<1>6. /\ IsRepository(repository) /\ ~IsRepository(file)
      /\ repository.place = p /\ file.place = p
      /\ {repository, file} \subseteq [type : {"github_repository", "file"}, place : Places]
  BY DEF IsRepository
<1> HIDE DEF e, c, i, repository, file
<1>7. ASSUME disk' = e, others' = others \cup {repository}  PROVE Outside(repository)
  BY <1>1, <1>2, <1>4, <1>5, <1>6, <1>7 DEF Outside, MountsAt, Covering, Own
<1>8. ASSUME disk' = i, others' = others \cup {repository}  PROVE Outside(repository)
  <2>1. NothingTracked \in Tracked /\ NothingTracked.settings = NoSettings
    BY DEF NothingTracked, Tracked, Settings
  <2>2. SettingsAt(p) \in Places /\ e[SettingsAt(p)] = Nothing
    BY <1>2, <1>5, HooksInside DEF HasHooks, IsStrictPrefix
  <2>3. /\ c \in Disks /\ c[p] = Clone(0, NothingTracked) /\ c[SettingsAt(p)] = Nothing
        /\ \A q \in Places : ~IsPrefix(p, q) => c[q] = e[q]
        /\ \A q \in Places : IsStrictPrefix(p, q) => c[q] = e[q] \/ HookNode(p, q, c[q])
    BY <1>2, <1>4, <1>5, <2>1, <2>2, ClonedDisk DEF c
  <2>4. c[p].kind = "clone" /\ c[p].of = 0
    BY <2>3 DEF Clone
  <2>5. NoSettings \in Settings /\ NoSettings.kind \notin {"malformed", "list"}
    BY DEF Settings, NoSettings
  <2>6. /\ i \in Disks /\ i[p] = [c[p] EXCEPT !.excluded = TRUE]
        /\ \A q \in Places : ~IsPrefix(p, q) => i[q] = c[q]
        /\ \A q \in Places : IsStrictPrefix(p, q) => i[q] = c[q] \/ HookNode(p, q, i[q])
    BY <1>2, <2>3, <2>4, <2>5, InstalledDisk DEF i
  <2>7. i[p].of = 0
    BY <2>3, <2>4, <2>6 DEF Clone
  <2>8. \A q \in Places : IsStrictPrefix(p, q) => i[q].kind \notin {"file", "clone"}
    BY <1>5, <2>3, <2>6 DEF HookNode, IsStrictPrefix
  <2>9. \A q \in Places : IsPrefix(p, q) => ~Own(q)'
    BY <1>8, <2>7, <2>8 DEF IsStrictPrefix, Own
  <2>10. \A q \in Places : ~IsPrefix(p, q) => Grown(disk, disk', q)
    BY <1>5, <1>8, <2>3, <2>6 DEF Grown
  <2> QED  BY <1>1, <1>2, <1>4, <1>6, <1>8, <2>6, <2>9, <2>10 DEF Outside, MountsAt, Covering
<1>9. ASSUME ~IsDirectory(disk[p]), disk' = Written(disk, w, p, 0), others' = others \cup {file}
      PROVE  Outside(file)
  <2>1. /\ disk' \in Disks /\ disk'[p] = File(0)
        /\ \A q \in Places : q # p => Grown(disk, disk', q)
    BY <1>4, <1>9, WrittenDisk
  <2>2. ~Own(p)'
    BY <2>1 DEF Own, File
  <2> QED  BY <1>1, <1>2, <1>4, <1>6, <1>9, <2>1, <2>2 DEF Outside, MountsAt, Covering
<1>10. /\ Resolve(m) = p /\ way(m) = w
  BY <1>2, <1>3
<1> QED  BY <1>1, <1>7, <1>8, <1>9, <1>10 DEF e, c, i, repository, file

LEMMA OtherTree ==
  ASSUME Inv, phase = "idle", answer = 200, NEW o, Outside(o), UNCHANGED <<logged, at, phase>>
  PROVE  Tree'
<1>1. PICK p \in Places : p = o.place /\ MountsAt(o, p) /\ ~IsPrefix(Workspace, p)
  BY DEF Outside
<1>2. /\ Tree /\ ValidRequest /\ disk \in Disks /\ UNCHANGED request
      /\ others \subseteq others' /\ o \in others' /\ p \in Seq(Names)
  BY <1>1, PlacesAreSeqs DEF Inv, Alive, Outside, MountsAt
<1>3. (\A k : Place(k)' = Place(k)) /\ \A q : Disturbed(q)' <=> Disturbed(q) \/ Covering(o, p, q)
  <2>1. \A q : (\E a \in others' : Covering(a, a.place, q))
                 <=> (\E a \in others : Covering(a, a.place, q)) \/ Covering(o, o.place, q)
    BY DEF Outside
  <2> QED  BY <1>1, <1>2, <2>1, SameRequest DEF Disturbed, Covering, IsRepository
<1>4. \A q \in Places : Own(q)' => Own(q) /\ disk'[q] = disk[q] /\ ~Covering(o, p, q)
  BY <1>1 DEF Outside, MountsAt, Grown, Own
<1>5. \A q \in Places :
        disk[q].kind \in {"file", "clone"} /\ ~Covering(o, p, q) => disk'[q] = disk[q]
  BY <1>1 DEF MountsAt, Grown
<1>6. Progress'
  BY <1>2 DEF Tree, Progress, Busy
<1>7. Owned'
  <2> SUFFICES ASSUME NEW q \in Places, Own(q)'  PROVE OwnedBy(disk[q].of, q)'
    BY DEF Owned
  <2>1. Own(q) /\ disk'[q] = disk[q] /\ ~Covering(o, p, q)
    BY <1>4
  <2>2. PICK k : k = disk[q].of
    OBVIOUS
  <2>3. OwnedBy(k, q)
    BY <1>2, <2>1, <2>2 DEF Tree, Owned
  <2>4. OwnedBy(k, q)'
    BY <1>2, <1>3, <2>1, <2>3, SameRequest DEF OwnedBy, Handled, Reach, Busy, IsRepository
  <2> QED  BY <2>1, <2>2, <2>4
<1>8. Surviving'
  <2> SUFFICES ASSUME NEW k \in 1 .. Len(request.resources), Handled(k)', Unspoiled(k)'
               PROVE  InPlace(k)'
    BY <1>2 DEF Surviving
  <2>1. Handled(k) /\ Unspoiled(k) /\ ~Covering(o, p, Place(k))
    BY <1>2, <1>3, SameRequest DEF Handled, Unspoiled
  <2>2. InPlace(k) /\ Place(k) \in Places
    BY <1>2, <2>1, PlaceIn DEF Tree, Surviving
  <2> QED  BY <1>3, <1>5, <2>1, <2>2 DEF InPlace
<1>9. Hooked'
  <2> SUFFICES ASSUME NEW k \in 1 .. Len(request.resources), k < at,
                      IsRepository(request.resources[k])
               PROVE  HookedAt(k)'
    BY <1>2 DEF Hooked
  <2>1. HookedAt(k)
    BY <1>2 DEF Tree, Hooked
  <2>2. \A q : Kept(k, q)' => Kept(k, q) /\ ~Covering(o, p, q)
    BY <1>2, <1>3, SameRequest DEF Kept
  <2> QED  BY <1>1, <1>2, <2>1, <2>2, HookedStays
<1>10. \A a \in Places : OwnClone(a)' => OwnClone(a) /\ disk'[a] = disk[a] /\ ~Covering(o, p, a)
  BY <1>4 DEF OwnClone, Own
<1>11. Hidden'
  BY <1>2, <1>10 DEF Tree, Hidden
<1>12. Explained'
  <2>1. ~OwnClone(p)'
    BY <1>2, <1>10, PrefixReflexive DEF Covering
  <2> QED  BY <1>1, <1>2, <1>10, <2>1, ExplainedStays DEF Tree
<1>13. Emptiness' /\ FreshClone'
  BY DEF Emptiness, FreshClone
<1>14. Started'
  <2>1. IsDirectory(disk[Workspace]) /\ Workspace \in Places
    BY <1>2, ProvisioningAssumption DEF Tree, Started
  <2>2. ~Covering(o, p, Workspace)
    BY <1>1, <1>2, WorkspaceAlone, PrefixReflexive DEF Covering
  <2>3. IsDirectory(disk'[Workspace])
    BY <1>1, <2>1, <2>2 DEF MountsAt, Grown, IsDirectory
  <2> QED  BY <1>2, <2>3, SameRequest DEF Tree, Started
<1> QED  BY <1>6, <1>7, <1>8, <1>9, <1>11, <1>12, <1>13, <1>14 DEF Tree

-----------------------------------------------------------------------------
(* Every step keeps the invariant.                                         *)

LEMMA InitInv == Init => Inv
<1> SUFFICES ASSUME Init  PROVE Inv
  OBVIOUS
<1>1. disk \in Disks /\ \A q \in Places : ~Own(q)
  BY DEF Init, Disks, Nodes, Own
<1>2. ValidRequest
  BY ProvisioningAssumption DEF Init, ValidRequest, NoRequest
<1>3. None # 200
  BY ProvisioningAssumption
<1> QED  BY <1>1, <1>2, <1>3 DEF Init, Inv, Alive

(* An accepted request has a working directory of its own.                 *)
LEMMA DirectoryIn ==
  ASSUME NEW r, r.resources \in Seq(Resources), r.working_directory \in Directories \cup {None},
         r.working_directory # None => ValidMount(r.working_directory),
         \A k \in DOMAIN r.resources : ValidMount(r.resources[k].mount_path)
  PROVE  WorkingDirectory(r) \in Places
<1>1. CASE r.working_directory # None
  BY <1>1, ProvisioningAssumption DEF WorkingDirectory
<1>2. CASE r.working_directory = None
  <2> DEFINE clones == {k \in DOMAIN r.resources : IsRepository(r.resources[k])}
  <2>1. ASSUME NEW k \in clones  PROVE Resolve(r.resources[k].mount_path) \in Places
    <3>1. r.resources[k] \in Resources /\ ValidMount(r.resources[k].mount_path)
      OBVIOUS
    <3>2. r.resources[k].mount_path \in Mounts
      BY <3>1 DEF Resources
    <3> QED  BY <3>1, <3>2, ProvisioningAssumption
  <2> QED  BY <1>2, <2>1, ProvisioningAssumption DEF WorkingDirectory
<1> QED  BY <1>1, <1>2

LEMMA PostInv == Inv /\ Post => Inv'
<1> SUFFICES ASSUME Inv, Post  PROVE Inv'
  OBVIOUS
<1>1. PICK r \in Requests :
        LET mounts == {r.resources[k].mount_path : k \in DOMAIN r.resources}
                        \cup ({r.working_directory} \ {None})
        IN IF \A m \in mounts : ValidMount(m)
           THEN /\ disk' = [disk EXCEPT ![Workspace] = Directory]
                /\ logged' = WorkingDirectory(r)
                /\ request' = r /\ at' = 1 /\ phase' = "mount" /\ answer' = None
                /\ others' = {}
           ELSE /\ answer' = 400
                /\ UNCHANGED <<disk, logged, request, at, phase, others>>
  BY DEF Post
<1>2. /\ r.resources \in Seq(Resources) /\ Len(r.resources) <= MaxResources
      /\ r.working_directory \in Directories \cup {None}
  BY ProvisioningAssumption DEF Requests, BoundedSeq, SeqOf
<1>3. phase = "idle" /\ logged = None /\ None # 200 /\ \A q \in Places : ~Own(q)
  BY ProvisioningAssumption DEF Post, Inv
<1>4. CASE answer' = 400 /\ UNCHANGED <<disk, logged, request, at, phase, others>>
  BY <1>3, <1>4 DEF Inv, ValidRequest, Alive, Own
<1>5. CASE /\ disk' = [disk EXCEPT ![Workspace] = Directory]
           /\ logged' = WorkingDirectory(r)
           /\ request' = r /\ at' = 1 /\ phase' = "mount" /\ answer' = None /\ others' = {}
           /\ r.working_directory # None => ValidMount(r.working_directory)
           /\ \A k \in DOMAIN r.resources : ValidMount(r.resources[k].mount_path)
  <2>1. /\ disk' \in Disks /\ disk'[Workspace] = Directory
        /\ \A q \in Places : disk'[q] = Directory \/ disk'[q] = disk[q]
    BY <1>5, ProvisioningAssumption DEF Inv, Disks, Nodes
  <2>2. \A q \in Places : ~Own(q)'
    BY <1>3, <2>1 DEF Own
  <2>3. ValidRequest'
    BY <1>2, <1>5 DEF ValidRequest
  <2>4. logged' # None
    BY <1>2, <1>5, DirectoryIn, ProvisioningAssumption
  <2>5. Progress'
    BY <1>2, <1>5 DEF Progress, Busy
  <2>6. /\ Owned' /\ Surviving' /\ Hooked' /\ Hidden' /\ Explained' /\ Emptiness'
        /\ FreshClone'
    BY <1>5, <2>2 DEF Owned, Surviving, Handled, Hooked, Hidden, Explained, OwnClone, Own,
                      Emptiness, FreshClone
  <2>7. Started'
    BY <1>5, <2>1 DEF Started, IsDirectory, WorkingDirectory, IsRepository
  <2> QED  BY <1>3, <1>5, <2>1, <2>3, <2>4, <2>5, <2>6, <2>7 DEF Inv, Tree
<1> QED  BY <1>1, <1>4, <1>5

LEMMA FailsInv ==
  ASSUME Inv, phase # "idle", disk' \in Disks, UNCHANGED <<others, logged>>,
         NEW status \in {400, 500, 502}, Fails(status)
  PROVE  Inv'
<1>1. logged # None
  BY DEF Inv, Alive
<1> QED  BY <1>1 DEF Inv, Fails, Alive, ValidRequest

LEMMA WorksInv ==
  ASSUME Inv, phase # "idle", disk' \in Disks, Tree', phase' \in {"mount", "clone", "install"},
         UNCHANGED <<request, answer, others, logged>>
  PROVE  Inv'
<1>1. logged # None
  BY DEF Inv, Alive
<1> QED  BY <1>1 DEF Inv, ValidRequest

LEMMA MakeRoomInv == Inv /\ MakeRoom => Inv'
<1> SUFFICES ASSUME Inv, MakeRoom  PROVE Inv'
  OBVIOUS
<1>1. CASE Fails(500) /\ UNCHANGED disk
  BY <1>1, FailsInv DEF MakeRoom, Mounting, Inv
<1>2. CASE /\ disk' = Emptied(disk, Passed, Place(at)) /\ phase' = "clone"
           /\ UNCHANGED <<request, at, answer>>
  <2>1. PICK r, p : AtWork(r, p)
    BY <1>2, Starting DEF MakeRoom, Mounting
  <2>2. disk' \in Disks /\ Tree'
    BY <1>2, <2>1, MakeRoomTree DEF MakeRoom, Mounting, AtWork, IsRepository
  <2> QED  BY <1>2, <2>2, WorksInv DEF MakeRoom, Mounting
<1> QED  BY <1>1, <1>2 DEF MakeRoom

LEMMA GitCloneInv == Inv /\ GitClone => Inv'
<1> SUFFICES ASSUME Inv, GitClone  PROVE Inv'
  OBVIOUS
<1>1. CASE Fails(502) /\ UNCHANGED disk
  BY <1>1, FailsInv DEF GitClone, Inv
<1>2. CASE \E ships \in Ships : /\ disk' = Cloned(disk, Place(at), at, ships)
                                /\ phase' = "install" /\ UNCHANGED <<request, at, answer>>
  <2>1. PICK ships \in Tracked : disk' = Cloned(disk, Place(at), at, ships)
    BY <1>2, ProvisioningAssumption
  <2>2. at <= Len(request.resources)
    BY DEF GitClone, Inv, Alive, Tree, Progress, Busy
  <2>3. PICK r, p : AtWork(r, p)
    BY <1>2, <2>2, Starting DEF GitClone
  <2>4. disk' \in Disks /\ Tree'
    BY <1>2, <2>1, <2>3, GitCloneTree DEF GitClone, AtWork
  <2> QED  BY <1>2, <2>4, WorksInv DEF GitClone
<1> QED  BY <1>1, <1>2 DEF GitClone

LEMMA InstallInv == Inv /\ Install => Inv'
<1> SUFFICES ASSUME Inv, Install  PROVE Inv'
  OBVIOUS
<1>1. CASE \E status \in {400, 500} :
             Fails(status) /\ (disk' = WithForwarder(disk, Place(at)) \/ UNCHANGED disk)
  <2>1. disk' \in Disks
    BY <1>1, WithForwarderDisk DEF Inv
  <2> QED  BY <1>1, <2>1, FailsInv DEF Install
<1>2. CASE /\ disk' = Installed(disk, Place(at)) /\ GoesOn
           /\ disk[Place(at)].ships.settings.kind \notin {"malformed", "list"}
  <2>1. at <= Len(request.resources)
    BY DEF Install, Inv, Alive, Tree, Progress, Busy
  <2>2. PICK r, p : AtWork(r, p)
    BY <1>2, <2>1, Starting DEF Install, GoesOn
  <2>3. disk' \in Disks /\ Tree'
    BY <1>2, <2>2, InstallTree DEF Install, GoesOn, AtWork
  <2> QED  BY <1>2, <2>3, WorksInv DEF Install, GoesOn
<1> QED  BY <1>1, <1>2 DEF Install

LEMMA WriteFileInv == Inv /\ WriteFile => Inv'
<1> SUFFICES ASSUME Inv, WriteFile  PROVE Inv'
  OBVIOUS
<1>1. CASE Fails(500) /\ UNCHANGED disk
  BY <1>1, FailsInv DEF WriteFile, Mounting, Inv
<1>2. CASE /\ ~IsDirectory(disk[Place(at)])
           /\ disk' = Written(disk, Passed, Place(at), at) /\ GoesOn
  <2>1. PICK r, p : AtWork(r, p)
    BY <1>2, Starting DEF WriteFile, Mounting, GoesOn
  <2>2. disk' \in Disks /\ Tree'
    BY <1>2, <2>1, WriteFileTree DEF WriteFile, Mounting, GoesOn, AtWork, IsRepository
  <2> QED  BY <1>2, <2>2, WorksInv DEF WriteFile, Mounting, GoesOn
<1> QED  BY <1>1, <1>2 DEF WriteFile

(* The answer 200 leaves all as it is; what was handled stays so.          *)
LEMMA CreatedInv == Inv /\ Created => Inv'
<1> SUFFICES ASSUME Inv, Created  PROVE Inv'
  OBVIOUS
<1>1. /\ Tree /\ ValidRequest /\ disk \in Disks /\ phase = "mount" /\ logged # None
      /\ UNCHANGED <<disk, request, at, logged, others>> /\ phase' = "idle"
      /\ at > Len(request.resources)
  BY DEF Created, Inv, Alive
<1>2. at = Len(request.resources) + 1
  BY <1>1 DEF Tree, Progress, ValidRequest
<1>3. \A k : Handled(k)' <=> Handled(k)
  BY <1>1 DEF Handled
<1>4. Reach' = Reach /\ (\A k : Place(k)' = Place(k) /\ Later(k)' = Later(k))
  BY <1>1 DEF Reach, Busy, Place, Later
<1>5. \A q : Disturbed(q)' <=> Disturbed(q)
  BY <1>1 DEF Disturbed
<1>6. (\A j, k : Overwrites(j, k)' <=> Overwrites(j, k)) /\ \A j, q : Covers(j, q)' <=> Covers(j, q)
  BY <1>1, SameRequest
<1>7. Progress'
  BY <1>1, <1>2 DEF Tree, Progress, Busy
<1>8. Owned'
  BY <1>1, <1>3, <1>4, <1>5, <1>6 DEF Tree, Owned, OwnedBy, Own, IsRepository
<1>9. Surviving'
  BY <1>1, <1>3, <1>4, <1>5, <1>6 DEF Tree, Surviving, Unspoiled, InPlace
<1>10. Hooked'
  BY <1>1, <1>4, <1>5, <1>6 DEF Tree, Hooked, HookedAt, SettingsDone, InPlace, Kept, IsRepository
<1>11. Hidden' /\ Explained' /\ Emptiness' /\ FreshClone'
  BY <1>1, <1>4 DEF Tree, Hidden, Explained, OwnClone, Content, Because, Emptiness, FreshClone
<1>12. Started'
  BY <1>1, <1>4, SameRequest DEF Tree, Started
<1>13. Tree'
  BY <1>7, <1>8, <1>9, <1>10, <1>11, <1>12 DEF Tree
<1> QED  BY <1>1, <1>13 DEF Inv, ValidRequest

LEMMA OtherMountsInv == Inv /\ OtherMounts => Inv'
<1> SUFFICES ASSUME Inv, OtherMounts  PROVE Inv'
  OBVIOUS
<1>1. PICK o : Outside(o)
  BY OthersOutside
<1>2. /\ UNCHANGED <<logged, request, at, phase, answer>> /\ phase = "idle"
      /\ logged = None \/ answer = 200
  BY DEF OtherMounts, handlerVars
<1>3. /\ disk' \in Disks /\ ValidRequest'
      /\ others' \subseteq [type : {"github_repository", "file"}, place : Places]
  BY <1>1, <1>2 DEF Inv, ValidRequest, Outside, MountsAt
<1>4. CASE logged = None
  <2>1. \A q \in Places : ~Own(q)'
    BY <1>1, <1>4 DEF Inv, Outside, MountsAt, Grown, Own
  <2> QED  BY <1>2, <1>3, <1>4, <2>1 DEF Inv, Alive
<1>5. CASE logged # None
  BY <1>1, <1>2, <1>3, <1>5, OtherTree DEF Inv
<1> QED  BY <1>4, <1>5

LEMMA DeleteInv == Inv /\ Delete => Inv'
<1> SUFFICES ASSUME Inv, Delete  PROVE Inv'
  OBVIOUS
<1>1. ValidRequest' /\ answer' # 200 /\ phase' = "idle"
  BY ProvisioningAssumption DEF Delete, Inv, ValidRequest, NoRequest
<1>2. ASSUME NEW q \in Places  PROVE disk'[q] \in Nodes /\ ~Own(q)'
  <2>1. disk'[q] = Nothing \/ disk'[q] = Foreign(disk[q])
    BY DEF Delete
  <2>2. Foreign(disk[q]) \in Nodes /\ (Foreign(disk[q]).kind \in {"file", "clone"} =>
                                         Foreign(disk[q]).of = 0)
    <3>1. CASE disk[q].kind \in {"file", "clone"}
      <4>1. disk[q] \in Files \cup Clones
        BY <3>1 DEF Inv, Disks, Nodes, SettingsFiles, Forwarders
      <4> QED  BY <3>1, <4>1, ProvisioningAssumption DEF Foreign, Nodes, Files, Clones
    <3>2. CASE disk[q].kind \notin {"file", "clone"}
      BY <3>2 DEF Foreign, Inv, Disks
    <3> QED  BY <3>1, <3>2
  <2> QED  BY <2>1, <2>2 DEF Own, Nodes
<1>3. disk' = [q \in Places |-> disk'[q]]
  BY DEF Delete
<1>4. disk' \in Disks
  BY <1>2, <1>3 DEF Disks
<1> QED  BY <1>1, <1>2, <1>4 DEF Delete, Inv, Alive

LEMMA OtherInv == Inv /\ (Fetch \/ Crash \/ Restart \/ UNCHANGED vars) => Inv'
<1>1. Inv /\ Crash => Inv'
  <2> SUFFICES ASSUME Inv, Crash  PROVE Inv'
    OBVIOUS
  <2>1. ValidRequest' /\ answer' # 200 /\ phase' = "idle" /\ others' = {}
    BY ProvisioningAssumption DEF Crash, ValidRequest, NoRequest
  <2> QED  BY <2>1 DEF Crash, Inv, Alive, Own
<1>2. Inv /\ (Fetch \/ Restart \/ UNCHANGED vars) => Inv'
  <2> SUFFICES ASSUME Inv, UNCHANGED <<disk, logged, handlerVars, others>>  PROVE Inv'
    BY DEF Fetch, Restart, vars
  <2> QED
    BY DEF handlerVars, Inv, ValidRequest, Alive, Own, Tree, Progress, Busy, Resource,
           Owned, OwnedBy, Handled, Reach, Place, Disturbed, Overwrites, Covers, Covering,
           IsRepository, Surviving, Unspoiled, Later, InPlace, Hooked, HookedAt, Kept,
           SettingsDone, Hidden, OwnClone, Explained, Content, Because, Emptiness,
           FreshClone, Started
<1> QED  BY <1>1, <1>2

LEMMA StepInv == Inv /\ [Next]_vars => Inv'
  BY PostInv, MakeRoomInv, GitCloneInv, InstallInv, WriteFileInv, CreatedInv,
     OtherMountsInv, DeleteInv, OtherInv DEF Next

LEMMA InvAlways == Spec => []Inv
  BY InitInv, StepInv, PTL DEF Spec

-----------------------------------------------------------------------------
(* What a session that is answered 200 starts with.                        *)

(* What a creation answered 200 has gone through.                          *)
LEMMA Answered ==
  ASSUME Inv, answer = 200
  PROVE  /\ Tree /\ ValidRequest /\ disk \in Disks /\ Len(request.resources) \in Nat
         /\ DOMAIN request.resources = 1 .. Len(request.resources)
         /\ at = Len(request.resources) + 1 /\ Reach = Len(request.resources)
         /\ \A k \in 1 .. Len(request.resources) : Handled(k)
<1>1. Tree /\ ValidRequest /\ disk \in Disks /\ phase = "idle"
  BY DEF Inv, Alive
<1>2. Len(request.resources) \in Nat /\ DOMAIN request.resources = 1 .. Len(request.resources)
  BY <1>1 DEF ValidRequest
<1>3. at = Len(request.resources) + 1
  BY <1>1 DEF Tree, Progress
<1> QED  BY <1>1, <1>2, <1>3 DEF Reach, Busy, Handled

(* A resource in place has been covered by nothing.                        *)
LEMMA InPlaceUnspoiled ==
  ASSUME Inv, answer = 200, NEW k \in DOMAIN request.resources, InPlace(k)
  PROVE  Unspoiled(k) /\ (IsRepository(request.resources[k]) <=> disk[Place(k)].kind = "clone")
<1>1. PICK q \in Places : q = Place(k)
  BY Answered, PlaceIn
<1>2. Own(q) /\ disk[q].of = k
  BY <1>1, Answered DEF InPlace, Own
<1>3. OwnedBy(k, q)
  BY <1>2, Answered DEF Tree, Owned
<1> QED  BY <1>1, <1>3, Answered DEF OwnedBy, Unspoiled, Later

(* Whatever a request mounts, by whatever paths, and whatever its          *)
(* repositories contain and other sessions mount beside the workspace, the *)
(* resources of a session that is answered 200 are where it put them,      *)
(* except those that something was mounted over.                           *)
THEOREM MountsAreSafe == Spec => []MountsSurvive
<1>1. Inv => MountsSurvive
  <2> SUFFICES ASSUME Inv, answer = 200, NEW k \in DOMAIN request.resources
               PROVE  InPlace(k) <=> Unspoiled(k)
    BY DEF MountsSurvive, Unspoiled
  <2>1. Unspoiled(k) => InPlace(k)
    BY Answered DEF Tree, Surviving
  <2> QED  BY <2>1, InPlaceUnspoiled
<1> QED  BY <1>1, InvAlways, PTL

Groups == Seq({Forward, "project"})

(* Adding Mad's group to groups that do not have it.                       *)
LEMMA ForwardsOnce ==
  ASSUME NEW groups \in Groups
  PROVE  /\ Forwards(groups) = 0 <=> ~HasForward(groups)
         /\ ~HasForward(groups) => Forwards(Append(groups, Forward)) = 1
<1> DEFINE hits == {i \in DOMAIN groups : groups[i] = Forward}
<1>1. DOMAIN groups = 1 .. Len(groups) /\ Len(groups) \in Nat
  BY DEF Groups
<1>2. IsFiniteSet(hits)
  <2>1. IsFiniteSet(1 .. Len(groups))
    BY <1>1, FS_Interval
  <2> QED  BY <1>1, <2>1, FS_Subset
<1>3. Forwards(groups) = 0 <=> ~HasForward(groups)
  BY <1>2, FS_EmptySet DEF Forwards, HasForward
<1>4. ASSUME ~HasForward(groups)  PROVE Forwards(Append(groups, Forward)) = 1
  <2>1. /\ DOMAIN Append(groups, Forward) = 1 .. Len(groups) + 1
        /\ Append(groups, Forward)[Len(groups) + 1] = Forward
        /\ \A i \in 1 .. Len(groups) : Append(groups, Forward)[i] = groups[i]
    BY DEF Groups, Forward
  <2>2. {i \in DOMAIN Append(groups, Forward) : Append(groups, Forward)[i] = Forward}
          = {Len(groups) + 1}
    BY <1>1, <1>4, <2>1 DEF HasForward
  <2> QED  BY <2>2, FS_Singleton DEF Forwards
<1> QED  BY <1>3, <1>4

LEMMA PrefixOfAppend ==
  ASSUME NEW groups \in Groups
  PROVE  IsPrefix(groups, groups) /\ IsPrefix(groups, Append(groups, Forward))
  BY DEF IsPrefix, Groups, Forward

LEMMA EmptyGroups ==
  /\ Forwards(<<>>) = 0 /\ Forwards(<<Forward>>) = 1 /\ IsPrefix(<<>>, <<Forward>>)
<1>1. <<>> \in Groups /\ ~HasForward(<<>>) /\ Append(<<>>, Forward) = <<Forward>>
  BY DEF Groups, HasForward
<1> QED  BY <1>1, ForwardsOnce, PrefixOfAppend

(* What Mad makes of the settings forwards.                                *)
LEMMA DoneForwards ==
  ASSUME NEW k, SettingsDone(k)
  PROVE  Forwarding(Place(k))
<1> DEFINE ships == disk[Place(k)].ships.settings
           settings == disk[SettingsAt(Place(k))]
           shipped(e) == IF ships = NoSettings THEN <<>> ELSE ships.groups[e]
<1>1. settings = SettingsFile(Final(ships)) /\ ships \in Settings
  BY DEF SettingsDone, Clones, Tracked
<1>2. settings.kind = "settings" /\ settings.holds = Final(ships)
  BY <1>1 DEF SettingsFile
<1>3. ASSUME NEW e \in HookEvents
      PROVE  /\ IsPrefix(shipped(e), settings.holds.groups[e])
             /\ Forwards(settings.holds.groups[e]) =
                  (IF Forwards(shipped(e)) = 0 THEN 1 ELSE Forwards(shipped(e)))
  <2>1. CASE ships = NoSettings
    <3>1. settings.holds.groups[e] = <<Forward>> /\ shipped(e) = <<>>
      BY <1>2, <2>1 DEF Final, Bootstrap, Hooks
    <3> QED  BY <3>1, EmptyGroups
  <2>2. CASE ships # NoSettings
    <3>1. ships.groups[e] \in Groups
      BY <1>1, <2>2 DEF SettingsDone, Settings, Groups
    <3>2. /\ settings.holds.groups[e] = IF HasForward(ships.groups[e]) THEN ships.groups[e]
                                        ELSE Append(ships.groups[e], Forward)
          /\ shipped(e) = ships.groups[e]
      BY <1>2, <2>2 DEF Final, Merged, Hooks
    <3> QED  BY <3>1, <3>2, ForwardsOnce, PrefixOfAppend
  <2> QED  BY <2>1, <2>2
<1> QED  BY <1>2, <1>3 DEF Forwarding

(* Every clone of a session that is answered 200 forwards each of Mad's    *)
(* hook events once, or as often as the project itself does, and keeps the *)
(* hooks of the project, as long as nothing is mounted over the hooks.     *)
THEOREM HooksAreForwarded == Spec => []HooksForward
<1>1. Inv => HooksForward
  <2> SUFFICES ASSUME Inv, answer = 200, NEW k \in DOMAIN request.resources,
                      IsRepository(request.resources[k])
               PROVE  /\ Kept(k, ForwarderAt(Place(k))) =>
                           disk[ForwarderAt(Place(k))] = Forwarder("mad")
                      /\ Kept(k, SettingsAt(Place(k))) => Forwarding(Place(k))
    BY DEF HooksForward
  <2>1. HookedAt(k)
    BY Answered DEF Tree, Hooked
  <2> QED  BY <2>1, DoneForwards DEF HookedAt
<1> QED  BY <1>1, InvAlways, PTL

(* What is mounted over a place inside the clone of k, and not over the    *)
(* clone, is mounted inside it.                                            *)
LEMMA CoveredInside ==
  ASSUME NEW p \in Seq(Names), NEW q \in Seq(Names), NEW c \in Seq(Names), NEW r,
         IsStrictPrefix(c, q), Covering(r, p, q), IsRepository(r) => ~IsPrefix(p, c)
  PROVE  IsStrictPrefix(c, p)
<1>1. CASE IsRepository(r)
  BY <1>1, PrefixesCompare, PrefixReflexive DEF Covering, IsStrictPrefix
<1>2. CASE ~IsRepository(r)
  BY <1>2 DEF Covering
<1> QED  BY <1>1, <1>2

(* Before an agent has run, git sees a change in a clone only where the    *)
(* project tracks settings or a forward.sh of its own, or something was    *)
(* mounted inside since.                                                   *)
THEOREM ClonesStartClean == Spec => []CleanUnlessAsked
<1>1. Inv => CleanUnlessAsked
  <2> SUFFICES ASSUME Inv, answer = 200, NEW k \in DOMAIN request.resources,
                      IsRepository(request.resources[k]), InPlace(k), Dirty(Place(k)),
                      disk[Place(k)].ships.settings = NoSettings,
                      disk[Place(k)].ships.forwarder # "project"
               PROVE  \/ \E j \in Later(k) : IsStrictPrefix(Place(k), Place(j))
                      \/ \E o \in others : IsStrictPrefix(Place(k), o.place)
    BY DEF CleanUnlessAsked
  <2>1. PICK c \in Places : c = Place(k) /\ c \in Seq(Names) /\ HasHooks(c)
    BY Answered, PlaceIn
  <2>2. Unspoiled(k) /\ disk[c].kind = "clone" /\ disk[c].of = k /\ OwnClone(c)
    BY <2>1, Answered, InPlaceUnspoiled DEF InPlace, OwnClone
  <2>3. disk[c].excluded
    BY <2>2, Answered DEF Tree, Hidden
  <2>4. disk[c] \in Clones
    BY <2>2, Answered DEF Disks, Nodes, Files, SettingsFiles, Forwarders
  <2> DEFINE f == ForwarderAt(c)
             s == SettingsAt(c)
  <2>5. /\ IsStrictPrefix(c, f) /\ IsPrefix(HooksDir(c), f) /\ IsPrefix(s, s)
        /\ f \in Seq(Names) /\ f \in Places
    BY <2>1, HooksInside, PrefixReflexive DEF HasHooks
  <2>6. CASE disk[c].ships.forwarder = "mad" /\ disk[f] # Forwarder("mad")
    <3>1. ~Kept(k, f)
      BY <2>1, <2>6, Answered DEF Tree, Hooked, HookedAt
    <3>2. ASSUME NEW j \in Later(k), Covers(j, f)  PROVE IsStrictPrefix(c, Place(j))
      <4>1. ~Overwrites(j, k) /\ j \in 1 .. Len(request.resources)
        BY <2>2, Answered DEF Unspoiled, Later
      <4>2. Place(j) \in Seq(Names)
        BY <4>1, Answered, PlaceIn
      <4>3. IsRepository(request.resources[j]) => ~IsPrefix(Place(j), c)
        BY <2>1, <4>1 DEF Overwrites, Covers, Covering
      <4> QED  BY <2>1, <2>5, <3>2, <4>2, <4>3, CoveredInside DEF Covers
    <3>3. ASSUME NEW o \in others, Covering(o, o.place, f)  PROVE IsStrictPrefix(c, o.place)
      <4>1. ~Covering(o, o.place, c)
        BY <2>1, <2>2 DEF Unspoiled, Disturbed
      <4>2. o.place \in Seq(Names)
        BY PlacesAreSeqs DEF Inv
      <4> QED  BY <2>1, <2>5, <3>3, <4>1, <4>2, CoveredInside DEF Covering
    <3> QED  BY <2>1, <3>1, <3>2, <3>3 DEF Kept, Disturbed
  <2>7. CASE \E q \in Places : /\ IsStrictPrefix(c, q) /\ disk[q] \notin {Nothing, Directory}
                               /\ ~(IsPrefix(HooksDir(c), q) \/ IsPrefix(s, q))
    <3>1. PICK q \in Places :
            /\ IsStrictPrefix(c, q) /\ Content(q)
            /\ ~(IsPrefix(HooksDir(c), q) \/ IsPrefix(s, q))
      BY <2>7 DEF Content
    <3>2. Because(c, q) /\ q # f /\ q # s
      BY <2>2, <2>5, <3>1, Answered DEF Tree, Explained
    <3> QED  BY <2>1, <2>2, <3>2 DEF Because
  <2>8. \/ disk[c].ships.forwarder = "mad" /\ disk[f] # Forwarder("mad")
        \/ \E q \in Places : /\ IsStrictPrefix(c, q) /\ disk[q] \notin {Nothing, Directory}
                             /\ ~(IsPrefix(HooksDir(c), q) \/ IsPrefix(s, q))
    <3>1. disk[c].ships.forwarder \in {"none", "mad"} /\ disk[c].ships.settings = NoSettings
      BY <2>1, <2>4 DEF Clones, Tracked
    <3> QED  BY <2>1, <2>3, <3>1 DEF Dirty
  <2> QED  BY <2>6, <2>7, <2>8
<1> QED  BY <1>1, InvAlways, PTL

(* An agent whose working directory was not chosen by the client starts in *)
(* a directory that is there, in the only clone where there is one, unless *)
(* another session has mounted over it beside the workspace.               *)
THEOREM AgentHasItsDirectory == Spec => []AgentStartsSomewhere
<1>1. Inv => AgentStartsSomewhere
  <2> DEFINE clones == {k \in DOMAIN request.resources : IsRepository(request.resources[k])}
  <2> SUFFICES ASSUME Inv, answer = 200, request.working_directory = None, ~Disturbed(logged)
               PROVE  /\ IsDirectory(disk[logged])
                      /\ \A k \in clones : clones = {k} =>
                           disk[logged].kind = "clone" /\ disk[logged].of = k
    BY DEF AgentStartsSomewhere
  <2>1. logged = WorkingDirectory(request) /\ IsDirectory(disk[Workspace])
    <3>1. phase = "idle"
      BY DEF Inv
    <3> QED  BY <3>1, Answered DEF Tree, Started
  <2>2. ASSUME NEW k \in clones, clones = {k}
        PROVE  logged = Place(k) /\ disk[logged].kind = "clone" /\ disk[logged].of = k
    <3>1. (CHOOSE c \in clones : TRUE) = k
      BY <2>2
    <3>2. logged = Place(k)
      BY <2>1, <2>2, <3>1 DEF WorkingDirectory, Place
    <3>3. ASSUME NEW j \in Later(k)  PROVE ~Overwrites(j, k)
      <4>1. j \in DOMAIN request.resources /\ j # k
        BY <2>2, Answered DEF Later
      <4>2. ~IsRepository(request.resources[j])
        BY <2>2, <4>1
      <4> QED  BY <2>2, <4>2 DEF Overwrites
    <3>4. InPlace(k)
      BY <2>2, <3>2, <3>3, Answered DEF Unspoiled, Tree, Surviving
    <3> QED  BY <2>2, <3>2, <3>4, InPlaceUnspoiled DEF InPlace
  <2>3. (~\E k \in clones : clones = {k}) => logged = Workspace
    BY <2>1 DEF WorkingDirectory
  <2> QED  BY <2>1, <2>2, <2>3 DEF IsDirectory
<1> QED  BY <1>1, InvAlways, PTL
=============================================================================
