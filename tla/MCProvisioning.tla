-------------------------- MODULE MCProvisioning ---------------------------
(***************************************************************************)
(* Model checking of Provisioning: the workspace, a repository's place in  *)
(* it, the places of its hooks, the same name beside the workspace by way  *)
(* of "..", where other sessions mount too, at that place and inside it,   *)
(* and paths that MountPath refuses; repositories that track nothing at    *)
(* the hooks' places, settings that forward one event with Mad's           *)
(* forward.sh, a forward.sh of their own, or something that is no settings.*)
(***************************************************************************)
EXTENDS Provisioning

MCMounts ==
  {<<"workspace">>, <<"workspace", "r">>, <<"workspace", "r", ".claude">>,
   <<"workspace", "r", ".claude", "hooks", "forward.sh">>,
   <<"workspace", "r", ".claude", "settings.local.json">>,
   <<"workspace", "..", "workspace", "r">>,
   <<"workspace", "..">>, <<"workspace", "..", "..", "workspace">>}
MCDirectories == {<<"workspace", "r">>}
MCElsewhere ==
  {<<"workspace", "..", "workspace", "r">>, <<"workspace", "..", "workspace", "r", "x">>}

(* The places that these paths reach, and those above them.                *)
MCPlaces ==
  LET ends == UNION {Way(m) \cup {ForwarderAt(Resolve(m)), SettingsAt(Resolve(m))} :
                       m \in {n \in MCMounts \cup MCElsewhere : ValidMount(n)}}
  IN (UNION {Prefixes(p) : p \in ends} \ {Base}) \cup {Workspace}

MCShips ==
  LET own == Hooks([e \in HookEvents |-> IF e = "Stop" THEN <<"project", Forward>> ELSE <<"project">>])
  IN {NothingTracked,
      [settings |-> [kind |-> "malformed"], forwarder |-> "none"],
      [settings |-> own, forwarder |-> "mad"],
      [settings |-> NoSettings, forwarder |-> "project"]}
=============================================================================
