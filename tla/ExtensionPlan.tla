--------------------------- MODULE ExtensionPlan ----------------------------
(***************************************************************************)
(* What the manager decides from manifests and saved configuration, with   *)
(* no state of its own: the validations of src/vllm_hust_ext/cli.py, the    *)
(* plan conflicts of core.py, and what of the host providers decides        *)
(* whether `run` launches (providers/*.py).  A selection of installed       *)
(* bundles is a function from extensions to the version that discovery      *)
(* found.                                                                   *)
(***************************************************************************)
EXTENDS Integers, Sequences, FiniteSets

CONSTANTS
    Ext,          \* extension (Bundle) ids
    Versions,     \* bundle_version values
    Confs,        \* provider configurations an operator may store
    Default,      \* the empty one
    Resources,    \* scoped resources of resource_claims
    EntryPoints,  \* activation entry points and vLLM plugin names
    Manifest,     \* Manifest[e][v]: the static descriptor
    Check         \* Check[e][v][c]: what the provider's check and plan answer

Provider == {"vllm", "mooncake", "stateaxis", "production-stack"}

ManifestType ==
    [provider : Provider,
     in_process : BOOLEAN,                      \* runtime.isolation
     whole_tree : BOOLEAN,                      \* process_scope, stateaxis_processes
     active : BOOLEAN,                          \* some carrier is not descriptor-only
     native : BOOLEAN,                          \* host.api_range is given
     needs_service : BOOLEAN,                   \* a requires_services not optional
     requires : SUBSET Ext,                     \* requires_extensions
     range : [Ext -> SUBSET Versions],          \* their version_range
     claims : [Resources -> {"none", "shared", "exclusive"}],   \* at most one each
     plugins : SUBSET EntryPoints,
     entries : SUBSET EntryPoints]              \* carriers that may report work

CheckType ==
    [compatible : {"yes", "no", "unknown"}, configured : BOOLEAN,
     experiment : BOOLEAN]                      \* stateaxis plans experiment_mode

ASSUME ExtensionAssumption ==
    /\ Default \in Confs
    /\ "none" \notin Versions
    /\ Manifest \in [Ext -> [Versions -> ManifestType]]
    /\ Check \in [Ext -> [Versions -> [Confs -> CheckType]]]

Bundles == UNION {[S -> Versions] : S \in SUBSET Ext}

Of(b, e) == Manifest[e][b[e]]

-----------------------------------------------------------------------------
(* Composition: what is allowed together. *)

\* _validate_extension_dependencies, first half: selected, at a version in range.
DependenciesHold(b) ==
    \A e \in DOMAIN b : \A d \in Of(b, e).requires :
        d \in DOMAIN b /\ b[d] \in Of(b, e).range[d]

\* Its second half, the depth-first visit: no set of extensions in which each is
\* required by another of the set or by itself.
Acyclic(b) ==
    \A C \in SUBSET DOMAIN b :
        C # {} => \E e \in C : \A f \in C : e \notin Of(b, f).requires

\* _validate_process_ownership
OwnsProcess(b, e) ==
    Of(b, e).provider = "stateaxis" /\ Of(b, e).whole_tree /\ Of(b, e).in_process

OneOwner(b) ==
    \A e, f \in DOMAIN b : OwnsProcess(b, e) /\ OwnsProcess(b, f) => e = f

\* reject_conflicting_plans on resource_claims
ClaimsFit(b) ==
    \A e, f \in DOMAIN b, r \in Resources :
        e # f /\ Of(b, e).claims[r] = "exclusive" => Of(b, f).claims[r] = "none"

\* Faulty: what e requires is looked at, not what requires e.
NoDependentsSwapped(b, e) ==
    e \in DOMAIN b => Of(b, e).requires \cap (DOMAIN b \ {e}) = {}

\* _validate_dependency_removal: nothing else of the enabled bundles requires e.
NoDependents(b, e) == \A f \in DOMAIN b \ {e} : e \notin Of(b, f).requires

-----------------------------------------------------------------------------
(* Provider plans.  generated_config is a set of keys with a value each.  The *)
(* keys left out here (environments, options, connectors, StateAxis mods), and *)
(* options already on the command line, can only make `run` refuse more.       *)

PlanKeys(b, e) ==
    CASE Of(b, e).provider = "vllm" ->
            {"user_config"}
            \cup (IF Of(b, e).plugins # {} THEN {"vllm_plugins"} ELSE {})
            \cup (IF Of(b, e).native THEN {"native_extension_manifest"} ELSE {})
      [] Of(b, e).provider = "stateaxis" -> {"user_config"}
      [] OTHER -> {}

\* The values of a key of two plans are equal; a native manifest holds the bundle id.
SameValue(b, conf, k, e, f) ==
    /\ k = "user_config" => conf[e] = conf[f]
    /\ k = "vllm_plugins" => Of(b, e).plugins = Of(b, f).plugins
    /\ k = "native_extension_manifest" => e = f

\* reject_conflicting_plans on generated_config
PlansAgree(b, conf) ==
    \A e, f \in DOMAIN b :
        Of(b, e).provider = Of(b, f).provider =>
            \A k \in PlanKeys(b, e) \cap PlanKeys(b, f) : SameValue(b, conf, k, e, f)

\* _declared_vllm_plugins: a plugin name has one owner.
PluginsOwned(b) ==
    \A e, f \in DOMAIN b : e # f => Of(b, e).plugins \cap Of(b, f).plugins = {}

\* _merge_provider_plan: what `run` can put on a vLLM command line.
Mergeable(b, conf, e) ==
    /\ Of(b, e).provider # "production-stack"
    /\ Of(b, e).provider = "stateaxis" => Check[e][b[e]][conf[e]].experiment

\* The checks of _run_command on one bundle, given the extensions whose services
\* answered the probe.
Admissible(b, conf, healthy, e) ==
    LET check == Check[e][b[e]][conf[e]] IN
    /\ Of(b, e).active
    /\ check.compatible # "no"
    /\ Of(b, e).needs_service => e \in healthy
    /\ Of(b, e).provider \in {"vllm", "stateaxis"} /\ Of(b, e).in_process
       => check.compatible = "yes"
    /\ Of(b, e).provider = "stateaxis" => check.configured
    /\ Mergeable(b, conf, e)

Launchable(b, conf, healthy) ==
    /\ \A e \in DOMAIN b : Admissible(b, conf, healthy, e)
    /\ ClaimsFit(b) /\ PlansAgree(b, conf) /\ PluginsOwned(b)
=============================================================================
