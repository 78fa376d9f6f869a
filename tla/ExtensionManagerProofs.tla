----------------------- MODULE ExtensionManagerProofs -----------------------
(***************************************************************************)
(* Proofs about the extension manager: for every set of extensions, every   *)
(* manifest and any number of shells, package changes and hosts.            *)
(***************************************************************************)
EXTENDS ExtensionManager, TLAPS, SequenceTheorems

\* A selection is a function from some extensions to versions.
LEMMA BundlesAre ==
    /\ \A S \in SUBSET Ext : [S -> Versions] \subseteq Bundles
    /\ \A b \in Bundles : DOMAIN b \in SUBSET Ext /\ b \in [DOMAIN b -> Versions]
    /\ NoBundles \in Bundles /\ DOMAIN NoBundles = {}
<1>1. \A S \in SUBSET Ext : [S -> Versions] \subseteq Bundles
  BY DEF Bundles
<1>2. \A b \in Bundles : DOMAIN b \in SUBSET Ext /\ b \in [DOMAIN b -> Versions]
  BY DEF Bundles
<1>3. NoBundles \in [{} -> Versions]
  BY DEF NoBundles
<1> QED  BY <1>1, <1>2, <1>3

\* What discovery returns is a selection.
LEMMA DiscoveredBundles ==
    ASSUME TypeOK, NEW S \in SUBSET Ext, Discoverable(S)
    PROVE  Discovered(S) \in Bundles /\ DOMAIN Discovered(S) = S
<1>1. Discovered(S) \in [S -> Versions]
  BY DEF Discovered, Discoverable, TypeOK
<1> QED  BY <1>1, BundlesAre

\* No bundles at all fit together.
LEMMA EmptyIsSound ==
    ASSUME NEW b, DOMAIN b = {}
    PROVE  Sound(b) /\ PluginsOwned(b)
BY DEF Sound, DependenciesHold, Acyclic, OneOwner, ClaimsFit, PluginsOwned

\* Removing an extension that no other requires keeps the rest together.
LEMMA RemovalIsSound ==
    ASSUME NEW b \in Bundles, NEW c \in Bundles, NEW x, Sound(b), NoDependents(b, x),
           DOMAIN c = DOMAIN b \ {x}, \A e \in DOMAIN c : c[e] = b[e]
    PROVE  Sound(c)
<1>1. \A e \in DOMAIN c : Of(c, e) = Of(b, e)
  BY DEF Of
<1>2. DependenciesHold(c)
  BY <1>1 DEF Sound, DependenciesHold, NoDependents
<1>3. Acyclic(c)
  BY <1>1 DEF Sound, Acyclic
<1>4. OneOwner(c) /\ ClaimsFit(c)
  BY <1>1 DEF Sound, OneOwner, ClaimsFit, OwnsProcess
<1> QED  BY <1>2, <1>3, <1>4 DEF Sound

\* What `run` launches has one vLLM bundle with plugins and one with a native
\* manifest at most.
LEMMA OnePlugin ==
    ASSUME NEW b, NEW conf, PlansAgree(b, conf), PluginsOwned(b),
           NEW e \in DOMAIN b, NEW f \in DOMAIN b,
           Of(b, e).provider = "vllm", Of(b, f).provider = "vllm",
           \/ Of(b, e).plugins # {} /\ Of(b, f).plugins # {}
           \/ Of(b, e).native /\ Of(b, f).native
    PROVE  e = f
<1>1. CASE Of(b, e).plugins # {} /\ Of(b, f).plugins # {}
  <2>1. "vllm_plugins" \in PlanKeys(b, e) \cap PlanKeys(b, f)
    BY <1>1 DEF PlanKeys
  <2>2. Of(b, e).plugins = Of(b, f).plugins
    BY <2>1 DEF PlansAgree, SameValue
  <2> QED  BY <1>1, <2>2 DEF PluginsOwned
<1>2. CASE Of(b, e).native /\ Of(b, f).native
  <2>1. "native_extension_manifest" \in PlanKeys(b, e) \cap PlanKeys(b, f)
    BY <1>2 DEF PlanKeys
  <2> QED  BY <2>1 DEF PlansAgree, SameValue
<1> QED  BY <1>1, <1>2

-----------------------------------------------------------------------------
(* Types. *)

\* The variables start in their types, and the rest of the invariant holds.
LEMMA InitHolds == Init => IInv
<1> SUFFICES ASSUME Init PROVE IInv
  OBVIOUS
<1>1. PICK S \in Legacy :
        /\ file = [e \in Ext |-> IF e \in S THEN Listed ELSE Absent]
        /\ clean = (S = {})
  BY DEF Init
<1>2. file \in [Ext -> Entry] /\ Enabled(file) = S \cap Ext
  BY <1>1, ExtensionAssumption DEF Absent, Listed, Entry, Enabled
<1>a. clean \in BOOLEAN
  BY <1>1, Zenon
<1>3. Idle \in Cmd
  BY BundlesAre, ExtensionAssumption DEF Idle, Cmd, Absent, Entry
<1>b. process \in [Pids -> Process] /\ log \in Seq(Event) /\ tick \in Nat /\ boots \in Nat
  BY BundlesAre DEF Init, EvidenceInit, Process
<1>4. TypeOK
  BY <1>2, <1>3, <1>a, <1>b, ManagerAssumption DEF TypeOK, Init
<1>5. CommandsChecked
  BY DEF CommandsChecked, Validated, Init, Idle
<1>6. EventsAreOwned
  BY DEF EventsAreOwned, Init, EvidenceInit
<1>7. IntentIsSound
  <2> SUFFICES ASSUME clean PROVE Discoverable({}) /\ Sound(Discovered({}))
    BY <1>1, <1>2 DEF IntentIsSound
  <2> QED  BY EmptyIsSound DEF Discoverable, Discovered
<1>8. \A pid \in Pids : DOMAIN process[pid].bundles = {}
  BY BundlesAre DEF Init, EvidenceInit
<1>9. LaunchIsSound /\ OnePluginBundle
  BY <1>8, EmptyIsSound DEF LaunchIsSound, OnePluginBundle
<1> QED  BY <1>4, <1>5, <1>6, <1>7, <1>9 DEF IInv
-----------------------------------------------------------------------------
\* What is launched matters only by the bundles of each process.
LEMMA BundlesKept ==
    ASSUME LaunchIsSound, OnePluginBundle,
           \A pid \in Pids : process'[pid].bundles = process[pid].bundles
    PROVE  LaunchIsSound' /\ OnePluginBundle'
<1>1. LaunchIsSound'
  BY DEF LaunchIsSound
<1>2. OnePluginBundle'
  BY DEF OnePluginBundle
<1> QED  BY <1>1, <1>2

(* Steps of a command that leave the file, the packages and the hosts alone. *)

\* A command that has validated what its next stage asks may go there.
LEMMA CommandMoves ==
    ASSUME IInv, NEW s \in Shells, NEW c \in Cmd, Validated(c),
           cmd' = [cmd EXCEPT ![s] = c]
    PROVE  cmd' \in [Shells -> Cmd] /\ CommandsChecked'
<1>1. cmd \in [Shells -> Cmd]
  BY DEF IInv, TypeOK
<1>2. \A t \in Shells : cmd'[t] = IF t = s THEN c ELSE cmd[t]
  BY <1>1
<1>3. \A t \in Shells : Validated(cmd'[t])
  BY <1>2 DEF IInv, CommandsChecked
<1> QED  BY <1>1, <1>3 DEF CommandsChecked

\* Such a step keeps the invariant.
LEMMA QuietStep ==
    ASSUME IInv, UNCHANGED <<evidence, installed, file, clean>>, inputs' \in Nat,
           cmd' \in [Shells -> Cmd], CommandsChecked'
    PROVE  IInv'
<1>1. TypeOK'
  BY DEF IInv, TypeOK, evidence
<1>a. EventsAreOwned'
  BY DEF IInv, EventsAreOwned, evidence
<1>2. LaunchIsSound' /\ OnePluginBundle'
  <2>1. LaunchIsSound /\ OnePluginBundle /\ process' = process
    BY DEF IInv, evidence
  <2> QED  BY <2>1, BundlesKept
<1>3. IntentIsSound'
  BY DEF IInv, IntentIsSound, Discoverable, Discovered
<1> QED  BY <1>1, <1>a, <1>2, <1>3 DEF IInv

\* Goto moves one command.
LEMMA GotoMoves ==
    ASSUME IInv, NEW s \in Shells, NEW stage \in {"target", "save", "planned"},
           NEW found \in Bundles, Goto(s, stage, found),
           Validated([cmd[s] EXCEPT !.stage = stage, !.found = found])
    PROVE  cmd' \in [Shells -> Cmd] /\ CommandsChecked'
<1> DEFINE c == [cmd[s] EXCEPT !.stage = stage, !.found = found]
<1>1. cmd[s] \in Cmd
  BY DEF IInv, TypeOK
<1>2. c \in Cmd
  BY <1>1 DEF Cmd
<1>3. cmd' = [cmd EXCEPT ![s] = c]
  BY DEF Goto
<1> HIDE DEF c
<1> QED  BY <1>2, <1>3, CommandMoves DEF c

\* load_config keeps the invariant.
LEMMA BeginHolds ==
    ASSUME IInv, NEW s \in Shells, NEW op \in {"enable", "disable", "forget", "configure", "run"},
           NEW e \in Ext \cup {"none"}, NEW c \in Confs, Begin(s, op, e, c),
           op # "run" => e \in Ext
    PROVE  IInv'
<1> DEFINE new == [op |-> op, stage |-> "loaded", ext |-> e, conf |-> c,
                   snap |-> file, found |-> NoBundles]
<1>1. new \in Cmd
  BY BundlesAre DEF Cmd, IInv, TypeOK
<1>2. Validated(new)
  BY DEF Validated
<1>3. cmd' = [cmd EXCEPT ![s] = new]
  BY DEF Begin
<1>4. inputs' \in Nat /\ UNCHANGED <<evidence, installed, file, clean>>
  BY DEF Begin, Input, IInv, TypeOK
<1> HIDE DEF new
<1>5. cmd' \in [Shells -> Cmd] /\ CommandsChecked'
  BY <1>1, <1>2, <1>3, CommandMoves
<1> QED  BY <1>4, <1>5, QuietStep

\* The command of an idle shell.
LEMMA IdleIsValid == Idle \in Cmd /\ Validated(Idle)
BY BundlesAre, ExtensionAssumption DEF Idle, Cmd, Absent, Entry, Validated

\* So does a command that ends early.
LEMMA StopHolds ==
    ASSUME IInv, NEW s \in Shells, Stop(s)
    PROVE  IInv'
<1>1. cmd' \in [Shells -> Cmd] /\ CommandsChecked'
  BY IdleIsValid, CommandMoves DEF Stop
<1> QED  BY <1>1, QuietStep DEF Stop, IInv, TypeOK

\* The steps in which enable validates.
LEMMA EnableHolds ==
    ASSUME IInv, NEW s \in Shells, EnableTarget(s) \/ EnableValidate(s)
    PROVE  IInv'
<1>1. cmd[s] \in Cmd /\ Validated(cmd[s]) /\ inputs \in Nat /\ TypeOK
  BY DEF IInv, TypeOK, CommandsChecked
<1>2. CASE EnableTarget(s)
  <2>1. Goto(s, "target", NoBundles) /\ cmd[s].op = "enable"
    BY <1>2 DEF EnableTarget, At
  <2>2. Validated([cmd[s] EXCEPT !.stage = "target", !.found = NoBundles])
    BY <1>1, <2>1 DEF Validated, Cmd
  <2>3. cmd' \in [Shells -> Cmd] /\ CommandsChecked'
    BY <2>1, <2>2, BundlesAre, GotoMoves
  <2> QED  BY <1>1, <1>2, <2>3, QuietStep DEF EnableTarget, At
<1>3. CASE EnableValidate(s)
  <2> DEFINE found == Discovered(Prospective(s))
  <2>1. /\ cmd[s].op = "enable" /\ Discoverable(Prospective(s))
        /\ Sound(found) /\ Goto(s, "save", found)
    BY <1>3 DEF EnableValidate, At, Sound
  <2>2. cmd[s].ext \in Ext /\ Prospective(s) \in SUBSET Ext
    BY <1>1, <2>1 DEF Validated, Prospective, Enabled
  <2>3. found \in Bundles /\ DOMAIN found = Enabled(cmd[s].snap) \cup {cmd[s].ext}
    BY <1>1, <2>1, <2>2, DiscoveredBundles DEF Prospective
  <2> HIDE DEF found
  <2>4. Validated([cmd[s] EXCEPT !.stage = "save", !.found = found])
    BY <1>1, <2>1, <2>2, <2>3 DEF Validated, Cmd
  <2>5. cmd' \in [Shells -> Cmd] /\ CommandsChecked'
    BY <2>1, <2>3, <2>4, GotoMoves
  <2> QED  BY <1>1, <1>3, <2>5, QuietStep DEF EnableValidate, At
<1> QED  BY <1>2, <1>3

\* disable, forget and configure before they save.
LEMMA ChangeHolds ==
    ASSUME IInv, NEW s \in Shells, Remove(s) \/ Configure(s)
    PROVE  IInv'
<1>1. cmd[s] \in Cmd /\ Validated(cmd[s]) /\ inputs \in Nat /\ TypeOK
  BY DEF IInv, TypeOK, CommandsChecked
<1>2. CASE Remove(s)
  <2> DEFINE found == Discovered(Enabled(cmd[s].snap))
  <2>1. /\ cmd[s].op \in {"disable", "forget"} /\ Discoverable(Enabled(cmd[s].snap))
        /\ NoDependents(found, cmd[s].ext) /\ Goto(s, "save", found)
    BY <1>2 DEF Remove, At, Removable
  <2>2. Enabled(cmd[s].snap) \in SUBSET Ext
    BY DEF Enabled
  <2>3. found \in Bundles /\ DOMAIN found = Enabled(cmd[s].snap)
    BY <1>1, <2>1, <2>2, DiscoveredBundles
  <2> HIDE DEF found
  <2>4. Validated([cmd[s] EXCEPT !.stage = "save", !.found = found])
    BY <1>1, <2>1, <2>3 DEF Validated, Cmd
  <2>5. cmd' \in [Shells -> Cmd] /\ CommandsChecked'
    BY <2>1, <2>3, <2>4, GotoMoves
  <2> QED  BY <1>1, <1>2, <2>5, QuietStep DEF Remove, At
<1>3. CASE Configure(s)
  <2> DEFINE found == Discovered({cmd[s].ext})
  <2>1. /\ cmd[s].op = "configure" /\ Discoverable({cmd[s].ext})
        /\ Goto(s, "save", found)
    BY <1>3 DEF Configure, At
  <2>2. cmd[s].ext \in Ext
    BY <1>1, <2>1 DEF Validated
  <2>3. found \in Bundles
    BY <1>1, <2>1, <2>2, DiscoveredBundles
  <2> HIDE DEF found
  <2>4. Validated([cmd[s] EXCEPT !.stage = "save", !.found = found])
    BY <1>1, <2>1, <2>2 DEF Validated, Cmd
  <2>5. cmd' \in [Shells -> Cmd] /\ CommandsChecked'
    BY <2>1, <2>3, <2>4, GotoMoves
  <2> QED  BY <1>1, <1>3, <2>5, QuietStep DEF Configure, At
<1> QED  BY <1>2, <1>3

\* run before it launches.
LEMMA RunDiscoverHolds ==
    ASSUME IInv, NEW s \in Shells, RunDiscover(s)
    PROVE  IInv'
<1>1. cmd[s] \in Cmd /\ Validated(cmd[s]) /\ inputs \in Nat /\ TypeOK
  BY DEF IInv, TypeOK, CommandsChecked
<1> DEFINE found == Discovered(Enabled(cmd[s].snap))
<1>2. /\ cmd[s].op = "run" /\ Discoverable(Enabled(cmd[s].snap))
      /\ DependenciesHold(found) /\ Acyclic(found) /\ OneOwner(found)
      /\ Goto(s, "planned", found)
  BY DEF RunDiscover, At
<1>3. found \in Bundles
  BY <1>1, <1>2, DiscoveredBundles DEF Enabled
<1> HIDE DEF found
<1>4. Validated([cmd[s] EXCEPT !.stage = "planned", !.found = found])
  BY <1>1, <1>2 DEF Validated, Cmd
<1>5. cmd' \in [Shells -> Cmd] /\ CommandsChecked'
  BY <1>2, <1>3, <1>4, GotoMoves
<1> QED  BY <1>1, <1>5, QuietStep DEF RunDiscover, At

-----------------------------------------------------------------------------
(* Steps that change the file or the packages. *)

\* What save_config writes, by command.
LEMMA UpdatedIs ==
    ASSUME NEW s \in Shells, cmd[s] \in Cmd, cmd[s].ext \in Ext,
           cmd[s].op \in {"enable", "disable", "forget", "configure"}
    PROVE  /\ Updated(s) \in [Ext -> Entry]
           /\ cmd[s].op = "enable" =>
                Enabled(Updated(s)) = Enabled(cmd[s].snap) \cup {cmd[s].ext}
           /\ cmd[s].op \in {"disable", "forget"} =>
                Enabled(Updated(s)) = Enabled(cmd[s].snap) \ {cmd[s].ext}
           /\ cmd[s].op = "configure" => Enabled(Updated(s)) = Enabled(cmd[s].snap)
<1> DEFINE x == cmd[s].ext
           snap == cmd[s].snap
<1>1. /\ snap \in [Ext -> Entry] /\ snap[x] \in Entry /\ cmd[s].conf \in Confs
      /\ Absent \in Entry
  BY ExtensionAssumption DEF Cmd, Entry, Absent
<1>2. PICK y \in Entry :
        /\ Updated(s) = [snap EXCEPT ![x] = y]
        /\ cmd[s].op = "enable" => y.enabled
        /\ cmd[s].op \in {"disable", "forget"} => ~y.enabled
        /\ cmd[s].op = "configure" => y.enabled = snap[x].enabled
  <2>1. CASE cmd[s].op = "enable"
    <3> DEFINE y == [snap[x] EXCEPT !.stored = TRUE, !.enabled = TRUE]
    <3>1. y \in Entry /\ y.enabled
      BY <1>1 DEF Entry
    <3>2. Updated(s) = [snap EXCEPT ![x] = y]
      BY <2>1 DEF Updated
    <3> HIDE DEF y
    <3> QED  BY <2>1, <3>1, <3>2
  <2>2. CASE cmd[s].op = "disable"
    <3> DEFINE y == [snap[x] EXCEPT !.stored = TRUE, !.enabled = FALSE]
    <3>1. y \in Entry /\ ~y.enabled
      BY <1>1 DEF Entry
    <3>2. Updated(s) = [snap EXCEPT ![x] = y]
      BY <2>2 DEF Updated
    <3> HIDE DEF y
    <3> QED  BY <2>2, <3>1, <3>2
  <2>3. CASE cmd[s].op = "forget"
    BY <1>1, <2>3 DEF Updated, Absent
  <2>4. CASE cmd[s].op = "configure"
    <3> DEFINE y == [snap[x] EXCEPT !.stored = TRUE, !.configuration = cmd[s].conf]
    <3>1. y \in Entry /\ y.enabled = snap[x].enabled
      BY <1>1 DEF Entry
    <3>2. Updated(s) = [snap EXCEPT ![x] = y]
      BY <2>4 DEF Updated
    <3> HIDE DEF y
    <3> QED  BY <2>4, <3>1, <3>2
  <2> QED  BY <2>1, <2>2, <2>3, <2>4
<1> HIDE DEF x, snap
<1>3. x \in Ext
  BY DEF x
<1>4. \A e \in Ext : Updated(s)[e] = IF e = x THEN y ELSE snap[e]
  BY <1>1, <1>2
<1>5. Updated(s) \in [Ext -> Entry]
  BY <1>1, <1>2, <1>3
<1>6. Enabled(Updated(s)) \ {x} = Enabled(snap) \ {x}
  BY <1>4 DEF Enabled
<1>7. /\ x \in Enabled(Updated(s)) <=> y.enabled
      /\ x \in Enabled(snap) <=> snap[x].enabled
  BY <1>3, <1>4 DEF Enabled
<1> QED  BY <1>2, <1>5, <1>6, <1>7 DEF x, snap

\* save_config keeps the invariant.
LEMMA SaveHolds ==
    ASSUME IInv, NEW s \in Shells, Save(s)
    PROVE  IInv'
<1>1. /\ cmd[s] \in Cmd /\ Validated(cmd[s]) /\ cmd[s].stage = "save"
      /\ TypeOK /\ IntentIsSound /\ installed' = installed /\ file' = Updated(s)
      /\ UNCHANGED <<evidence, inputs>>
  BY DEF IInv, TypeOK, CommandsChecked, Save
<1>2. cmd[s].op \in {"enable", "disable", "forget", "configure"} /\ cmd[s].ext \in Ext
  BY <1>1 DEF Validated
<1>3. cmd' \in [Shells -> Cmd] /\ CommandsChecked'
  BY IdleIsValid, CommandMoves DEF Save
<1>4. file' \in [Ext -> Entry]
  BY <1>1, <1>2, UpdatedIs
<1>5. clean' \in BOOLEAN
  BY Zenon DEF Save
<1>6. TypeOK'
  BY <1>1, <1>3, <1>4, <1>5 DEF TypeOK, evidence
<1>7. EventsAreOwned'
  BY DEF IInv, EventsAreOwned, evidence, Save
<1>8. LaunchIsSound' /\ OnePluginBundle'
  <2>1. LaunchIsSound /\ OnePluginBundle /\ process' = process
    BY DEF IInv, evidence, Save
  <2> QED  BY <2>1, BundlesKept
<1>9. ASSUME clean'
      PROVE  Discoverable(Enabled(file')) /\ Sound(Discovered(Enabled(file')))
  <2> DEFINE x == cmd[s].ext
             found == cmd[s].found
  <2>1. Fresh(s) /\ (clean \/ cmd[s].op = "enable")
    BY <1>9, Zenon DEF Save
  <2>2. Enabled(cmd[s].snap) = Enabled(file)
    BY <2>1 DEF Fresh
  <2>3. CASE cmd[s].op = "enable"
    <3>1. Sound(found) /\ DOMAIN found = Enabled(cmd[s].snap) \cup {x}
      BY <1>1, <2>3 DEF Validated
    <3>2. Enabled(file') = DOMAIN found
      BY <1>1, <1>2, <2>3, <3>1, UpdatedIs
    <3>3. found \in Bundles
      BY <1>1 DEF Cmd
    <3>4. found \in [DOMAIN found -> Versions]
      BY <3>3, BundlesAre
    <3>5. \A e \in DOMAIN found : installed[e] = found[e]
      BY <2>1 DEF Fresh
    <3> HIDE DEF found
    <3>6. Discoverable(DOMAIN found)
      BY <3>4, <3>5, ExtensionAssumption DEF Discoverable
    <3>7. Discovered(DOMAIN found) = found
      BY <3>4, <3>5 DEF Discovered
    <3> QED  BY <3>1, <3>2, <3>6, <3>7
  <2>4. CASE cmd[s].op # "enable"
    <3> DEFINE b == Discovered(Enabled(file))
    <3>1. clean
      BY <2>1, <2>4
    <3>2. Discoverable(Enabled(file)) /\ Sound(b)
      BY <1>1, <3>1 DEF IntentIsSound
    <3>3. CASE cmd[s].op = "configure"
      <4>1. Enabled(file') = Enabled(file)
        BY <1>1, <1>2, <2>2, <3>3, UpdatedIs
      <4> QED  BY <3>2, <4>1
    <3>4. CASE cmd[s].op \in {"disable", "forget"}
      <4> DEFINE c == Discovered(Enabled(file) \ {x})
      <4>1. NoDependents(found, x) /\ DOMAIN found = Enabled(file)
        BY <1>1, <2>2, <3>4 DEF Validated
      <4>2. Enabled(file') = Enabled(file) \ {x}
        BY <1>1, <1>2, <2>2, <3>4, UpdatedIs
      <4>3. \A e \in DOMAIN found : found[e] = installed[e]
        BY <2>1 DEF Fresh
      <4>4. b \in Bundles /\ DOMAIN b = Enabled(file)
        BY <1>1, <3>2, DiscoveredBundles DEF Enabled
      <4>5. Discoverable(Enabled(file) \ {x})
        BY <3>2 DEF Discoverable
      <4>6. c \in Bundles /\ DOMAIN c = Enabled(file) \ {x}
        BY <1>1, <4>5, DiscoveredBundles DEF Enabled
      <4>7. \A e \in DOMAIN c : c[e] = b[e]
        BY DEF Discovered
      <4>8. NoDependents(b, x)
        BY <4>1, <4>3, <4>4 DEF NoDependents, Of, Discovered
      <4> HIDE DEF b, c, x
      <4>9. Sound(c)
        BY <3>2, <4>4, <4>6, <4>7, <4>8, RemovalIsSound
      <4> QED  BY <4>2, <4>5, <4>9 DEF c
    <3> QED  BY <1>2, <2>4, <3>3, <3>4
  <2> QED  BY <2>3, <2>4
<1>10. IntentIsSound'
  BY <1>1, <1>9 DEF IntentIsSound, Discoverable, Discovered
<1> QED  BY <1>3, <1>6, <1>7, <1>8, <1>10 DEF IInv

\* A package change keeps it: what is saved may no longer fit, and is not relied on.
LEMMA PackageHolds ==
    ASSUME IInv, NEW e \in Ext, PackageChange(e)
    PROVE  IInv'
<1>a. PICK v \in Versions \cup {"none"} : installed' = [installed EXCEPT ![e] = v]
  BY DEF PackageChange
<1>1. TypeOK'
  <2>1. installed' \in [Ext -> Versions \cup {"none"}]
    BY <1>a DEF IInv, TypeOK
  <2>2. inputs' \in Nat
    BY DEF IInv, TypeOK, PackageChange, Input
  <2>3. clean' = FALSE
    BY DEF PackageChange
  <2> QED  BY <2>1, <2>2, <2>3 DEF IInv, TypeOK, evidence, PackageChange
<1>2. CommandsChecked' /\ IntentIsSound'
  BY DEF IInv, CommandsChecked, IntentIsSound, PackageChange
<1>3. EventsAreOwned'
  BY DEF IInv, EventsAreOwned, evidence, PackageChange
<1>4. LaunchIsSound' /\ OnePluginBundle'
  <2>1. LaunchIsSound /\ OnePluginBundle /\ process' = process
    BY DEF IInv, evidence, PackageChange
  <2> QED  BY <2>1, BundlesKept
<1> QED  BY <1>1, <1>2, <1>3, <1>4 DEF IInv

-----------------------------------------------------------------------------
(* Steps of the hosts. *)

\* What a step of the hosts has to keep.
HostInv ==
    /\ process \in [Pids -> Process] /\ log \in Seq(Event)
    /\ tick \in Nat /\ boots \in Nat
    /\ EventsAreOwned /\ LaunchIsSound /\ OnePluginBundle

\* The hosts depend on nothing else of the state.
LEMMA HostPart ==
    ASSUME IInv, HostInv', UNCHANGED <<installed, file, clean>>, inputs' \in Nat,
           cmd' \in [Shells -> Cmd], CommandsChecked'
    PROVE  IInv'
<1>1. TypeOK'
  BY DEF IInv, TypeOK, HostInv
<1>2. IntentIsSound'
  BY DEF IInv, IntentIsSound, Discoverable, Discovered
<1> QED  BY <1>1, <1>2 DEF IInv, HostInv

\* A new process has a start time that no event of this boot has.
LEMMA SpawnIsNew ==
    ASSUME HostInv, NEW pid \in Pids, NEW b \in Bundles, Spawn(pid, b)
    PROVE  /\ process' \in [Pids -> Process]
           /\ \A p \in Pids : process'[p].bundles = IF p = pid THEN b ELSE process[p].bundles
           /\ EventsAreOwned'
<1> DEFINE new == [alive |-> TRUE, start |-> tick, bundles |-> b, worked |-> {}]
<1>1. /\ process' = [process EXCEPT ![pid] = new] /\ tick' = tick + 1
      /\ log' = log /\ boots' = boots
  BY DEF Spawn
<1>2. process \in [Pids -> Process] /\ tick \in Nat /\ log \in Seq(Event) /\ EventsAreOwned
  BY DEF HostInv
<1>3. new \in Process /\ new.start = tick /\ new.bundles = b
  BY <1>2 DEF Process
<1> HIDE DEF new
<1>4. \A p \in Pids : process'[p] = IF p = pid THEN new ELSE process[p]
  BY <1>1, <1>2
<1>5. process' \in [Pids -> Process]
  <2> HIDE DEF Process
  <2> QED  BY <1>1, <1>2, <1>3
<1>6. \A i \in DOMAIN log : log[i].pid \in Pids /\ log[i].start \in Nat
  <2>1. \A i \in DOMAIN log : log[i] \in Event
    BY <1>2
  <2> QED  BY <2>1 DEF Event
<1>7. \A p \in Pids : process'[p].alive => process'[p].start < tick'
  <2> SUFFICES ASSUME NEW p \in Pids, process'[p].alive
               PROVE  process'[p].start < tick'
    OBVIOUS
  <2>1. CASE p = pid
    BY <1>1, <1>2, <1>3, <1>4, <2>1
  <2>2. CASE p # pid
    <3>1. process'[p] = process[p] /\ process[p].start \in Nat
      BY <1>2, <1>4, <2>2 DEF Process
    <3>2. process[p].start < tick
      BY <1>2, <3>1 DEF EventsAreOwned
    <3> QED  BY <1>1, <1>2, <3>1, <3>2
  <2> QED  BY <2>1, <2>2
<1>8. ASSUME NEW i \in DOMAIN log, log[i].boot = boots
      PROVE  /\ log[i].start < tick'
             /\ /\ log[i].kind = "runtime_effective"
                /\ process'[log[i].pid].start = log[i].start
                => log[i].entry \in process'[log[i].pid].worked
  <2>1. /\ log[i].start < tick
        /\ /\ log[i].kind = "runtime_effective"
           /\ process[log[i].pid].start = log[i].start
           => log[i].entry \in process[log[i].pid].worked
    BY <1>2, <1>8 DEF EventsAreOwned
  <2>2. log[i].start < tick' /\ log[i].start # tick
    BY <1>1, <1>2, <1>6, <2>1
  <2>3. CASE log[i].pid = pid
    <3>1. process'[log[i].pid].start = tick
      BY <1>3, <1>4, <2>3
    <3> QED  BY <2>2, <3>1
  <2>4. CASE log[i].pid # pid
    <3>1. process'[log[i].pid] = process[log[i].pid]
      BY <1>4, <1>6, <2>4
    <3> QED  BY <2>1, <2>2, <3>1
  <2> QED  BY <2>3, <2>4
<1>9. \A i \in DOMAIN log : log[i].boot <= boots
  BY <1>2 DEF EventsAreOwned
<1>10. EventsAreOwned'
  BY <1>1, <1>7, <1>8, <1>9 DEF EventsAreOwned
<1> QED  BY <1>3, <1>4, <1>5, <1>10

\* A process may be started with bundles that fit together.
LEMMA SpawnHolds ==
    ASSUME HostInv, NEW pid \in Pids, NEW b \in Bundles, Spawn(pid, b),
           Sound(b), PluginsOwned(b), \A e \in DOMAIN b : Of(b, e).active,
           \A e, f \in DOMAIN b :
              /\ Of(b, e).provider = "vllm" /\ Of(b, f).provider = "vllm"
              /\ \/ Of(b, e).plugins # {} /\ Of(b, f).plugins # {}
                 \/ Of(b, e).native /\ Of(b, f).native
              => e = f
    PROVE  HostInv'
<1>1. /\ process' \in [Pids -> Process] /\ EventsAreOwned'
      /\ \A p \in Pids : process'[p].bundles = IF p = pid THEN b ELSE process[p].bundles
  BY SpawnIsNew
<1>2. LaunchIsSound'
  <2>1. LaunchIsSound
    BY DEF HostInv
  <2> QED  BY <1>1, <2>1 DEF LaunchIsSound
<1>3. OnePluginBundle'
  <2>1. OnePluginBundle
    BY DEF HostInv
  <2> QED  BY <1>1, <2>1 DEF OnePluginBundle
<1>4. tick' \in Nat /\ boots' \in Nat /\ log' \in Seq(Event)
  BY DEF HostInv, Spawn
<1> QED  BY <1>1, <1>2, <1>3, <1>4 DEF HostInv

\* A launch keeps the invariant: everything that was checked one by one is what
\* LaunchIsSound asks.
LEMMA LaunchHolds ==
    ASSUME IInv, NEW s \in Shells, Launch(s)
    PROVE  IInv'
<1> DEFINE b == cmd[s].found
           conf == Configuration(cmd[s].snap)
<1>1. cmd[s] \in Cmd /\ Validated(cmd[s]) /\ cmd[s].stage = "planned" /\ inputs \in Nat
  BY DEF IInv, TypeOK, CommandsChecked, Launch
<1>2. b \in Bundles /\ DependenciesHold(b) /\ Acyclic(b) /\ OneOwner(b)
  BY <1>1 DEF Cmd, Validated
<1>3. PICK healthy \in SUBSET DOMAIN b : Launchable(b, conf, healthy)
  BY DEF Launch
<1>4. PICK pid \in Pids : Spawn(pid, b)
  BY DEF Launch
<1> HIDE DEF b, conf
<1>5. Sound(b) /\ PluginsOwned(b) /\ PlansAgree(b, conf)
  BY <1>2, <1>3 DEF Sound, Launchable
<1>6. \A e \in DOMAIN b : Of(b, e).active
  BY <1>3 DEF Launchable, Admissible
<1>7. \A e, f \in DOMAIN b :
        /\ Of(b, e).provider = "vllm" /\ Of(b, f).provider = "vllm"
        /\ \/ Of(b, e).plugins # {} /\ Of(b, f).plugins # {}
           \/ Of(b, e).native /\ Of(b, f).native
        => e = f
  BY <1>5, OnePlugin
<1>8. HostInv
  BY DEF HostInv, IInv, TypeOK
<1>9. HostInv'
  BY <1>2, <1>4, <1>5, <1>6, <1>7, <1>8, SpawnHolds
<1>10. cmd' \in [Shells -> Cmd] /\ CommandsChecked'
  BY IdleIsValid, CommandMoves DEF Launch
<1> QED  BY <1>1, <1>9, <1>10, HostPart DEF Launch

\* The end of a process changes only whether it is alive.
LEMMA EndHolds ==
    ASSUME HostInv, NEW D \in SUBSET Pids,
           process' = [p \in Pids |-> IF p \in D THEN [process[p] EXCEPT !.alive = FALSE]
                                                 ELSE process[p]],
           log' = log,
           \/ tick' = tick /\ boots' = boots
           \/ tick' = 0 /\ boots' = boots + 1 /\ D = Pids
    PROVE  HostInv'
<1>1. process \in [Pids -> Process] /\ tick \in Nat /\ boots \in Nat /\ log \in Seq(Event)
  BY DEF HostInv
<1>2. \A p \in Pids : /\ process'[p] \in Process
                      /\ process'[p].bundles = process[p].bundles
                      /\ process'[p].start = process[p].start
                      /\ process'[p].worked = process[p].worked
                      /\ process'[p].alive => process[p].alive /\ p \notin D
  BY <1>1 DEF Process
<1>3. process' \in [Pids -> Process] /\ tick' \in Nat /\ boots' \in Nat
  BY <1>1, <1>2
<1>4. \A i \in DOMAIN log : log[i] \in Event
  BY <1>1
<1>5. EventsAreOwned'
  <2>1. CASE tick' = tick /\ boots' = boots
    BY <1>2, <1>4, <2>1 DEF HostInv, EventsAreOwned, Event
  <2>2. CASE tick' = 0 /\ boots' = boots + 1 /\ D = Pids
    <3>1. \A i \in DOMAIN log : log[i].boot <= boots /\ log[i].boot \in Nat
      BY <1>4 DEF HostInv, EventsAreOwned, Event
    <3>2. \A i \in DOMAIN log : log[i].boot <= boots' /\ log[i].boot # boots'
      BY <1>1, <2>2, <3>1
    <3>3. \A p \in Pids : ~process'[p].alive
      BY <1>2, <2>2
    <3> QED  BY <3>2, <3>3 DEF EventsAreOwned
  <2> QED  BY <2>1, <2>2
<1>6. LaunchIsSound' /\ OnePluginBundle'
  <2>1. LaunchIsSound /\ OnePluginBundle
    BY DEF HostInv
  <2>2. \A p \in Pids : process'[p].bundles = process[p].bundles
    BY <1>2
  <2> QED  BY <2>1, <2>2, BundlesKept
<1> QED  BY <1>1, <1>3, <1>5, <1>6 DEF HostInv

\* An event is recorded by the process it names, which is alive.
LEMMA RecordHolds ==
    ASSUME HostInv, NEW pid \in Pids, NEW e \in Ext, NEW entry \in EntryPoints,
           NEW written \in Written, NEW kind \in {"loaded", "runtime_effective"},
           RecordEvent(pid, e, entry, kind, written)
    PROVE  HostInv'
<1> DEFINE event == [kind |-> kind, entry |-> entry, pid |-> pid,
                     start |-> process[pid].start, boot |-> boots, written |-> written]
           worked == IF kind = "runtime_effective"
                     THEN process[pid].worked \cup {entry} ELSE process[pid].worked
<1>1. process \in [Pids -> Process] /\ tick \in Nat /\ boots \in Nat /\ log \in Seq(Event)
  BY DEF HostInv
<1>2. /\ log' = Append(log, event) /\ tick' = tick /\ boots' = boots
      /\ process' = [process EXCEPT ![pid].worked = worked]
      /\ process[pid].alive
  BY DEF RecordEvent
<1>3. process[pid].start \in Nat
  BY <1>1 DEF Process
<1>5. event \in Event
  BY <1>1, <1>3 DEF Event
<1>b. process[pid].worked \in SUBSET EntryPoints
  BY <1>1 DEF Process
<1>6. worked \in SUBSET EntryPoints /\ process[pid].worked \subseteq worked
  BY <1>b
<1>7. kind = "runtime_effective" => entry \in worked
  OBVIOUS
<1>a. /\ event.kind = kind /\ event.entry = entry /\ event.pid = pid
      /\ event.start = process[pid].start /\ event.boot = boots
  OBVIOUS
<1> HIDE DEF event, worked
<1>8. \A p \in Pids : /\ process'[p] \in Process
                      /\ process'[p].bundles = process[p].bundles
                      /\ process'[p].start = process[p].start
                      /\ process'[p].alive = process[p].alive
                      /\ process'[p].worked = IF p = pid THEN worked ELSE process[p].worked
  BY <1>1, <1>2, <1>6 DEF Process
<1>c. DOMAIN process' = Pids /\ process' = [p \in Pids |-> process'[p]]
  BY <1>1, <1>2
<1>d. process' \in [Pids -> Process]
  BY <1>8, <1>c
<1>9. log' \in Seq(Event)
  BY <1>1, <1>2, <1>5
<1>10. /\ DOMAIN log' = DOMAIN log \cup {Len(log) + 1} /\ log'[Len(log) + 1] = event
       /\ \A i \in DOMAIN log : log'[i] = log[i] /\ log[i] \in Event
  BY <1>1, <1>2, <1>5
<1>11. EventsAreOwned'
  <2>1. process[pid].start < tick
    BY <1>2 DEF HostInv, EventsAreOwned
  <2>2. \A p \in Pids : process[p].worked \subseteq process'[p].worked
    BY <1>6, <1>8
  <2>3. /\ log'[Len(log) + 1].boot <= boots /\ log'[Len(log) + 1].start < tick
        /\ log'[Len(log) + 1].kind = "runtime_effective" =>
             log'[Len(log) + 1].entry \in process'[log'[Len(log) + 1].pid].worked
    BY <1>1, <1>7, <1>a, <1>8, <1>10, <2>1
  <2>4. ASSUME NEW i \in DOMAIN log
        PROVE  /\ log'[i].boot <= boots
               /\ log'[i].boot = boots =>
                     /\ log'[i].start < tick
                     /\ /\ log'[i].kind = "runtime_effective"
                        /\ process'[log'[i].pid].start = log'[i].start
                        => log'[i].entry \in process'[log'[i].pid].worked
    <3>1. log'[i] = log[i] /\ log[i].pid \in Pids
      BY <1>10 DEF Event
    <3>2. /\ log[i].boot <= boots
          /\ log[i].boot = boots =>
                /\ log[i].start < tick
                /\ /\ log[i].kind = "runtime_effective"
                   /\ process[log[i].pid].start = log[i].start
                   => log[i].entry \in process[log[i].pid].worked
      BY DEF HostInv, EventsAreOwned
    <3>3. /\ process'[log[i].pid].start = process[log[i].pid].start
          /\ process[log[i].pid].worked \subseteq process'[log[i].pid].worked
      BY <1>8, <2>2, <3>1
    <3> QED  BY <3>1, <3>2, <3>3
  <2>5. \A p \in Pids : process'[p].alive => process'[p].start < tick
    BY <1>8 DEF HostInv, EventsAreOwned
  <2> QED  BY <1>2, <1>10, <2>3, <2>4, <2>5 DEF EventsAreOwned
<1>12. LaunchIsSound' /\ OnePluginBundle'
  <2>1. LaunchIsSound /\ OnePluginBundle
    BY DEF HostInv
  <2>2. \A p \in Pids : process'[p].bundles = process[p].bundles
    BY <1>8
  <2> QED  BY <2>1, <2>2, BundlesKept
<1> QED  BY <1>1, <1>2, <1>d, <1>9, <1>11, <1>12 DEF HostInv

\* Every step of the hosts keeps the invariant.
LEMMA HostStepHolds ==
    ASSUME IInv, HostStep
    PROVE  IInv'
<1>1. HostInv /\ cmd \in [Shells -> Cmd] /\ CommandsChecked /\ inputs' \in Nat
  BY DEF IInv, TypeOK, HostInv, HostStep, Input
<1>2. CommandsChecked'
  BY <1>1 DEF HostStep, CommandsChecked
<1>3. process \in [Pids -> Process]
  BY <1>1 DEF HostInv
<1>4. HostInv'
  <2>1. CASE Reboot
    <3>1. process' = [p \in Pids |-> IF p \in Pids THEN [process[p] EXCEPT !.alive = FALSE]
                                                   ELSE process[p]]
      BY <2>1 DEF Reboot
    <3> QED  BY <1>1, <2>1, <3>1, EndHolds DEF Reboot
  <2>2. ASSUME NEW pid \in Pids, Exit(pid) PROVE HostInv'
    <3>1. process' = [p \in Pids |-> IF p \in {pid} THEN [process[p] EXCEPT !.alive = FALSE]
                                                    ELSE process[p]]
      BY <1>3, <2>2 DEF Exit
    <3> QED  BY <1>1, <2>2, <3>1, EndHolds DEF Exit
  <2>3. ASSUME NEW pid \in Pids, Spawn(pid, NoBundles) PROVE HostInv'
    BY <1>1, <2>3, BundlesAre, EmptyIsSound, SpawnHolds
  <2>4. ASSUME NEW pid \in Pids, NEW e \in Ext, NEW entry \in EntryPoints,
               NEW w \in Written, NEW kind \in {"loaded", "runtime_effective"},
               RecordEvent(pid, e, entry, kind, w)
        PROVE  HostInv'
    BY <1>1, <2>4, RecordHolds
  <2> QED  BY <2>1, <2>2, <2>3, <2>4 DEF HostStep
<1> QED  BY <1>1, <1>2, <1>4, HostPart DEF HostStep

-----------------------------------------------------------------------------
(* Theorems. *)

\* Every step keeps the invariant.
LEMMA NextHolds == IInv /\ [Next]_vars => IInv'
<1> SUFFICES ASSUME IInv, [Next]_vars PROVE IInv'
  OBVIOUS
<1>1. ASSUME NEW s \in Shells, Command(s) PROVE IInv'
  <2>1. ASSUME NEW op \in {"enable", "disable", "forget"}, NEW e \in Ext,
               Begin(s, op, e, Default)
        PROVE  IInv'
    BY <2>1, BeginHolds, ExtensionAssumption
  <2>2. ASSUME NEW e \in Ext, NEW c \in Confs, Begin(s, "configure", e, c) PROVE IInv'
    BY <2>2, BeginHolds
  <2>3. CASE Begin(s, "run", "none", Default)
    BY <2>3, BeginHolds, ExtensionAssumption
  <2>4. CASE Stop(s)
    BY <2>4, StopHolds
  <2>5. CASE EnableTarget(s) \/ EnableValidate(s)
    BY <2>5, EnableHolds
  <2>6. CASE Remove(s) \/ Configure(s)
    BY <2>6, ChangeHolds
  <2>7. CASE Save(s)
    BY <2>7, SaveHolds
  <2>8. CASE RunDiscover(s)
    BY <2>8, RunDiscoverHolds
  <2>9. CASE Launch(s)
    BY <2>9, LaunchHolds
  <2> QED  BY <1>1, <2>1, <2>2, <2>3, <2>4, <2>5, <2>6, <2>7, <2>8, <2>9 DEF Command
<1>2. ASSUME NEW e \in Ext, PackageChange(e) PROVE IInv'
  BY <1>2, PackageHolds
<1>3. CASE HostStep
  BY <1>3, HostStepHolds
<1>4. CASE UNCHANGED vars
  <2>1. /\ UNCHANGED <<evidence, installed, file, clean>> /\ cmd' = cmd
        /\ inputs' = inputs
    BY <1>4 DEF vars
  <2>2. CommandsChecked'
    BY <2>1 DEF IInv, CommandsChecked
  <2> QED  BY <2>1, <2>2, QuietStep DEF IInv, TypeOK
<1> QED  BY <1>1, <1>2, <1>3, <1>4 DEF Next

\* The variables keep their types, commands have validated what their stage says,
\* and the invariant the other theorems rest on holds.
THEOREM ManagerInvariant == Spec => []IInv
BY InitHolds, NextHolds, PTL DEF Spec

\* save_config never stores an enabled set that does not fit together, as long as no
\* update was lost and no package changed since a set was validated in full.
THEOREM IntentSound == Spec => []IntentIsSound
<1>1. IInv => IntentIsSound
  BY DEF IInv
<1> QED  BY <1>1, ManagerInvariant, PTL

\* Since an enabled set without a cycle has a member that no other requires, disable
\* accepts one.
THEOREM IntentLeavable == Spec => []IntentCanBeLeft
<1>1. IInv => IntentCanBeLeft
  <2> SUFFICES ASSUME IInv, clean, Enabled(file) # {}
               PROVE  \E e \in Enabled(file) : Removable(file, e)
    BY DEF IntentCanBeLeft
  <2> DEFINE b == Discovered(Enabled(file))
  <2>1. Discoverable(Enabled(file)) /\ Acyclic(b)
    BY DEF IInv, IntentIsSound, Sound
  <2>2. DOMAIN b = Enabled(file)
    BY DEF Discovered
  <2> HIDE DEF b
  <2>3. PICK e \in DOMAIN b : \A f \in DOMAIN b : e \notin Of(b, f).requires
    BY <2>1, <2>2 DEF Acyclic
  <2>4. NoDependents(b, e)
    BY <2>3 DEF NoDependents
  <2> QED  BY <2>1, <2>2, <2>4 DEF Removable, b
<1> QED  BY <1>1, ManagerInvariant, PTL

\* run launches only bundles that fit together and are not descriptor-only, whatever
\* happened to the saved configuration and the packages.
THEOREM LaunchesSound == Spec => []LaunchIsSound
<1>1. IInv => LaunchIsSound
  BY DEF IInv
<1> QED  BY <1>1, ManagerInvariant, PTL

\* Two vLLM bundles with plugins, or with native manifests, never share a host.
THEOREM OnePluginHost == Spec => []OnePluginBundle
<1>1. IInv => OnePluginBundle
  BY DEF IInv
<1> QED  BY <1>1, ManagerInvariant, PTL

\* status finds an event of work in this boot only when the process that is alive at
\* its pid did that work.
THEOREM EffectiveAlive == Spec => []EffectiveIsAlive
<1>1. IInv => EffectiveIsAlive
  <2> SUFFICES ASSUME IInv, NEW e \in Ext, NEW v \in Versions,
                      NEW i \in EffectiveEvidence(e, v), log[i].boot = boots
               PROVE  log[i].entry \in process[log[i].pid].worked
    BY DEF EffectiveIsAlive
  <2>1. /\ i \in DOMAIN log /\ log[i].kind = "runtime_effective"
        /\ process[log[i].pid].start = log[i].start
    BY DEF EffectiveEvidence, ProcessIsCurrent
  <2> QED  BY <2>1 DEF IInv, EventsAreOwned
<1> QED  BY <1>1, ManagerInvariant, PTL
=============================================================================
