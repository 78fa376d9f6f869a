-------------------------- MODULE ExtensionManager --------------------------
(***************************************************************************)
(* The command line (src/vllm_hust_ext/cli.py, config.py): each command is  *)
(* a process that loads the saved configuration, discovers installed        *)
(* bundles, validates, and replaces the configuration file or launches a    *)
(* host.  No lock is held: commands overlap, packages are installed and     *)
(* removed under them, and a command may be refused or killed at any point. *)
(***************************************************************************)
EXTENDS RuntimeEvidence

CONSTANTS
    Shells,       \* where an operator or a script types commands
    Legacy,       \* enabled lists of schema 1 files a user may start from
    Shipped,      \* what may be installed at first
    MaxInputs     \* bound on commands, package changes and host events

ASSUME ManagerAssumption ==
    /\ Legacy \subseteq SUBSET Ext
    /\ Shipped \subseteq [Ext -> Versions \cup {"none"}]
    /\ MaxInputs \in Nat

VARIABLES
    installed,    \* the version of each distribution's bundle, or "none"
    file,         \* config.json
    cmd,          \* the command that runs in each shell
    clean,        \* no lost update or package change since the last full validation
    inputs        \* how many inputs there have been

vars == <<evidence, installed, file, cmd, clean, inputs>>

\* ExtensionConfig; an extension that is not stored reads as the default.
Absent == [stored |-> FALSE, enabled |-> FALSE, configuration |-> Default]
Listed == [stored |-> TRUE, enabled |-> TRUE, configuration |-> Default]
Entry == [stored : BOOLEAN, enabled : BOOLEAN, configuration : Confs]

Enabled(config) == {e \in Ext : config[e].enabled}
Configuration(config) == [e \in Ext |-> config[e].configuration]

Idle == [op |-> "none", stage |-> "idle", ext |-> "none", conf |-> Default,
         snap |-> [e \in Ext |-> Absent], found |-> NoBundles]

\* load_config reads a schema 1 list as enabled extensions without configuration.
Init ==
    /\ EvidenceInit
    /\ installed \in Shipped
    /\ \E S \in Legacy :
        /\ file = [e \in Ext |-> IF e \in S THEN Listed ELSE Absent]
        /\ clean = (S = {})
    /\ cmd = [s \in Shells |-> Idle]
    /\ inputs = 0

\* A step that an operator, a package manager or a host process starts.
Input == inputs < MaxInputs /\ inputs' = inputs + 1

-----------------------------------------------------------------------------
(* discover_bundles *)

Discoverable(S) == \A e \in S : installed[e] # "none"
Discovered(S) == [e \in S |-> installed[e]]

\* Another version, or none that can be discovered: removed, two that differ,
\* a bad manifest, an entry point without its target.
PackageChange(e) ==
    /\ Input
    /\ \E v \in (Versions \cup {"none"}) \ {installed[e]} :
          installed' = [installed EXCEPT ![e] = v]
    /\ clean' = FALSE
    /\ UNCHANGED <<evidence, file, cmd>>

-----------------------------------------------------------------------------
(* _extension_command and _run_command, step by step. *)

Goto(s, stage, found) ==
    cmd' = [cmd EXCEPT ![s].stage = stage, ![s].found = found]

\* load_config
Begin(s, op, e, c) ==
    /\ cmd[s].stage = "idle" /\ Input
    /\ cmd' = [cmd EXCEPT ![s] = [op |-> op, stage |-> "loaded", ext |-> e, conf |-> c,
                                  snap |-> file, found |-> NoBundles]]
    /\ UNCHANGED <<evidence, installed, file, clean>>

\* A refusal, an error or a kill; save_config leaves the file as it was.
Stop(s) ==
    /\ cmd[s].stage # "idle"
    /\ cmd' = [cmd EXCEPT ![s] = Idle]
    /\ UNCHANGED <<evidence, installed, file, clean, inputs>>

At(s, op, stage) ==
    /\ cmd[s].op = op /\ cmd[s].stage = stage
    /\ UNCHANGED <<evidence, installed, file, clean, inputs>>

\* enable: the bundle itself is discovered first, and is not descriptor-only.
EnableTarget(s) ==
    /\ At(s, "enable", "loaded")
    /\ Discoverable({cmd[s].ext})
    /\ Of(Discovered({cmd[s].ext}), cmd[s].ext).active
    /\ Goto(s, "target", NoBundles)

Prospective(s) == Enabled(cmd[s].snap) \cup {cmd[s].ext}

\* Faulty: nothing looks for a cycle.
EnableValidateNoVisit(s) ==
    /\ At(s, "enable", "target")
    /\ Discoverable(Prospective(s))
    /\ LET found == Discovered(Prospective(s)) IN
        /\ DependenciesHold(found) /\ OneOwner(found) /\ ClaimsFit(found)
        /\ Goto(s, "save", found)

\* Then all that would be enabled is discovered again and validated together.
EnableValidate(s) ==
    /\ At(s, "enable", "target")
    /\ Discoverable(Prospective(s))
    /\ LET found == Discovered(Prospective(s)) IN
        /\ DependenciesHold(found) /\ Acyclic(found)
        /\ OneOwner(found) /\ ClaimsFit(found)
        /\ Goto(s, "save", found)

\* All that is enabled is discovered, and none of it requires e.
Removable(config, e) ==
    /\ Discoverable(Enabled(config))
    /\ NoDependents(Discovered(Enabled(config)), e)

\* disable, and forget of what is stored and already disabled.
Remove(s) ==
    /\ \/ At(s, "disable", "loaded")
       \/ /\ At(s, "forget", "loaded")
          /\ cmd[s].snap[cmd[s].ext].stored /\ ~cmd[s].snap[cmd[s].ext].enabled
    /\ Removable(cmd[s].snap, cmd[s].ext)
    /\ Goto(s, "save", Discovered(Enabled(cmd[s].snap)))

Configure(s) ==
    /\ At(s, "configure", "loaded")
    /\ Discoverable({cmd[s].ext})
    /\ Goto(s, "save", Discovered({cmd[s].ext}))

\* with_extension and without_extension of the loaded configuration.
Updated(s) ==
    LET e == cmd[s].ext  old == cmd[s].snap[e] IN
    [cmd[s].snap EXCEPT ![e] =
        CASE cmd[s].op = "enable" -> [old EXCEPT !.stored = TRUE, !.enabled = TRUE]
          [] cmd[s].op = "disable" -> [old EXCEPT !.stored = TRUE, !.enabled = FALSE]
          [] cmd[s].op = "forget" -> Absent
          [] cmd[s].op = "configure" -> [old EXCEPT !.stored = TRUE,
                                                    !.configuration = cmd[s].conf]]

\* What the command validated is still so: nobody enabled or disabled anything since
\* it loaded the file, and the packages it looked at are the ones installed.
Fresh(s) ==
    /\ Enabled(cmd[s].snap) = Enabled(file)
    /\ \A e \in DOMAIN cmd[s].found : installed[e] = cmd[s].found[e]

\* save_config: os.replace of a complete temporary file.
Save(s) ==
    /\ cmd[s].stage = "save"
    /\ file' = Updated(s)
    /\ clean' = (Fresh(s) /\ (clean \/ cmd[s].op = "enable"))
    /\ cmd' = [cmd EXCEPT ![s] = Idle]
    /\ UNCHANGED <<evidence, installed, inputs>>

\* Faulty: what is enabled is taken to fit together.
RunDiscoverTrusting(s) ==
    /\ At(s, "run", "loaded")
    /\ Discoverable(Enabled(cmd[s].snap))
    /\ Goto(s, "planned", Discovered(Enabled(cmd[s].snap)))

\* run: what is enabled is discovered once and validated, whatever enable has checked.
RunDiscover(s) ==
    /\ At(s, "run", "loaded")
    /\ Discoverable(Enabled(cmd[s].snap))
    /\ LET found == Discovered(Enabled(cmd[s].snap)) IN
        /\ DependenciesHold(found) /\ Acyclic(found) /\ OneOwner(found)
        /\ Goto(s, "planned", found)

\* Every bundle is checked, the plans are merged, and the host is spawned; supervise
\* only waits for it.
Launch(s) ==
    /\ cmd[s].op = "run" /\ cmd[s].stage = "planned"
    /\ \E healthy \in SUBSET DOMAIN cmd[s].found :
          Launchable(cmd[s].found, Configuration(cmd[s].snap), healthy)
    /\ \E pid \in Pids : Spawn(pid, cmd[s].found)
    /\ cmd' = [cmd EXCEPT ![s] = Idle]
    /\ UNCHANGED <<installed, file, clean, inputs>>

-----------------------------------------------------------------------------
Command(s) ==
    \/ \E op \in {"enable", "disable", "forget"}, e \in Ext : Begin(s, op, e, Default)
    \/ \E e \in Ext, c \in Confs : Begin(s, "configure", e, c)
    \/ Begin(s, "run", "none", Default)
    \/ Stop(s) \/ EnableTarget(s) \/ EnableValidate(s) \/ Remove(s) \/ Configure(s)
    \/ Save(s) \/ RunDiscover(s) \/ Launch(s)

\* Hosts work, report and end, other programs get their pids, the machine reboots.
HostStep ==
    /\ Input /\ UNCHANGED <<installed, file, cmd, clean>>
    /\ \/ Reboot
       \/ \E pid \in Pids : Exit(pid) \/ Spawn(pid, NoBundles)
       \/ \E pid \in Pids, e \in Ext, entry \in EntryPoints, w \in Written,
             kind \in {"loaded", "runtime_effective"} : RecordEvent(pid, e, entry, kind, w)

Next ==
    \/ \E s \in Shells : Command(s)
    \/ \E e \in Ext : PackageChange(e)
    \/ HostStep

Spec == Init /\ [][Next]_vars

-----------------------------------------------------------------------------
(* Properties. *)

Process == [alive : BOOLEAN, start : Nat, bundles : Bundles, worked : SUBSET EntryPoints]

Event == [kind : {"loaded", "runtime_effective"}, entry : EntryPoints, pid : Pids,
          start : Nat, boot : Nat, written : Written]

Cmd == [op : {"none", "enable", "disable", "forget", "configure", "run"},
        stage : {"idle", "loaded", "target", "save", "planned"},
        ext : Ext \cup {"none"}, conf : Confs, snap : [Ext -> Entry], found : Bundles]

\* The variables have their types.
TypeOK ==
    /\ process \in [Pids -> Process] /\ log \in Seq(Event)
    /\ tick \in Nat /\ boots \in Nat
    /\ installed \in [Ext -> Versions \cup {"none"}]
    /\ file \in [Ext -> Entry]
    /\ cmd \in [Shells -> Cmd]
    /\ clean \in BOOLEAN /\ inputs \in Nat

Sound(b) == DependenciesHold(b) /\ Acyclic(b) /\ OneOwner(b) /\ ClaimsFit(b)

\* Whatever races, lost updates, package changes or hand-me-down files led to the
\* saved configuration, a host is launched only with bundles that fit together and
\* that are ready: run trusts nothing that enable has checked.
LaunchIsSound ==
    \A pid \in Pids :
        LET b == process[pid].bundles IN
        /\ Sound(b) /\ PluginsOwned(b)
        /\ \A e \in DOMAIN b : Of(b, e).active

\* The saved set of enabled extensions is installed and fits together, unless an
\* update was lost or a package changed since a set was last validated in full.
IntentIsSound ==
    clean => Discoverable(Enabled(file)) /\ Sound(Discovered(Enabled(file)))

\* With the same exceptions the operator is not trapped: as long as something is
\* enabled, disable accepts some enabled extension.
IntentCanBeLeft ==
    clean /\ Enabled(file) # {} => \E e \in Enabled(file) : Removable(file, e)

\* Two vLLM bundles with plugins, or with native manifests, are never launched
\* together: their generated configurations always differ.
OnePluginBundle ==
    \A pid \in Pids : LET b == process[pid].bundles IN
        \A e, f \in DOMAIN b :
            /\ Of(b, e).provider = "vllm" /\ Of(b, f).provider = "vllm"
            /\ \/ Of(b, e).plugins # {} /\ Of(b, f).plugins # {}
               \/ Of(b, e).native /\ Of(b, f).native
            => e = f

\* status shows runtime_effective only while the very process that handled work for
\* the entry point runs, not its successor at the same pid, as long as the machine
\* has not been rebooted since.
EffectiveIsAlive ==
    \A e \in Ext, v \in Versions : \A i \in EffectiveEvidence(e, v) :
        log[i].boot = boots => log[i].entry \in process[log[i].pid].worked

-----------------------------------------------------------------------------
(* The inductive invariant. *)

\* What command c has validated of the bundles it found, by the time it acts.
Validated(c) ==
    /\ c.op \in {"enable", "disable", "forget", "configure"} => c.ext \in Ext
    /\ c.stage = "target" => c.op = "enable"
    /\ c.stage = "planned" =>
          DependenciesHold(c.found) /\ Acyclic(c.found) /\ OneOwner(c.found)
    /\ c.stage = "save" =>
          \/ /\ c.op = "enable" /\ Sound(c.found)
             /\ DOMAIN c.found = Enabled(c.snap) \cup {c.ext}
          \/ /\ c.op \in {"disable", "forget"} /\ NoDependents(c.found, c.ext)
             /\ DOMAIN c.found = Enabled(c.snap)
          \/ c.op = "configure"

CommandsChecked == \A s \in Shells : Validated(cmd[s])

\* Within a boot start times tell processes apart, and an event of work is about the
\* process with its pid and start time.
EventsAreOwned ==
    /\ \A pid \in Pids : process[pid].alive => process[pid].start < tick
    /\ \A i \in DOMAIN log :
        /\ log[i].boot <= boots
        /\ log[i].boot = boots =>
              /\ log[i].start < tick
              /\ /\ log[i].kind = "runtime_effective"
                 /\ process[log[i].pid].start = log[i].start
                 => log[i].entry \in process[log[i].pid].worked

IInv ==
    /\ TypeOK /\ CommandsChecked /\ EventsAreOwned
    /\ IntentIsSound /\ LaunchIsSound /\ OnePluginBundle
=============================================================================
