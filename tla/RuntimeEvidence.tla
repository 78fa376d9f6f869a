-------------------------- MODULE RuntimeEvidence ---------------------------
(***************************************************************************)
(* src/vllm_hust_ext/runtime_evidence.py: the host processes that `run`     *)
(* launched append events to one file, and `status` looks in the file for   *)
(* an event of a process that is still there.  A process is known by pid    *)
(* and by its start time in clock ticks since the machine booted.           *)
(***************************************************************************)
EXTENDS ExtensionPlan

CONSTANTS
    Pids,
    Window,       \* events in the last _MAX_READ_BYTES of the file
    MaxTick,      \* bound on processes started per boot
    MaxBoots,     \* bound on reboots
    MaxEvents     \* bound on the events in the file

VARIABLES
    process,      \* /proc: by pid, the process that has it, or had it last
    log,          \* the evidence file, a line per event
    tick,         \* start time of the next process
    boots         \* reboots so far

evidence == <<process, log, tick, boots>>

\* How much of an event one os.write has put in the file: all of it, all but the
\* newline, or less.
Written == {"whole", "unended", "torn"}

ASSUME EvidenceAssumption ==
    /\ Window \in Nat /\ MaxTick \in Nat /\ MaxBoots \in Nat /\ MaxEvents \in Nat

NoBundles == [e \in {} |-> "none"]

EvidenceInit ==
    /\ process = [pid \in Pids |-> [alive |-> FALSE, start |-> 0, bundles |-> NoBundles,
                                    worked |-> {}]]
    /\ log = <<>> /\ tick = 0 /\ boots = 0

-----------------------------------------------------------------------------
\* A new process with launched bundles b; a pid is free once its process is gone.
Spawn(pid, b) ==
    /\ ~process[pid].alive /\ tick < MaxTick
    /\ process' = [process EXCEPT ![pid] =
          [alive |-> TRUE, start |-> tick, bundles |-> b, worked |-> {}]]
    /\ tick' = tick + 1
    /\ UNCHANGED <<log, boots>>

\* Its pid is gone from /proc.
Exit(pid) ==
    /\ process[pid].alive
    /\ process' = [process EXCEPT ![pid].alive = FALSE]
    /\ UNCHANGED <<log, tick, boots>>

\* Start times begin again at a reboot; the file stays.
Reboot ==
    /\ boots < MaxBoots
    /\ boots' = boots + 1 /\ tick' = 0
    /\ process' = [pid \in Pids |-> [process[pid] EXCEPT !.alive = FALSE]]
    /\ UNCHANGED log

\* record_event, called in the host for a bundle it was launched with: when the plugin
\* is loaded, and when it handled real work.
RecordEvent(pid, e, entry, kind, written) ==
    /\ process[pid].alive /\ e \in DOMAIN process[pid].bundles
    /\ entry \in Of(process[pid].bundles, e).entries
    /\ Len(log) < MaxEvents
    /\ log' = Append(log, [kind |-> kind, entry |-> entry, pid |-> pid,
                           start |-> process[pid].start, boot |-> boots,
                           written |-> written])
    /\ process' = [process EXCEPT ![pid].worked =
          IF kind = "runtime_effective" THEN @ \cup {entry} ELSE @]
    /\ UNCHANGED <<tick, boots>>

-----------------------------------------------------------------------------
(* Reading: _events and runtime_effective_evidence. *)

\* A line that does not end is glued to the next event, and neither parses then.
Readable(i) ==
    /\ i > Len(log) - Window
    /\ \/ log[i].written = "whole"
       \/ log[i].written = "unended" /\ i = Len(log)
    /\ i = 1 \/ log[i - 1].written = "whole"

\* Faulty: the pid alone is compared.
ProcessIsCurrentByPid(event) == process[event.pid].alive

\* _process_is_current
ProcessIsCurrent(event) ==
    process[event.pid].alive /\ process[event.pid].start = event.start

EffectiveEvidence(e, v) ==
    {i \in DOMAIN log :
        /\ Readable(i)
        /\ log[i].kind = "runtime_effective"
        /\ log[i].entry \in Manifest[e][v].entries
        /\ ProcessIsCurrent(log[i])}
=============================================================================
