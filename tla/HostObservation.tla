--------------------------- MODULE HostObservation ---------------------------
(***************************************************************************)
(* The observer of bound invocations (host_observer.py) next to the        *)
(* processes it observes.  Processes of the host fill logical slots, end   *)
(* and are replaced; a process id is used again by a process with other    *)
(* start ticks; events stay in the journals.  The observer reads the       *)
(* journals once and then looks every invoked event's process up in /proc, *)
(* in three reads between which anything may happen.                       *)
(*                                                                         *)
(* One host; a slot is a role with an ordinal.  Which controller an        *)
(* obligation was dispatched by, and the raw bytes, are passed through.    *)
(***************************************************************************)
EXTENDS Naturals, Sequences

CONSTANTS
    Pids, Slots, Obligations,
    Targets,     \* the slots that an obligation requires
    Epochs,
    Required,    \* the epoch of a slot in the required process snapshot
    MaxTicks,    \* processes started
    MaxEvents    \* events in the journals

ASSUME TargetsAssumption ==
    /\ Targets \in [Obligations -> SUBSET Slots] /\ Required \in [Slots -> Epochs]
    /\ MaxTicks \in Nat /\ MaxEvents \in Nat

VARIABLES
    table,       \* the process at a pid: its start ticks and the epoch it was told
    clock,       \* the start ticks of the newest process
    journal,     \* the events of all journals
    at,          \* where the observation stands
    records, pos,
    before, argv,  \* what was read of the process of the event at pos
    effects,     \* the process seen for an obligation in a slot
    linux_slots, \* the slot that a process was seen in
    alive        \* the processes that have been alive since the journals were read

vars == <<table, clock, journal, at, records, pos, before, argv, effects,
          linux_slots, alive>>

NoProcess == [start |-> 0]
NoEffect == [pid |-> 0]

Unseen == [o \in Obligations |-> [s \in Targets[o] |-> NoEffect]]

Identity(p) == <<p, table[p].start>>

Running == {p \in Pids : table[p] # NoProcess}

\* An invoked event of a bound entry point; an event of another plan or launch, of a slot that
\* the environment assigned, or of another controller's scheduler; any other event.
Kind == {"invoked", "foreign", "other"}

Init ==
    /\ table = [p \in Pids |-> NoProcess] /\ clock = 0
    /\ journal = <<>> /\ at = "idle" /\ records = <<>> /\ pos = 1
    /\ before = 0 /\ argv = NoEffect
    /\ effects = Unseen
    /\ linux_slots = {} /\ alive = {}

-----------------------------------------------------------------------------
(* The host. *)

\* What happens after the snapshot is returned, and what is appended after the journals were
\* read, is of no consequence to the observation.
Unfinished == at \notin {"concluded", "refused"}

observer == <<at, records, pos, before, argv, effects, linux_slots>>

Spawn(p, e) ==
    /\ Unfinished /\ table[p] = NoProcess /\ clock < MaxTicks /\ clock' = clock + 1
    /\ table' = [table EXCEPT ![p] = [start |-> clock', epoch |-> e]]
    /\ alive' = IF at = "idle" THEN {} ELSE alive \cup {<<p, clock'>>}
    /\ UNCHANGED <<journal, observer>>

Exit(p) ==
    /\ Unfinished /\ table[p] # NoProcess /\ table' = [table EXCEPT ![p] = NoProcess]
    /\ UNCHANGED <<clock, journal, observer, alive>>

\* append_event.  Nothing stops a process from reporting for several slots.
Emit(p, o, s) ==
    /\ at = "idle" /\ table[p] # NoProcess /\ Len(journal) < MaxEvents
    /\ journal' = Append(journal, [kind |-> "invoked", obligation |-> o, slot |-> s, pid |-> p,
                                   epoch |-> table[p].epoch, start |-> table[p].start])
    /\ UNCHANGED <<table, clock, observer, alive>>

EmitOther(kind) ==
    /\ at = "idle" /\ Running # {} /\ Len(journal) < MaxEvents
    /\ journal' = Append(journal, [kind |-> kind])
    /\ UNCHANGED <<table, clock, observer, alive>>

-----------------------------------------------------------------------------
(* observe_bound_invocations *)

host == <<table, clock, journal>>

\* An exception leaves nothing of the observation behind.
Refuse ==
    /\ at' = "refused" /\ records' = <<>> /\ pos' = 1 /\ before' = 0 /\ argv' = NoEffect
    /\ effects' = Unseen /\ linux_slots' = {} /\ UNCHANGED <<host, alive>>

Read ==
    /\ at = "idle" /\ at' = "next" /\ records' = journal
    /\ alive' = {Identity(p) : p \in Running}
    /\ UNCHANGED <<host, pos, before, argv, effects, linux_slots>>

Event == records[pos]

Skip == pos' = pos + 1 /\ UNCHANGED <<host, at, records, before, argv, effects,
                                      linux_slots, alive>>

\* Faulty: takes evidence of any epoch.
NextEventAnyEpoch ==
    /\ at = "next" /\ pos <= Len(records)
    /\ IF Event.kind = "foreign" THEN Refuse
       ELSE IF Event.kind = "other" THEN Skip
       ELSE IF Event.slot \notin Targets[Event.obligation] THEN Refuse
       ELSE at' = "before" /\ UNCHANGED <<host, records, pos, before, argv, effects,
                                          linux_slots, alive>>

NextEvent ==
    /\ at = "next" /\ pos <= Len(records)
    /\ IF Event.kind = "foreign" THEN Refuse
       ELSE IF Event.kind = "other" THEN Skip
       ELSE IF Event.slot \notin Targets[Event.obligation] THEN Refuse
       ELSE IF Event.epoch # Required[Event.slot] THEN Skip
       ELSE at' = "before" /\ UNCHANGED <<host, records, pos, before, argv, effects,
                                          linux_slots, alive>>

\* read_linux_process_identity: stat, cmdline and stat again.
ReadBefore ==
    /\ at = "before"
    /\ IF table[Event.pid] = NoProcess THEN Refuse
       ELSE /\ before' = table[Event.pid].start /\ at' = "argv"
            /\ UNCHANGED <<host, records, pos, argv, effects, linux_slots, alive>>

ReadArgv ==
    /\ at = "argv"
    /\ IF table[Event.pid] = NoProcess THEN Refuse
       ELSE /\ argv' = [pid |-> Event.pid, start |-> table[Event.pid].start] /\ at' = "after"
            /\ UNCHANGED <<host, records, pos, before, effects, linux_slots, alive>>

\* Faulty: does not read the start ticks a second time.
SameProcessAsBefore ==
    table[Event.pid] # NoProcess /\ before = Event.start

SameProcess ==
    /\ table[Event.pid] # NoProcess /\ table[Event.pid].start = before
    /\ before = Event.start

Observed == [pid |-> Event.pid, start |-> before, epoch |-> Event.epoch, argv |-> argv]

\* One process for the slot and one slot for the process.
SlotIsFree ==
    /\ effects[Event.obligation][Event.slot] \in {NoEffect, Observed}
    /\ \A x \in linux_slots : x[1] = <<Event.pid, before>> => x[2] = Event.slot

ReadAfter ==
    /\ at = "after"
    /\ IF ~SameProcess \/ ~SlotIsFree THEN Refuse
       ELSE /\ effects' = [effects EXCEPT ![Event.obligation][Event.slot] = Observed]
            /\ linux_slots' = linux_slots \cup {<<<<Event.pid, before>>, Event.slot>>}
            /\ at' = "next" /\ pos' = pos + 1 /\ before' = 0 /\ argv' = NoEffect
            /\ UNCHANGED <<host, records, alive>>

Conclude ==
    /\ at = "next" /\ pos > Len(records) /\ at' = "concluded"
    /\ UNCHANGED <<host, records, pos, before, argv, effects, linux_slots, alive>>

\* What the snapshot returned says; coverage counts the slots seen.
CompleteCoverage ==
    at = "concluded" /\ \A o \in Obligations : \A s \in Targets[o] : effects[o][s] # NoEffect

Observe == Read \/ NextEvent \/ ReadBefore \/ ReadArgv \/ ReadAfter \/ Conclude

Next ==
    \/ Observe
    \/ \E p \in Pids :
        \/ Exit(p)
        \/ \E e \in Epochs : Spawn(p, e)
        \/ \E o \in Obligations, s \in Slots : Emit(p, o, s)
    \/ \E k \in Kind \ {"invoked"} : EmitOther(k)

Spec == Init /\ [][Next]_vars

-----------------------------------------------------------------------------
(* Properties. *)

Effect(o, s) == effects[o][s]

Events ==
    [kind : {"invoked"}, obligation : Obligations, slot : Slots, pid : Pids, epoch : Epochs,
     start : 1..clock]
    \cup [kind : Kind \ {"invoked"}]

Argvs == [pid : Pids, start : 1..clock]

Seen == [pid : Pids, start : 1..clock, epoch : Epochs, argv : Argvs]

\* The process at a pid, events, effects and where the observation stands have their types, and
\* only an invoked event of a required slot is looked up.
TypeOK ==
    /\ clock \in 0..MaxTicks
    /\ table \in [Pids -> {NoProcess} \cup [start : 1..clock, epoch : Epochs]]
    /\ journal \in Seq(Events) /\ Len(journal) <= MaxEvents
    /\ records \in Seq(Events) /\ pos \in 1..(Len(records) + 1)
    /\ at \in {"idle", "next", "before", "argv", "after", "concluded", "refused"}
    /\ at \in {"before", "argv", "after"} =>
          /\ pos <= Len(records) /\ Event.kind = "invoked"
          /\ Event.slot \in Targets[Event.obligation] /\ Event.epoch = Required[Event.slot]
    /\ before \in 0..clock /\ argv \in {NoEffect} \cup Argvs
    /\ at \in {"argv", "after"} => before # 0
    /\ at = "after" => argv # NoEffect
    /\ DOMAIN effects = Obligations
    /\ \A o \in Obligations : effects[o] \in [Targets[o] -> {NoEffect} \cup Seen]
    /\ linux_slots \subseteq (Pids \X (1..clock)) \X Slots
    /\ alive \subseteq Pids \X (1..clock)

\* When the snapshot claims complete coverage, every required slot of every obligation had a
\* process that ran after the journals were read, was of the required epoch, and
\* itself reported the invocation (observe_bound_invocations).
CoverageIsWitnessed ==
    CompleteCoverage =>
        \A o \in Obligations : \A s \in Targets[o] :
            LET x == Effect(o, s)
            IN  /\ <<x.pid, x.start>> \in alive
                /\ \E i \in 1..Len(journal) :
                    LET e == journal[i]
                    IN  /\ e.kind = "invoked" /\ e.obligation = o /\ e.slot = s
                        /\ e.epoch = Required[s] /\ e.pid = x.pid /\ e.start = x.start

\* No process stands for two slots, whatever obligations they belong to ("a Linux process
\* identity cannot be reused to cover multiple logical roles", observe_bound_invocations).
OneSlotPerProcess ==
    \A o1, o2 \in Obligations : \A s1 \in Targets[o1], s2 \in Targets[o2] :
        /\ Effect(o1, s1) # NoEffect /\ Effect(o2, s2) # NoEffect
        /\ Effect(o1, s1).pid = Effect(o2, s2).pid
        /\ Effect(o1, s1).start = Effect(o2, s2).start
        => s1 = s2

\* The command line recorded for a process is its own, although it may end and its pid be
\* taken by another between the reads (read_linux_process_identity).
ArgvIsItsOwn ==
    \A o \in Obligations : \A s \in Targets[o] :
        LET x == Effect(o, s)
        IN  x # NoEffect => x.argv = [pid |-> x.pid, start |-> x.start]

=============================================================================
