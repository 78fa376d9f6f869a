---------------------------- MODULE ProcessProofs ----------------------------
(***************************************************************************)
(* What holds of the processes around the manager.  Of the observed ones   *)
(* (HostObservation), for any number of processes, slots and obligations;  *)
(* and of the process group that the manager owns (Supervision) whenever   *)
(* it is interrupted, for any number of descendants and of signals.  The   *)
(* two parts share nothing but the provers.                                *)
(***************************************************************************)
EXTENDS HostObservation, Supervision, TLAPS


\* The process looked up may have been replaced between two reads, but only by a younger one.
ReadsInOrder ==
    /\ at \in {"argv", "after"} => <<Event.pid, before>> \in alive
    /\ at = "argv" =>
          table[Event.pid] = NoProcess \/ before <= table[Event.pid].start
    /\ at = "after" =>
          /\ argv.pid = Event.pid /\ before <= argv.start
          /\ table[Event.pid] = NoProcess \/ argv.start <= table[Event.pid].start

\* Every process there is has been alive since the journals were read.
AliveIsKnown == at # "idle" => \A p \in Pids : table[p] # NoProcess => Identity(p) \in alive

\* The records are the journal that was read.
RecordsAreRead == at \notin {"idle", "refused"} => records = journal

Reports(e, o, s, x) ==
    /\ e.kind = "invoked" /\ e.obligation = o /\ e.slot = s
    /\ e.epoch = Required[s] /\ e.pid = x.pid /\ e.start = x.start

\* What backs an effect that was recorded for slot s of obligation o.
Backed(o, s, x) ==
    /\ x.argv = [pid |-> x.pid, start |-> x.start]
    /\ <<<<x.pid, x.start>>, s>> \in linux_slots
    /\ <<x.pid, x.start>> \in alive
    /\ \E i \in 1..Len(records) : Reports(records[i], o, s, x)

EffectsAreBacked ==
    /\ at = "idle" => effects = Unseen /\ pos = 1
    /\ \A o \in Obligations : \A s \in Targets[o] :
          effects[o][s] # NoEffect => Backed(o, s, effects[o][s])

\* A process is in one slot.
SlotsAreFunctional ==
    \A x, y \in linux_slots : x[1] = y[1] => x[2] = y[2]

ObservationInv ==
    TypeOK /\ ReadsInOrder /\ AliveIsKnown /\ RecordsAreRead /\ EffectsAreBacked
    /\ SlotsAreFunctional

-----------------------------------------------------------------------------
\* The events known at one clock are known at a later one.
LEMMA EventsGrow ==
    ASSUME TypeOK, clock' \in Nat, clock <= clock'
    PROVE  /\ Events \subseteq Events' /\ Argvs \subseteq Argvs' /\ Seen \subseteq Seen'
           /\ 1..clock \subseteq 1..clock'
  <1>1. 1..clock \subseteq 1..clock' /\ 0..clock \subseteq 0..clock'
    BY TargetsAssumption DEF TypeOK
  <1>2. QED  BY <1>1 DEF Events, Argvs, Seen, Kind

\* The sets of events and of effects depend on the clock only.
LEMMA SameTypes ==
    UNCHANGED clock => Events' = Events /\ Argvs' = Argvs /\ Seen' = Seen
  BY DEF Events, Argvs, Seen

\* Nothing is seen at first.
LEMMA InitInv == Init => ObservationInv
  <1> SUFFICES ASSUME Init PROVE ObservationInv
    OBVIOUS
  <1> USE TargetsAssumption
  <1>1. TypeOK
    BY DEF Init, TypeOK, Unseen, NoProcess, NoEffect
  <1>2. EffectsAreBacked
    BY DEF Init, EffectsAreBacked, Unseen, NoEffect
  <1>3. QED
    BY <1>1, <1>2 DEF Init, ObservationInv, ReadsInOrder, AliveIsKnown, RecordsAreRead,
                      SlotsAreFunctional


\* What the event at pos is while its process is looked up.
LEMMA EventIsInvoked ==
    ASSUME TypeOK, at \in {"before", "argv", "after"}
    PROVE  /\ Event.obligation \in Obligations /\ Event.slot \in Targets[Event.obligation]
           /\ Event.slot \in Slots /\ Event.pid \in Pids /\ Event.epoch \in Epochs
           /\ Event.start \in 1..clock /\ pos \in 1..Len(records) /\ Event.kind = "invoked"
           /\ Event.epoch = Required[Event.slot]
  <1>1. pos \in 1..Len(records) /\ records \in Seq(Events)
    BY DEF TypeOK
  <1>2. records[pos] \in Events
    BY <1>1
  <1>3. QED  BY <1>1, <1>2 DEF TypeOK, Event, Events, Kind

\* A refused observation says nothing.
LEMMA RefuseInv == ObservationInv /\ at # "idle" /\ Refuse => ObservationInv'
  <1> SUFFICES ASSUME ObservationInv, at # "idle", Refuse PROVE ObservationInv'
    OBVIOUS
  <1> USE TargetsAssumption
  <1>1. TypeOK'
    <2>1. Events' = Events /\ Argvs' = Argvs /\ Seen' = Seen
      BY SameTypes DEF Refuse, host
    <2>2. effects' = Unseen /\ at' = "refused" /\ UNCHANGED <<table, clock, journal, alive>>
      BY DEF Refuse, host
    <2>3. DOMAIN effects' = Obligations
      BY <2>2 DEF Unseen
    <2>4. \A o \in Obligations : effects'[o] \in [Targets[o] -> {NoEffect} \cup Seen]
      BY <2>2 DEF Unseen
    <2>5. records' = <<>> /\ pos' = 1 /\ before' = 0 /\ argv' = NoEffect /\ linux_slots' = {}
      BY DEF Refuse
    <2>6. QED
      BY <2>1, <2>2, <2>3, <2>4, <2>5 DEF ObservationInv, TypeOK
  <1>2. EffectsAreBacked'
    BY DEF Refuse, EffectsAreBacked, Unseen
  <1>3. AliveIsKnown'
    BY DEF ObservationInv, Refuse, host, AliveIsKnown, Identity, TypeOK
  <1>4. QED
    BY <1>1, <1>2, <1>3 DEF Refuse, ObservationInv, ReadsInOrder, RecordsAreRead,
                            SlotsAreFunctional


\* A new process is younger than every process that was looked up.
LEMMA SpawnInv ==
    ASSUME ObservationInv, NEW p \in Pids, NEW e \in Epochs, Spawn(p, e)
    PROVE  ObservationInv'
  <1> USE TargetsAssumption
  <1>0. TypeOK
    BY DEF ObservationInv
  <1>1. /\ clock \in Nat /\ clock' = clock + 1 /\ clock' \in 0..MaxTicks
        /\ table' = [table EXCEPT ![p] = [start |-> clock', epoch |-> e]]
        /\ table[p] = NoProcess
        /\ alive' = IF at = "idle" THEN {} ELSE alive \cup {<<p, clock'>>}
        /\ UNCHANGED <<journal, at, records, pos, before, argv, effects, linux_slots>>
    BY <1>0 DEF Spawn, observer, TypeOK
  <1>2. /\ Events \subseteq Events' /\ Argvs \subseteq Argvs' /\ Seen \subseteq Seen'
        /\ 1..clock \subseteq 1..clock'
    BY <1>0, <1>1, EventsGrow
  <1>3. TypeOK'
    <2>1. table' \in [Pids -> {NoProcess} \cup [start : 1..clock', epoch : Epochs]]
      BY <1>0, <1>1, <1>2 DEF TypeOK
    <2>2. journal' \in Seq(Events') /\ records' \in Seq(Events')
      BY <1>0, <1>1, <1>2 DEF TypeOK
    <2>3. \A o \in Obligations : effects'[o] \in [Targets[o] -> {NoEffect} \cup Seen']
      BY <1>0, <1>1, <1>2 DEF TypeOK
    <2>4. linux_slots' \subseteq (Pids \X (1..clock')) \X Slots
      BY <1>0, <1>1, <1>2 DEF TypeOK
    <2>5. alive' \subseteq Pids \X (1..clock')
      BY <1>0, <1>1, <1>2 DEF TypeOK
    <2>6. before' \in 0..clock' /\ argv' \in {NoEffect} \cup Argvs'
      BY <1>0, <1>1, <1>2 DEF TypeOK
    <2>7. Event' = Event
      BY <1>1 DEF Event
    <2>8. QED
      BY <1>0, <1>1, <2>1, <2>2, <2>3, <2>4, <2>5, <2>6, <2>7 DEF TypeOK
  <1>4. ReadsInOrder'
    <2>1. CASE at \notin {"argv", "after"}
      BY <2>1, <1>1 DEF ReadsInOrder
    <2>2. CASE at \in {"argv", "after"}
      <3>1. Event.pid \in Pids /\ Event' = Event
        BY <1>0, <1>1, <2>2, EventIsInvoked DEF Event
      <3>2. alive \subseteq alive'
        BY <1>1, <2>2
      <3>3. before \in 0..clock /\ (at = "after" => argv.start \in 1..clock)
        BY <1>0 DEF TypeOK, Argvs
      <3>4. QED
        BY <1>0, <1>1, <2>2, <3>1, <3>2, <3>3 DEF ReadsInOrder, ObservationInv, TypeOK, NoProcess
    <2>3. QED  BY <2>1, <2>2
  <1>5. AliveIsKnown'
    BY <1>0, <1>1 DEF AliveIsKnown, ObservationInv, TypeOK, Identity
  <1>6. EffectsAreBacked'
    <2>1. at # "idle" => alive \subseteq alive'
      BY <1>1
    <2>2. at = "idle" => \A o \in Obligations : \A s \in Targets[o] : effects[o][s] = NoEffect
      BY DEF ObservationInv, EffectsAreBacked, Unseen
    <2>3. \A o \in Obligations : \A s \in Targets[o] :
             effects[o][s] # NoEffect => Backed(o, s, effects[o][s])'
      <3> SUFFICES ASSUME NEW o \in Obligations, NEW s \in Targets[o], effects[o][s] # NoEffect
                   PROVE  Backed(o, s, effects[o][s])'
        OBVIOUS
      <3>1. Backed(o, s, effects[o][s]) /\ alive \subseteq alive'
        BY <2>1, <2>2 DEF ObservationInv, EffectsAreBacked
      <3>2. QED  BY <1>1, <3>1 DEF Backed, Reports
    <2>4. QED
      BY <1>1, <2>3 DEF EffectsAreBacked, ObservationInv, Unseen
  <1>7. RecordsAreRead' /\ SlotsAreFunctional'
    BY <1>1 DEF ObservationInv, RecordsAreRead, SlotsAreFunctional
  <1>8. QED
    BY <1>3, <1>4, <1>5, <1>6, <1>7 DEF ObservationInv


\* A process that ends leaves no process at its pid.
LEMMA ExitInv ==
    ASSUME ObservationInv, NEW p \in Pids, Exit(p)
    PROVE  ObservationInv'
  <1> USE TargetsAssumption
  <1>1. /\ TypeOK /\ table' = [table EXCEPT ![p] = NoProcess]
        /\ UNCHANGED <<clock, journal, at, records, pos, before, argv, effects, linux_slots,
                       alive>>
    BY DEF Exit, observer, ObservationInv
  <1>2. Events' = Events /\ Argvs' = Argvs /\ Seen' = Seen /\ Event' = Event
    BY <1>1, SameTypes DEF Event
  <1>3. TypeOK'
    BY <1>1, <1>2 DEF TypeOK
  <1>4. ReadsInOrder'
    <2>1. at \in {"argv", "after"} => Event.pid \in Pids
      BY <1>1, EventIsInvoked
    <2>2. QED
      BY <1>1, <1>2, <2>1 DEF ReadsInOrder, ObservationInv, TypeOK
  <1>5. AliveIsKnown'
    BY <1>1 DEF AliveIsKnown, ObservationInv, TypeOK, Identity
  <1>6. EffectsAreBacked' /\ RecordsAreRead' /\ SlotsAreFunctional'
    BY <1>1 DEF EffectsAreBacked, ObservationInv, Backed, Reports, RecordsAreRead,
                SlotsAreFunctional, Unseen
  <1>7. QED
    BY <1>3, <1>4, <1>5, <1>6 DEF ObservationInv

\* Events are appended before the journals are read.
LEMMA AppendInv ==
    ASSUME ObservationInv, at = "idle", Len(journal) < MaxEvents, NEW e \in Events,
           journal' = Append(journal, e),
           UNCHANGED <<table, clock, at, records, pos, before, argv, effects, linux_slots, alive>>
    PROVE  ObservationInv'
  <1>1. Events' = Events /\ Argvs' = Argvs /\ Seen' = Seen /\ Event' = Event /\ TypeOK
    BY SameTypes DEF Event, ObservationInv
  <1>2. journal' \in Seq(Events) /\ Len(journal') <= MaxEvents
    BY <1>1, TargetsAssumption DEF TypeOK
  <1>3. TypeOK'
    BY <1>1, <1>2 DEF TypeOK
  <1>4. EffectsAreBacked' /\ SlotsAreFunctional'
    BY DEF EffectsAreBacked, ObservationInv, Backed, Reports, SlotsAreFunctional, Unseen
  <1>5. QED
    BY <1>3, <1>4 DEF ObservationInv, ReadsInOrder, AliveIsKnown, RecordsAreRead

\* The two kinds of events.
LEMMA EmitInv ==
    ASSUME ObservationInv,
           \/ \E p \in Pids, o \in Obligations, s \in Slots : Emit(p, o, s)
           \/ \E k \in Kind \ {"invoked"} : EmitOther(k)
    PROVE  ObservationInv'
  <1>1. ASSUME NEW p \in Pids, NEW o \in Obligations, NEW s \in Slots, Emit(p, o, s)
        PROVE  ObservationInv'
    <2> DEFINE e == [kind |-> "invoked", obligation |-> o, slot |-> s, pid |-> p,
                     epoch |-> table[p].epoch, start |-> table[p].start]
    <2>1. table[p] \in [start : 1..clock, epoch : Epochs]
      BY <1>1 DEF Emit, ObservationInv, TypeOK
    <2>2. e \in Events
      BY <2>1 DEF Events
    <2>3. QED
      BY <1>1, <2>2, AppendInv DEF Emit, observer
  <1>2. ASSUME NEW k \in Kind \ {"invoked"}, EmitOther(k) PROVE ObservationInv'
    <2>1. [kind |-> k] \in Events
      BY DEF Events
    <2>2. QED
      BY <1>2, <2>1, AppendInv DEF EmitOther, observer
  <1>3. QED
    BY <1>1, <1>2

\* Reading the journals: from now on the processes that run are known.
LEMMA ReadInv == ObservationInv /\ Read => ObservationInv'
  <1> SUFFICES ASSUME ObservationInv, Read PROVE ObservationInv'
    OBVIOUS
  <1>1. /\ TypeOK /\ at = "idle" /\ at' = "next" /\ records' = journal
        /\ alive' = {Identity(p) : p \in Running}
        /\ UNCHANGED <<table, clock, journal, pos, before, argv, effects, linux_slots>>
    BY DEF ObservationInv, Read, host
  <1>2. Events' = Events /\ Argvs' = Argvs /\ Seen' = Seen
    BY <1>1, SameTypes
  <1>3. pos = 1
    BY <1>1 DEF ObservationInv, EffectsAreBacked
  <1>4. TypeOK'
    <2>1. alive' \subseteq Pids \X (1..clock)
      BY <1>1 DEF TypeOK, Running, Identity
    <2>2. QED
      BY <1>1, <1>2, <1>3, <2>1 DEF TypeOK
  <1>5. AliveIsKnown'
    BY <1>1 DEF AliveIsKnown, Running, Identity
  <1>6. EffectsAreBacked'
    BY <1>1 DEF ObservationInv, EffectsAreBacked, Unseen
  <1>7. QED
    BY <1>1, <1>4, <1>5, <1>6 DEF ObservationInv, ReadsInOrder, RecordsAreRead,
                                  SlotsAreFunctional


\* A step between two lookups, that records nothing.
LEMMA WalkInv ==
    ASSUME ObservationInv, at # "idle", at' \in {"next", "before", "argv", "after", "concluded"},
           TypeOK', ReadsInOrder', at # "refused",
           UNCHANGED <<host, records, effects, linux_slots, alive>>
    PROVE  ObservationInv'
  <1>1. AliveIsKnown' /\ RecordsAreRead' /\ SlotsAreFunctional'
    BY DEF ObservationInv, host, AliveIsKnown, Identity, RecordsAreRead, SlotsAreFunctional
  <1>2. EffectsAreBacked'
    BY DEF ObservationInv, EffectsAreBacked, Backed, Reports
  <1>3. QED  BY <1>1, <1>2 DEF ObservationInv

\* The next record is refused, skipped or looked up.
LEMMA NextEventInv == ObservationInv /\ NextEvent => ObservationInv'
  <1> SUFFICES ASSUME ObservationInv, NextEvent PROVE ObservationInv'
    OBVIOUS
  <1> USE TargetsAssumption
  <1>1. TypeOK /\ at = "next" /\ pos <= Len(records) /\ at # "idle"
    BY DEF ObservationInv, NextEvent
  <1>2. CASE Refuse
    BY <1>1, <1>2, RefuseInv
  <1>3. CASE Skip
    <2>1. Events' = Events /\ Argvs' = Argvs /\ Seen' = Seen
      BY <1>3, SameTypes DEF Skip, host
    <2>2. TypeOK'
      BY <1>1, <1>3, <2>1 DEF TypeOK, Skip, host
    <2>3. QED
      BY <1>1, <1>3, <2>2, WalkInv DEF Skip, ReadsInOrder
  <1>4. CASE /\ Event.kind \notin {"foreign", "other"}
             /\ Event.slot \in Targets[Event.obligation] /\ Event.epoch = Required[Event.slot]
             /\ at' = "before"
             /\ UNCHANGED <<host, records, pos, before, argv, effects, linux_slots, alive>>
    <2>1. Events' = Events /\ Argvs' = Argvs /\ Seen' = Seen /\ Event' = Event
      BY <1>4, SameTypes DEF host, Event
    <2>2. Event \in Events
      BY <1>1 DEF TypeOK, Event
    <2>3. Event.kind = "invoked"
      BY <1>4, <2>2 DEF Events, Kind
    <2>4. TypeOK'
      BY <1>1, <1>4, <2>1, <2>3 DEF TypeOK, host
    <2>5. QED
      BY <1>1, <1>4, <2>4, WalkInv DEF ReadsInOrder
  <1>5. QED
    BY <1>2, <1>3, <1>4 DEF NextEvent

\* The first two reads.
LEMMA FirstReadsInv == ObservationInv /\ (ReadBefore \/ ReadArgv) => ObservationInv'
  <1> SUFFICES ASSUME ObservationInv, ReadBefore \/ ReadArgv PROVE ObservationInv'
    OBVIOUS
  <1> USE TargetsAssumption
  <1>1. TypeOK /\ at \in {"before", "argv"} /\ Event.pid \in Pids
    BY EventIsInvoked DEF ObservationInv, ReadBefore, ReadArgv
  <1>2. CASE Refuse
    BY <1>1, <1>2, RefuseInv
  <1> DEFINE start == table[Event.pid].start
  <1>3. table[Event.pid] # NoProcess => start \in 1..clock /\ <<Event.pid, start>> \in alive
    BY <1>1 DEF TypeOK, ObservationInv, AliveIsKnown, Identity
  <1>4. CASE ReadBefore /\ ~Refuse
    <2>1. /\ before' = start /\ at' = "argv" /\ table[Event.pid] # NoProcess /\ at = "before"
          /\ UNCHANGED <<host, records, pos, argv, effects, linux_slots, alive>>
      BY <1>4 DEF ReadBefore
    <2>2. Events' = Events /\ Argvs' = Argvs /\ Seen' = Seen /\ Event' = Event
      BY <2>1, SameTypes DEF host, Event
    <2>3. TypeOK'
      BY <1>1, <1>3, <2>1, <2>2 DEF TypeOK, host
    <2>4. ReadsInOrder'
      <3>1. before' = start /\ <<Event.pid, start>> \in alive /\ start \in Nat
        BY <1>3, <2>1
      <3>2. table' = table /\ alive' = alive
        BY <2>1 DEF host
      <3>3. QED  BY <2>1, <2>2, <3>1, <3>2 DEF ReadsInOrder
    <2>5. QED
      BY <1>1, <2>1, <2>3, <2>4, WalkInv
  <1>5. CASE ReadArgv /\ ~Refuse
    <2>1. /\ argv' = [pid |-> Event.pid, start |-> start] /\ at' = "after"
          /\ table[Event.pid] # NoProcess /\ at = "argv"
          /\ UNCHANGED <<host, records, pos, before, effects, linux_slots, alive>>
      BY <1>5 DEF ReadArgv
    <2>2. Events' = Events /\ Argvs' = Argvs /\ Seen' = Seen /\ Event' = Event
      BY <2>1, SameTypes DEF host, Event
    <2>3. argv' \in Argvs /\ argv' # NoEffect
      BY <1>1, <1>3, <2>1 DEF Argvs, NoEffect
    <2>4. TypeOK'
      BY <1>1, <2>1, <2>2, <2>3 DEF TypeOK, host
    <2>5. ReadsInOrder'
      <3>1. argv'.pid = Event.pid /\ argv'.start = start /\ start \in Nat
        BY <1>3, <2>1
      <3>2. table' = table /\ alive' = alive /\ before' = before
        BY <2>1 DEF host
      <3>3. <<Event.pid, before>> \in alive /\ before <= start
        BY <2>1 DEF ObservationInv, ReadsInOrder
      <3>4. QED  BY <2>1, <2>2, <3>1, <3>2, <3>3 DEF ReadsInOrder
    <2>6. QED
      BY <1>1, <2>1, <2>4, <2>5, WalkInv
  <1>6. QED
    BY <1>2, <1>4, <1>5


\* The last read: the process is still the one that reported, so that the three reads were of
\* one process.
LEMMA ReadAfterInv == ObservationInv /\ ReadAfter => ObservationInv'
  <1> SUFFICES ASSUME ObservationInv, ReadAfter PROVE ObservationInv'
    OBVIOUS
  <1> USE TargetsAssumption
  <1>1. /\ TypeOK /\ at = "after" /\ Event.pid \in Pids /\ Event.obligation \in Obligations
        /\ Event.slot \in Targets[Event.obligation] /\ Event.slot \in Slots
        /\ Event.epoch \in Epochs /\ Event.start \in 1..clock
        /\ pos \in 1..Len(records) /\ Event.kind = "invoked" /\ Event.epoch = Required[Event.slot]
    BY EventIsInvoked DEF ObservationInv, ReadAfter
  <1>2. CASE Refuse
    BY <1>1, <1>2, RefuseInv
  <1>3. CASE ~Refuse
    <2> DEFINE ob == Event.obligation
               sl == Event.slot
    <2>1. /\ SameProcess /\ SlotIsFree
          /\ effects' = [effects EXCEPT ![ob][sl] = Observed]
          /\ linux_slots' = linux_slots \cup {<<<<Event.pid, before>>, sl>>}
          /\ at' = "next" /\ pos' = pos + 1 /\ before' = 0 /\ argv' = NoEffect
          /\ UNCHANGED <<table, clock, journal, records, alive>>
      BY <1>3 DEF ReadAfter, host
    <2>2. Events' = Events /\ Argvs' = Argvs /\ Seen' = Seen
      BY <2>1, SameTypes
    <2>3. before \in 1..clock /\ before = Event.start /\ <<Event.pid, before>> \in alive
      BY <1>1, <2>1 DEF SameProcess, ObservationInv, ReadsInOrder
    <2>4. argv \in Argvs /\ argv.pid = Event.pid /\ argv.start = before
      BY <1>1, <2>1, <2>3 DEF TypeOK, SameProcess, ObservationInv, ReadsInOrder, Argvs
    <2>5. argv = [pid |-> Event.pid, start |-> before]
      BY <2>4 DEF Argvs
    <2>6. Observed \in Seen
      BY <1>1, <2>3, <2>4 DEF Observed, Seen
    <2>7. DOMAIN effects' = Obligations
      BY <1>1, <2>1 DEF TypeOK
    <2>8. \A o \in Obligations : effects'[o] \in [Targets[o] -> {NoEffect} \cup Seen]
      BY <1>1, <2>1, <2>6 DEF TypeOK
    <2>9. \A o \in Obligations : \A s \in Targets[o] :
            effects'[o][s] = IF o = ob /\ s = sl THEN Observed ELSE effects[o][s]
      BY <1>1, <2>1 DEF TypeOK
    <2>10. linux_slots' \subseteq (Pids \X (1..clock)) \X Slots
      BY <1>1, <2>1, <2>3 DEF TypeOK
    <2>11. TypeOK'
      BY <1>1, <2>1, <2>2, <2>7, <2>8, <2>10 DEF TypeOK
    <2>12. /\ Observed.argv = [pid |-> Observed.pid, start |-> Observed.start]
           /\ <<<<Observed.pid, Observed.start>>, sl>> \in linux_slots'
           /\ <<Observed.pid, Observed.start>> \in alive'
           /\ \E i \in 1..Len(records') : Reports(records'[i], ob, sl, Observed)
      <3>1. Reports(records[pos], ob, sl, Observed)
        BY <1>1, <2>3 DEF Reports, Observed, Event
      <3>2. /\ Observed.argv = [pid |-> Observed.pid, start |-> Observed.start]
            /\ <<Observed.pid, Observed.start>> = <<Event.pid, before>>
        BY <2>5 DEF Observed
      <3>3. QED
        BY <1>1, <2>1, <2>3, <3>1, <3>2
    <2>13. EffectsAreBacked'
      <3> SUFFICES ASSUME NEW o \in Obligations, NEW s \in Targets[o], effects'[o][s] # NoEffect
                   PROVE  Backed(o, s, effects[o][s])'
        BY <2>1 DEF EffectsAreBacked
      <3>1. CASE o = ob /\ s = sl
        BY <3>1, <2>9, <2>12 DEF Backed, Reports
      <3>2. CASE ~(o = ob /\ s = sl)
        BY <3>2, <2>1, <2>9 DEF ObservationInv, EffectsAreBacked, Backed
      <3>3. QED  BY <3>1, <3>2
    <2>14. SlotsAreFunctional'
      BY <1>1, <2>1 DEF SlotIsFree, ObservationInv, SlotsAreFunctional
    <2>15. QED
      BY <1>1, <2>1, <2>11, <2>13, <2>14 DEF ObservationInv, ReadsInOrder, AliveIsKnown, Identity,
                                             RecordsAreRead
  <1>4. QED  BY <1>2, <1>3

\* The end of the records.
LEMMA ConcludeInv == ObservationInv /\ Conclude => ObservationInv'
  <1> SUFFICES ASSUME ObservationInv, Conclude PROVE ObservationInv'
    OBVIOUS
  <1>1. Events' = Events /\ Argvs' = Argvs /\ Seen' = Seen
    BY SameTypes DEF Conclude, host
  <1>2. TypeOK'
    BY <1>1 DEF ObservationInv, TypeOK, Conclude, host
  <1>3. QED
    BY <1>2, WalkInv DEF Conclude, ReadsInOrder

\* The invariant holds whatever the host does between the observer's reads.
THEOREM ObservationInvariant == Spec => []ObservationInv
  <1>1. ObservationInv /\ [Next]_vars => ObservationInv'
    <2> SUFFICES ASSUME ObservationInv, [Next]_vars PROVE ObservationInv'
      OBVIOUS
    <2>1. CASE Observe
      BY <2>1, ReadInv, NextEventInv, FirstReadsInv, ReadAfterInv, ConcludeInv DEF Observe
    <2>2. CASE \E p \in Pids : Exit(p) \/ \E e \in Epochs : Spawn(p, e)
      BY <2>2, ExitInv, SpawnInv
    <2>3. CASE \/ \E p \in Pids, o \in Obligations, s \in Slots : Emit(p, o, s)
               \/ \E k \in Kind \ {"invoked"} : EmitOther(k)
      BY <2>3, EmitInv
    <2>4. CASE UNCHANGED vars
      <3>1. Events' = Events /\ Argvs' = Argvs /\ Seen' = Seen /\ Event' = Event
        BY <2>4, SameTypes DEF vars, Event
      <3>2. TypeOK' /\ ReadsInOrder'
        BY <2>4, <3>1 DEF vars, ObservationInv, TypeOK, ReadsInOrder
      <3>3. AliveIsKnown' /\ RecordsAreRead' /\ SlotsAreFunctional'
        BY <2>4 DEF vars, ObservationInv, AliveIsKnown, RecordsAreRead, SlotsAreFunctional, Identity
      <3>4. EffectsAreBacked'
        <4>1. EffectsAreBacked
          BY DEF ObservationInv
        <4>2. UNCHANGED <<at, pos, effects, linux_slots, alive, records>>
          BY <2>4 DEF vars
        <4>3. QED  BY <4>1, <4>2 DEF EffectsAreBacked, Backed, Reports, Unseen
      <3>5. QED  BY <3>2, <3>3, <3>4 DEF ObservationInv
    <2>5. QED  BY <2>1, <2>2, <2>3, <2>4 DEF Next
  <1>2. QED  BY <1>1, InitInv, PTL DEF Spec


\* observe_bound_invocations: complete coverage means that every required slot had a process that
\* was alive after the journals were read and reported the invocation itself.
THEOREM CoverageWitnessed == Spec => []CoverageIsWitnessed
  <1>1. ObservationInv => CoverageIsWitnessed
    <2> SUFFICES ASSUME ObservationInv, CompleteCoverage, NEW o \in Obligations,
                        NEW s \in Targets[o]
                 PROVE  LET x == Effect(o, s)
                        IN  /\ <<x.pid, x.start>> \in alive
                            /\ \E i \in 1..Len(journal) : Reports(journal[i], o, s, x)
      BY DEF CoverageIsWitnessed, Reports
    <2>1. Backed(o, s, Effect(o, s)) /\ records = journal
      BY DEF CompleteCoverage, ObservationInv, EffectsAreBacked, RecordsAreRead, Effect
    <2>2. QED  BY <2>1 DEF Backed
  <1>2. QED  BY <1>1, ObservationInvariant, PTL

\* observe_bound_invocations: no process covers two slots.
THEOREM ProcessHasOneSlot == Spec => []OneSlotPerProcess
  <1>1. ObservationInv => OneSlotPerProcess
    <2> SUFFICES ASSUME ObservationInv, NEW o1 \in Obligations, NEW o2 \in Obligations,
                        NEW s1 \in Targets[o1], NEW s2 \in Targets[o2],
                        Effect(o1, s1) # NoEffect, Effect(o2, s2) # NoEffect,
                        Effect(o1, s1).pid = Effect(o2, s2).pid,
                        Effect(o1, s1).start = Effect(o2, s2).start
                 PROVE  s1 = s2
      BY DEF OneSlotPerProcess
    <2>1. /\ <<<<Effect(o1, s1).pid, Effect(o1, s1).start>>, s1>> \in linux_slots
          /\ <<<<Effect(o2, s2).pid, Effect(o2, s2).start>>, s2>> \in linux_slots
      BY DEF ObservationInv, EffectsAreBacked, Backed, Effect
    <2>2. QED  BY <2>1 DEF ObservationInv, SlotsAreFunctional
  <1>2. QED  BY <1>1, ObservationInvariant, PTL

\* read_linux_process_identity: the command line that was recorded is the process's own.
THEOREM ArgvBelongs == Spec => []ArgvIsItsOwn
  <1>1. ObservationInv => ArgvIsItsOwn
    BY DEF ObservationInv, EffectsAreBacked, Backed, ArgvIsItsOwn, Effect
  <1>2. QED  BY <1>1, ObservationInvariant, PTL

-----------------------------------------------------------------------------
(* The process group that the manager owns. *)

AfterReap == {"survivors", "drain", "return", "done"}

\* The child before it is started and after it was reaped.
ChildIsWhere ==
    /\ pc = "popen" => life[Child] = "unborn"
    /\ pc \in AfterReap => life[Child] = "gone"
    /\ result # "none" => pc = "done"

\* While no signal was received, none was sent to the child.
Undisturbed ==
    received = <<>> =>
        /\ life[Child] \in {"unborn", "alive"} => mark[Child] = "none"
        /\ life[Child] \in {"zombie", "gone"} => cause = "own"

\* formal-run stays in its first wait until a signal comes; supervise and formal-run do not
\* enter each other's steps.
EntryIsKept ==
    /\ entry = "formal-run" /\ pc \in {"popen", "started", "formal.wait"} => received = <<>>
    /\ pc \in {"formal.term", "formal.grace", "formal.kill"} => received # <<>>
    /\ pc \in {"replay", "wait", "survivors", "drain", "return"} => entry = "run"
    /\ pc \in {"formal.wait", "formal.term", "formal.grace", "formal.kill"} =>
          entry = "formal-run"

\* What is left of the group when supervise is about to return.
LeftIsKilled ==
    pc \in {"return", "done"} /\ entry = "run" =>
        \A m \in Members : life[m] = "alive" => mark[m] = "kill"

SupervisionInv ==
    SupervisionTypeOK /\ ChildIsWhere /\ Undisturbed /\ EntryIsKept /\ LeftIsKilled /\ ExitIsItsOwn

-----------------------------------------------------------------------------
\* What killpg does to the marks.
LEMMA MarkedType ==
    ASSUME SupervisionTypeOK, NEW level \in {"none", "term", "kill"}
    PROVE  /\ Marked(level) \in [Members -> {"none", "term", "kill"}]
           /\ \A m \in Members : life[m] # "alive" => Marked(level)[m] = mark[m]
           /\ \A m \in Members : mark[m] = "kill" => Marked(level)[m] = "kill"
           /\ level = "kill" => \A m \in Members : life[m] = "alive" => Marked(level)[m] = "kill"
  BY DEF SupervisionTypeOK, Marked

\* Nothing runs at first.
LEMMA SupervisionInitInv == SupervisionInit => SupervisionInv
  <1> SUFFICES ASSUME SupervisionInit PROVE SupervisionInv
    OBVIOUS
  <1>1. received = <<>> /\ received \in Seq({"term", "hup"}) /\ Len(received) = 0
    BY DEF SupervisionInit
  <1>2. SupervisionTypeOK
    <2>1. Len(received) <= MaxSignals
      BY <1>1, MaxSignalsAssumption
    <2>2. /\ life \in [Members -> {"unborn", "alive", "zombie", "gone"}]
          /\ mark \in [Members -> {"none", "term", "kill"}]
      BY DEF SupervisionInit
    <2>3. QED  BY <1>1, <2>1, <2>2 DEF SupervisionInit, SupervisionTypeOK
  <1>3. QED
    BY <1>1, <1>2 DEF SupervisionInit, SupervisionInv, ChildIsWhere, Undisturbed, EntryIsKept,
                      LeftIsKilled, ExitIsItsOwn, AfterReap, Members

\* Processes of the group.
LEMMA TreeInv ==
    ASSUME SupervisionInv,
           (\E m \in Members : MemberExits(m)) \/ (\E w \in Workers : Fork(w))
    PROVE  SupervisionInv'
  <1> USE WorkersAssumption DEF Members
  <1>1. ASSUME NEW m \in Members, MemberExits(m) PROVE SupervisionInv'
    <2>1. SupervisionTypeOK'
      BY <1>1 DEF SupervisionInv, SupervisionTypeOK, MemberExits
    <2>2. QED
      BY <1>1, <2>1 DEF SupervisionInv, SupervisionTypeOK, MemberExits, ChildIsWhere, Undisturbed,
                        EntryIsKept, LeftIsKilled, ExitIsItsOwn, AfterReap
  <1>2. ASSUME NEW w \in Workers, Fork(w) PROVE SupervisionInv'
    <2>1. SupervisionTypeOK'
      BY <1>2 DEF SupervisionInv, SupervisionTypeOK, Fork
    <2>2. QED
      BY <1>2, <2>1 DEF SupervisionInv, SupervisionTypeOK, Fork, ChildIsWhere, Undisturbed,
                        EntryIsKept, LeftIsKilled, ExitIsItsOwn, AfterReap
  <1>3. QED  BY <1>1, <1>2


\* The manager starts the child.
LEMMA StartInv ==
    ASSUME SupervisionInv, RefuseLaunch \/ Popen \/ PopenReturns \/ Replay
    PROVE  SupervisionInv'
  <1> USE DEF Members
  <1>1. CASE RefuseLaunch \/ PopenReturns
    <2>1. SupervisionTypeOK'
      <3>1. CASE RefuseLaunch
        BY <3>1 DEF SupervisionInv, SupervisionTypeOK, RefuseLaunch, tree, Ended
      <3>2. CASE PopenReturns
        BY <3>2 DEF SupervisionInv, SupervisionTypeOK, PopenReturns, tree, Ended
      <3>3. QED  BY <1>1, <3>1, <3>2
    <2>2. QED
      BY <1>1, <2>1 DEF SupervisionInv, SupervisionTypeOK, RefuseLaunch, PopenReturns, tree,
                        ChildIsWhere, Undisturbed, EntryIsKept, LeftIsKilled,
                        ExitIsItsOwn, AfterReap, Ended
  <1>2. CASE Popen
    <2>1. SupervisionTypeOK'
      BY <1>2 DEF SupervisionInv, SupervisionTypeOK, Popen, Ended
    <2>2. QED
      BY <1>2, <2>1 DEF SupervisionInv, SupervisionTypeOK, Popen, ChildIsWhere, Undisturbed,
                        EntryIsKept, LeftIsKilled, ExitIsItsOwn, AfterReap
  <1>3. CASE Replay
    <2>1. mark' \in [Members -> {"none", "term", "kill"}] /\ (received = <<>> => mark' = mark)
      BY <1>3, MarkedType DEF SupervisionInv, SupervisionTypeOK, Replay, SignalTree
    <2>2. SupervisionTypeOK'
      BY <1>3, <2>1 DEF SupervisionInv, SupervisionTypeOK, Replay, Ended
    <2>3. QED
      BY <1>3, <2>1, <2>2 DEF SupervisionInv, SupervisionTypeOK, Replay, ChildIsWhere,
                              Undisturbed, EntryIsKept, LeftIsKilled, ExitIsItsOwn, AfterReap
  <1>4. QED  BY <1>1, <1>2, <1>3

\* The steps of supervise.
LEMMA SuperviseInv ==
    ASSUME SupervisionInv, WaitReap \/ WaitTimeout \/ Survivors \/ Drain \/ Return
    PROVE  SupervisionInv'
  <1> USE DEF Members
  <1>1. CASE WaitReap
    <2>1. SupervisionTypeOK'
      BY <1>1 DEF SupervisionInv, SupervisionTypeOK, WaitReap, Reap, Ended
    <2>2. QED
      BY <1>1, <2>1 DEF SupervisionInv, SupervisionTypeOK, WaitReap, Reap, ChildIsWhere,
                        Undisturbed, EntryIsKept, LeftIsKilled, ExitIsItsOwn, AfterReap
  <1>2. CASE WaitTimeout
    <2>1. mark' \in [Members -> {"none", "term", "kill"}]
      BY <1>2, MarkedType DEF SupervisionInv, SupervisionTypeOK, WaitTimeout, SignalTree
    <2>2. SupervisionTypeOK'
      BY <1>2, <2>1 DEF SupervisionInv, SupervisionTypeOK, WaitTimeout, Ended
    <2>3. QED
      BY <1>2, <2>2 DEF SupervisionInv, WaitTimeout, ChildIsWhere, Undisturbed, EntryIsKept,
                        LeftIsKilled, ExitIsItsOwn, AfterReap
  <1>3. CASE Survivors \/ Drain
    <2>1. /\ mark' \in [Members -> {"none", "term", "kill"}] /\ mark'[Child] = mark[Child]
          /\ life[Child] = "gone" /\ life' = life
      BY <1>3, MarkedType DEF SupervisionInv, SupervisionTypeOK, Survivors, Drain, SignalTree,
                              ChildIsWhere, AfterReap
    <2>2. SupervisionTypeOK'
      BY <1>3, <2>1 DEF SupervisionInv, SupervisionTypeOK, Survivors, Drain, Ended
    <2>3. pc' = "return" => \A m \in Members : life[m] = "alive" => mark'[m] = "kill"
      BY <1>3, MarkedType DEF SupervisionInv, Survivors, Drain, SignalTree, Exists
    <2>4. QED
      BY <1>3, <2>1, <2>2, <2>3 DEF SupervisionInv, Survivors, Drain, ChildIsWhere, Undisturbed,
                                    EntryIsKept, LeftIsKilled, ExitIsItsOwn, AfterReap
  <1>4. CASE Return
    <2>1. SupervisionTypeOK'
      BY <1>4 DEF SupervisionInv, SupervisionTypeOK, Return, tree, Ended
    <2>2. QED
      BY <1>4, <2>1 DEF SupervisionInv, Return, tree, ChildIsWhere, Undisturbed, EntryIsKept,
                        LeftIsKilled, ExitIsItsOwn, AfterReap
  <1>5. QED  BY <1>1, <1>2, <1>3, <1>4

\* The steps of launch_managed.
LEMMA FormalInv ==
    ASSUME SupervisionInv, FormalWait \/ FormalTerminate \/ FormalKill \/ FormalReap
    PROVE  SupervisionInv'
  <1> USE DEF Members
  <1>1. CASE FormalWait \/ FormalReap
    <2>1. SupervisionTypeOK'
      BY <1>1 DEF SupervisionInv, SupervisionTypeOK, FormalWait, FormalReap, Reap, Ended
    <2>2. QED
      BY <1>1, <2>1 DEF SupervisionInv, SupervisionTypeOK, FormalWait, FormalReap, Reap,
                        ChildIsWhere, Undisturbed, EntryIsKept, LeftIsKilled,
                        ExitIsItsOwn, AfterReap
  <1>2. CASE FormalTerminate \/ FormalKill
    <2>1. mark' \in [Members -> {"none", "term", "kill"}]
      BY <1>2, MarkedType DEF SupervisionInv, FormalTerminate, FormalKill, SignalTree
    <2>2. SupervisionTypeOK'
      BY <1>2, <2>1 DEF SupervisionInv, SupervisionTypeOK, FormalTerminate, FormalKill, Ended
    <2>3. QED
      BY <1>2, <2>2 DEF SupervisionInv, FormalTerminate, FormalKill, ChildIsWhere, Undisturbed,
                        EntryIsKept, LeftIsKilled, ExitIsItsOwn, AfterReap
  <1>3. QED  BY <1>1, <1>2

\* A signal, anywhere.
LEMMA SignalInv == SupervisionInv /\ Signal => SupervisionInv'
  <1> SUFFICES ASSUME SupervisionInv, Signal PROVE SupervisionInv'
    OBVIOUS
  <1> USE MaxSignalsAssumption DEF Members
  <1>1. /\ received' \in Seq({"term", "hup"}) /\ received' # <<>> /\ Len(received') <= MaxSignals
        /\ pc \notin Ended
    <2>1. /\ received' = Append(received, "term") \/ received' = Append(received, "hup")
          /\ Len(received) < MaxSignals /\ pc \notin Ended
      BY DEF Signal, Forward, Interrupt, Die
    <2>2. received \in Seq({"term", "hup"})
      BY DEF SupervisionInv, SupervisionTypeOK
    <2>3. QED  BY <2>1, <2>2
  <1>2. CASE entry = "run" /\ Forward
    <2>1. /\ mark' \in [Members -> {"none", "term", "kill"}]
          /\ \A m \in Members : mark[m] = "kill" => mark'[m] = "kill"
      BY <1>2, MarkedType DEF SupervisionInv, SupervisionTypeOK, Forward, SignalTree
    <2>2. SupervisionTypeOK'
      BY <1>1, <1>2, <2>1 DEF SupervisionInv, SupervisionTypeOK, Forward
    <2>3. QED
      BY <1>1, <1>2, <2>1, <2>2 DEF SupervisionInv, Forward, ChildIsWhere, Undisturbed,
                                    EntryIsKept, LeftIsKilled, ExitIsItsOwn, AfterReap, Ended
  <1>3. CASE entry = "formal-run" /\ (Interrupt \/ Die)
    <2>1. pc' \in {"formal.term", "raised", "died"} /\ (pc' = "formal.term" => pc = "formal.wait")
      BY <1>3 DEF Interrupt, Die
    <2>2. SupervisionTypeOK'
      BY <1>1, <1>3, <2>1 DEF SupervisionInv, SupervisionTypeOK, Interrupt, Die, tree, Ended
    <2>3. QED
      BY <1>1, <1>3, <2>1, <2>2 DEF SupervisionInv, Interrupt, Die, tree, ChildIsWhere, Ended,
             Undisturbed, EntryIsKept, LeftIsKilled, ExitIsItsOwn, AfterReap
  <1>4. QED  BY <1>2, <1>3 DEF Signal

\* The invariant holds wherever signals, exits and forks fall.
THEOREM SupervisionInvariant == SupervisionSpec => []SupervisionInv
  <1>1. SupervisionInv /\ [SupervisionNext]_supervision_vars => SupervisionInv'
    <2> SUFFICES ASSUME SupervisionInv, [SupervisionNext]_supervision_vars PROVE SupervisionInv'
      OBVIOUS
    <2>1. CASE GraceEnds \/ LimitEnds \/ UNCHANGED supervision_vars
      <3>1. SupervisionTypeOK'
        BY <2>1 DEF SupervisionInv, SupervisionTypeOK, GraceEnds, LimitEnds, tree, supervision_vars
      <3>2. QED
        BY <2>1, <3>1 DEF SupervisionInv, GraceEnds, LimitEnds, tree, supervision_vars,
               ChildIsWhere, Undisturbed, EntryIsKept, LeftIsKilled, ExitIsItsOwn
    <2>2. QED
      BY <2>1, TreeInv, StartInv, SuperviseInv, FormalInv, SignalInv DEF SupervisionNext, Manage
  <1>2. QED  BY <1>1, SupervisionInitInv, PTL DEF SupervisionSpec

\* supervise and launch_managed reap the child, and supervise leaves no descendant that was not
\* sent SIGKILL.
THEOREM TreeEnded == SupervisionSpec => []TreeIsEnded
  <1>1. SupervisionInv => TreeIsEnded
    BY DEF SupervisionInv, TreeIsEnded, ChildIsWhere, LeftIsKilled, AfterReap, Members
  <1>2. QED  BY <1>1, SupervisionInvariant, PTL

\* The code that the manager passes on is that of a child that ended by itself.
THEOREM ExitBelongs == SupervisionSpec => []ExitIsItsOwn
  <1>1. SupervisionInv => ExitIsItsOwn
    BY DEF SupervisionInv
  <1>2. QED  BY <1>1, SupervisionInvariant, PTL

=============================================================================
