----------------------------- MODULE Quarantine -----------------------------
(***************************************************************************)
(* Quarantine transactions: a lifecycle source moves a worker's event      *)
(* journal out of the event directory, and the runner accepts the move     *)
(* (finalizes it) or a later source undoes it.  Every transaction leaves   *)
(* record files in the quarantine directory; a fence file in the event     *)
(* directory keeps the worker from recreating the journal.  A kernel lock  *)
(* (lease) excludes sources, finalizing runners and appending workers from *)
(* each other; it vanishes with its holder.                                *)
(*                                                                         *)
(* The model has the journal of the one target worker.  Records and fences *)
(* are published by renaming a synced temporary file, so each of them is   *)
(* written in one step; a temporary file left by a kill is never read and  *)
(* is removed by the next reconciliation.                                  *)
(***************************************************************************)
EXTENDS Naturals, Sequences, FiniteSets

CONSTANTS
    Tx,           \* transactions, ordered as their record names sort
    MaxRecords,   \* bound on the appends to one journal file
    MaxKills,     \* bound on processes killed
    MaxFaults,    \* bound on I/O errors that a call raises, torn appends included
    MaxForeign    \* bound on interventions that ignore lock and fence

ASSUME QuarantineAssumption ==
    /\ Tx \subseteq Nat \ {0}
    /\ {MaxRecords, MaxKills, MaxFaults, MaxForeign} \subseteq Nat

\* A source process that finds no target evidence and so makes no transaction.
Other == 0

Sources == Tx \cup {Other}

VARIABLES
    source,       \* the journal in the event directory
    quarantine,   \* the journal in the quarantine directory
    fence,        \* {} or the transaction of the fence file
    record,       \* the record files of each transaction
    lease,        \* {} or the holder of the exclusive lock
    pc,           \* where each source process stands
    todo,         \* intents that the reconciliation has still to look at
    ack,          \* transactions whose source got its applied record back
    runner,       \* what the runner has done about each transaction
    inodes, kills, faults, foreign

files == <<source, quarantine, fence, record>>
bounds == <<kills, faults, foreign>>
vars == <<source, quarantine, fence, record, lease, pc, todo, ack, runner, inodes,
          kills, faults, foreign>>

-----------------------------------------------------------------------------
(* Journals: an inode and what was appended, whole events or parts of one.   *)

Missing == [inode |-> 0, content |-> <<>>]

Exists(file) == file # Missing

\* snapshot_journal and quarantine_journal refuse a partial last record.
Readable(file) ==
    /\ Exists(file)
    /\ file.content # <<>> => file.content[Len(file.content)] = "event"

\* read_events parses every line.
Parses(file) == \A i \in 1..Len(file.content) : file.content[i] = "event"

HasEvents(file) == Exists(file) /\ file.content # <<>>

SameAppendOnlyJournal(current, snapshot) ==
    /\ current.inode = snapshot.inode
    /\ Len(snapshot.content) <= Len(current.content)
    /\ SubSeq(current.content, 1, Len(snapshot.content)) = snapshot.content

-----------------------------------------------------------------------------
(* Records. *)

NoRecord == [intent |-> Missing, applied |-> FALSE, finalized |-> FALSE,
             restored |-> "none", blocked |-> FALSE]

Intent(t) == Exists(record[t].intent)

Restored(t) == record[t].restored # "none"

\* Faulty: the runner's verdict is overlooked.
UnresolvedUnlessUndone(t) == Intent(t) /\ ~Restored(t) /\ ~record[t].blocked

Unresolved(t) ==
    Intent(t) /\ ~record[t].finalized /\ ~Restored(t) /\ ~record[t].blocked

\* The applied digest that a terminal record has to name.
AppliedDigest(t) == IF record[t].applied THEN "applied" ELSE "unapplied"

Write(t, stage, value) == record' = [record EXCEPT ![t][stage] = value]

-----------------------------------------------------------------------------
(* Processes. *)

Goto(p, label) == pc' = [pc EXCEPT ![p] = label]

Aborting(p) == p \in Tx /\ Intent(p)

\* The process ends, or the exception leaves the block that holds the lease.
Leave(p, label) == Goto(p, label) /\ lease' = {}

\* A source that fails before its intent leaves no trace of its transaction.
Exit(p) == Leave(p, IF Aborting(p) THEN "failed" ELSE "idle")

Fault == faults < MaxFaults /\ faults' = faults + 1 /\ UNCHANGED <<kills, foreign>>

Init ==
    /\ source = Missing /\ quarantine = Missing /\ fence = {}
    /\ record = [t \in Tx |-> NoRecord]
    /\ lease = {} /\ pc = [p \in Sources |-> "idle"] /\ todo = {} /\ ack = {}
    /\ runner = [t \in Tx |-> "waiting"]
    /\ inodes = 0 /\ kills = 0 /\ faults = 0 /\ foreign = 0

-----------------------------------------------------------------------------
(* The worker: append_event waits for the lock and refuses a fenced journal.  *)

Extended(part) ==
    IF Exists(source) THEN [source EXCEPT !.content = @ \o part]
    ELSE [inode |-> inodes + 1, content |-> part]

\* Faulty: the fence is not looked at.
AppendPartUnfenced(part) ==
    /\ lease = {}
    /\ Len(source.content) < MaxRecords
    /\ source' = Extended(part)
    /\ inodes' = IF Exists(source) THEN inodes ELSE inodes + 1
    /\ UNCHANGED <<quarantine, fence, record, lease, pc, todo, ack, runner>>

AppendPart(part) ==
    /\ lease = {} /\ fence = {}
    /\ Len(source.content) < MaxRecords
    /\ source' = Extended(part)
    /\ inodes' = IF Exists(source) THEN inodes ELSE inodes + 1
    /\ UNCHANGED <<quarantine, fence, record, lease, pc, todo, ack, runner>>

AppendEvent == AppendPart(<<"event">>) /\ UNCHANGED bounds

\* The worker dies, or the write fails, after opening the file.
AppendTorn == (AppendPart(<<"part">>) \/ AppendPart(<<>>)) /\ Fault

\* Someone who knows neither lock nor fence removes a journal or creates one.
Intervene ==
    /\ foreign < MaxForeign /\ foreign' = foreign + 1
    /\ \/ source' = Missing /\ UNCHANGED <<quarantine, inodes>>
       \/ quarantine' = Missing /\ UNCHANGED <<source, inodes>>
       \/ /\ ~Exists(source)
          /\ source' = [inode |-> inodes + 1, content |-> <<"event">>]
          /\ inodes' = inodes + 1 /\ UNCHANGED quarantine
    /\ UNCHANGED <<fence, record, lease, pc, todo, ack, runner, kills, faults>>

-----------------------------------------------------------------------------
(* Moving the journal: renameat2 with RENAME_NOREPLACE.  An error after the   *)
(* rename is answered by renaming back, so a move that raises has done        *)
(* nothing; a second error while renaming back is not modelled.               *)

\* Faulty: a rename that replaces its target.
MoveOver(from, to, expected) == Readable(from) /\ from = expected

Renamable(to) == ~Exists(to)

Movable(from, to, expected) == Renamable(to) /\ Readable(from) /\ from = expected

MoveToQuarantine == quarantine' = source /\ source' = Missing

MoveToSource == source' = quarantine /\ quarantine' = Missing

-----------------------------------------------------------------------------
(* Reconciliation, at the start of every source and when a proposal aborts:   *)
(* the intents in the order of their names, stopping at the first exception.  *)

Begin(p) ==
    /\ lease = {} /\ lease' = {p}
    /\ todo' = {t \in Tx : Intent(t)}
    /\ Goto(p, "reconcile")
    /\ UNCHANGED <<files, ack, runner, inodes, bounds>>

Start(p) == pc[p] = "idle" /\ (p \in Tx => ~Intent(p)) /\ Begin(p)

Abort(p) == pc[p] = "abort" /\ Begin(p)

\* Someone else holds the lock: another source, a runner or a worker.
AbortBusy(p) ==
    /\ pc[p] = "abort" /\ Goto(p, "failed")
    /\ UNCHANGED <<files, lease, todo, ack, runner, inodes, bounds>>

Current == CHOOSE t \in todo : \A u \in todo : t <= u

Reconciling(p, t) == pc[p] = "reconcile" /\ todo # {} /\ t = Current

\* A finalized transaction is as the runner accepted it.
FinalizedHolds(t) ==
    /\ record[t].finalized /\ ~Restored(t) /\ ~record[t].blocked
    /\ record[t].applied
    /\ Readable(quarantine) /\ quarantine = record[t].intent
    /\ fence = {t}

RestoredHolds(t) ==
    /\ Restored(t) /\ ~record[t].finalized /\ ~record[t].blocked
    /\ record[t].restored = AppliedDigest(t)
    /\ fence = {} /\ ~Exists(quarantine)
    /\ Readable(source) /\ SameAppendOnlyJournal(source, record[t].intent)

Acceptable(t) == (FinalizedHolds(t) /\ ~Exists(source)) \/ RestoredHolds(t)

\* Faulty: a journal that was moved without an applied record is not recognised.
MoveRemnantIfApplied(t) ==
    /\ Unresolved(t) /\ record[t].applied
    /\ ~Exists(source) /\ Exists(quarantine) /\ fence = {t}

\* What is left of an unresolved transaction, and can be undone.
MoveRemnant(t) == Unresolved(t) /\ ~Exists(source) /\ Exists(quarantine) /\ fence = {t}

SourceRemnant(t) ==
    Unresolved(t) /\ Readable(source) /\ ~Exists(quarantine)

Ambiguous(t) ==
    \/ FinalizedHolds(t) /\ Exists(source)
    \/ Unresolved(t) /\ Exists(source) = Exists(quarantine)
    \/ SourceRemnant(t) /\ ~SameAppendOnlyJournal(source, record[t].intent)
    \/ MoveRemnant(t) /\ ~Movable(quarantine, source, record[t].intent)

ReconcileAccept(p, t) ==
    /\ Reconciling(p, t) /\ Acceptable(t)
    /\ todo' = todo \ {t}
    /\ UNCHANGED <<files, lease, pc, ack, runner, inodes, bounds>>

\* An ambiguity is recorded, and so is a restore that fails.
ReconcileBlock(p, t) ==
    /\ Reconciling(p, t)
    /\ \/ Ambiguous(t) /\ UNCHANGED bounds
       \/ MoveRemnant(t) /\ ~Ambiguous(t) /\ Fault
    /\ Write(t, "blocked", TRUE)
    /\ Exit(p)
    /\ UNCHANGED <<source, quarantine, fence, todo, ack, runner, inodes>>

\* Conflicting or inconsistent records, a fence that is missing or another's, a
\* partial journal, or a blocked transaction.
ReconcileRefuse(p, t) ==
    /\ Reconciling(p, t)
    /\ ~Acceptable(t) /\ ~Ambiguous(t) /\ ~MoveRemnant(t) /\ ~SourceRemnant(t)
    /\ Exit(p)
    /\ UNCHANGED <<files, todo, ack, runner, inodes, bounds>>

\* Faulty: the fence of a restored journal stays.
ReconcileRestoreFenced(p, t) ==
    /\ Reconciling(p, t) /\ ~Ambiguous(t)
    /\ \/ MoveRemnant(t) /\ MoveToSource
       \/ SourceRemnant(t) /\ UNCHANGED <<source, quarantine>>
    /\ Goto(p, "reconcile.record")
    /\ UNCHANGED <<fence, record, lease, todo, ack, runner, inodes, bounds>>

ReconcileRestore(p, t) ==
    /\ Reconciling(p, t) /\ ~Ambiguous(t)
    /\ \/ MoveRemnant(t) /\ MoveToSource
       \/ SourceRemnant(t) /\ UNCHANGED <<source, quarantine>>
    /\ Goto(p, "reconcile.fence")
    /\ UNCHANGED <<fence, record, lease, todo, ack, runner, inodes, bounds>>

ReconcileFence(p) ==
    /\ pc[p] = "reconcile.fence"
    /\ IF fence \subseteq {Current}
       THEN fence' = {} /\ Goto(p, "reconcile.record") /\ UNCHANGED lease
       ELSE Exit(p) /\ UNCHANGED fence
    /\ UNCHANGED <<source, quarantine, record, todo, ack, runner, inodes, bounds>>

ReconcileRecord(p) ==
    /\ pc[p] = "reconcile.record"
    /\ Write(Current, "restored", AppliedDigest(Current))
    /\ todo' = todo \ {Current}
    /\ Goto(p, "reconcile")
    /\ UNCHANGED <<source, quarantine, fence, lease, ack, runner, inodes, bounds>>

ReconcileDone(p) ==
    /\ pc[p] = "reconcile" /\ todo = {}
    /\ IF Aborting(p) THEN Leave(p, "failed") ELSE Goto(p, "prepare") /\ UNCHANGED lease
    /\ UNCHANGED <<files, todo, ack, runner, inodes, bounds>>

-----------------------------------------------------------------------------
(* The source: prepare under the lease, propose without it, and after the     *)
(* runner's commit take it again to fence, move and record.                   *)

\* The intent keeps the journal as it was.
WriteIntent(t) == Write(t, "intent", source)

Prepare(t) ==
    /\ pc[t] = "prepare" /\ HasEvents(source) /\ Parses(source)
    /\ WriteIntent(t)
    /\ Leave(t, "proposed")
    /\ UNCHANGED <<source, quarantine, fence, todo, ack, runner, inodes, bounds>>

\* No effect of the target worker, none of a peer, or an unreadable journal.
NothingToPrepare(p) ==
    /\ pc[p] = "prepare" /\ (p = Other \/ ~HasEvents(source) \/ ~Parses(source))
    /\ Exit(p)
    /\ UNCHANGED <<files, todo, ack, runner, inodes, bounds>>

\* The runner answers the proposal, or the channel closes, or the lock is busy.
CommitStart(t) ==
    /\ pc[t] = "proposed" /\ runner[t] = "committed"
    /\ lease = {} /\ lease' = {t}
    /\ Goto(t, "commit.check")
    /\ UNCHANGED <<files, todo, ack, runner, inodes, bounds>>

CommitRefused(t) ==
    /\ pc[t] = "proposed" /\ runner[t] # "waiting"
    /\ Goto(t, "abort")
    /\ UNCHANGED <<files, lease, todo, ack, runner, inodes, bounds>>

CommitCheck(t) ==
    /\ pc[t] = "commit.check"
    /\ IF Unresolved(t) /\ ~record[t].applied /\ Readable(source)
          /\ source = record[t].intent
       THEN Goto(t, "commit.fence") /\ UNCHANGED lease
       ELSE Leave(t, "abort")
    /\ UNCHANGED <<files, todo, ack, runner, inodes, bounds>>

\* An error may come before or after the fence is published; in both cases the
\* source does not know of it.
CommitFence(t) ==
    /\ pc[t] = "commit.fence"
    /\ \/ /\ fence \subseteq {t} /\ fence' = {t}
          /\ Goto(t, "commit.move") /\ UNCHANGED <<lease, bounds>>
       \/ ~(fence \subseteq {t}) /\ Leave(t, "abort") /\ UNCHANGED <<fence, bounds>>
       \/ fence \subseteq {t} /\ fence' \in {fence, {t}} /\ Leave(t, "abort") /\ Fault
    /\ UNCHANGED <<source, quarantine, record, todo, ack, runner, inodes>>

CommitMove(t) ==
    /\ pc[t] = "commit.move"
    /\ \/ /\ Movable(source, quarantine, record[t].intent) /\ MoveToQuarantine
          /\ Goto(t, "commit.applied") /\ UNCHANGED bounds
       \/ /\ \/ ~Movable(source, quarantine, record[t].intent) /\ UNCHANGED bounds
             \/ Movable(source, quarantine, record[t].intent) /\ Fault
          /\ Goto(t, "undo.unfence") /\ UNCHANGED <<source, quarantine>>
    /\ UNCHANGED <<fence, record, lease, todo, ack, runner, inodes>>

CommitApplied(t) ==
    /\ pc[t] = "commit.applied"
    /\ \/ /\ Write(t, "applied", TRUE) /\ ack' = ack \cup {t}
          /\ Goto(t, "commit.verify") /\ UNCHANGED bounds
       \/ /\ Write(t, "applied", TRUE) \/ UNCHANGED record
          /\ Goto(t, "undo.restore") /\ UNCHANGED ack /\ Fault
    /\ UNCHANGED <<source, quarantine, fence, lease, todo, runner, inodes>>

\* The remaining evidence is as expected and the audit record is printed.
CommitVerified(t) ==
    /\ pc[t] = "commit.verify" /\ ~HasEvents(source)
    /\ Leave(t, "done")
    /\ UNCHANGED <<files, todo, ack, runner, inodes, bounds>>

\* Faulty: the fence comes down before the journal is back.
CommitNotVerifiedUnfencing(t) ==
    /\ pc[t] = "commit.verify"
    /\ Goto(t, "undo.unfence")
    /\ UNCHANGED <<files, lease, todo, ack, runner, inodes, bounds>>

\* Evidence of the target is back, that of a peer is gone or unreadable, or the
\* audit record cannot be printed.
CommitNotVerified(t) ==
    /\ pc[t] = "commit.verify"
    /\ Goto(t, "undo.restore")
    /\ UNCHANGED <<files, lease, todo, ack, runner, inodes, bounds>>

\* An error while undoing leaves the rest to the reconciliation of the abort.
UndoRestore(t) ==
    /\ pc[t] = "undo.restore"
    /\ \/ /\ Movable(quarantine, source, record[t].intent) /\ MoveToSource
          /\ Goto(t, "undo.fence") /\ UNCHANGED <<lease, bounds>>
       \/ /\ \/ ~Movable(quarantine, source, record[t].intent) /\ UNCHANGED bounds
             \/ Movable(quarantine, source, record[t].intent) /\ Fault
          /\ Leave(t, "abort") /\ UNCHANGED <<source, quarantine>>
    /\ UNCHANGED <<fence, record, todo, ack, runner, inodes>>

UndoFence(t) ==
    /\ pc[t] \in {"undo.fence", "undo.unfence"}
    /\ \/ /\ fence' = {} /\ UNCHANGED bounds
          /\ IF pc[t] = "undo.fence" THEN Goto(t, "undo.record") /\ UNCHANGED lease
             ELSE Leave(t, "abort")
       \/ Leave(t, "abort") /\ fence' \in {fence, {}} /\ Fault
    /\ UNCHANGED <<source, quarantine, record, todo, ack, runner, inodes>>

UndoRecord(t) ==
    /\ pc[t] = "undo.record"
    /\ LET named == IF t \in ack THEN "applied" ELSE "unapplied" IN
       \/ Write(t, "restored", named) /\ Leave(t, "failed") /\ UNCHANGED bounds
       \/ /\ Write(t, "restored", named) \/ UNCHANGED record
          /\ Leave(t, "abort") /\ Fault
    /\ UNCHANGED <<source, quarantine, fence, todo, ack, runner, inodes>>

-----------------------------------------------------------------------------
(* The runner: commits a proposal, and accepts the transaction of a source    *)
(* that exited normally.                                                      *)

RunnerCommit(t) ==
    /\ pc[t] = "proposed" /\ runner[t] = "waiting"
    /\ runner' = [runner EXCEPT ![t] = "committed"]
    /\ UNCHANGED <<files, lease, pc, todo, ack, inodes, bounds>>

\* A timeout, an invalid receipt, a busy lock, or its death.  What the runner thinks
\* while the source is between the two has no effect.
RunnerReject(t) ==
    /\ pc[t] \in {"proposed", "done"} /\ runner[t] \in {"waiting", "committed"}
    /\ runner' = [runner EXCEPT ![t] = "rejected"]
    /\ UNCHANGED <<files, lease, pc, todo, ack, inodes, bounds>>

Finalizable(t) ==
    /\ Intent(t) /\ record[t].applied /\ ~Restored(t) /\ ~record[t].blocked
    /\ Readable(quarantine) /\ quarantine = record[t].intent
    /\ fence = {t}

\* finalize_quarantine_transaction, under the lease throughout.
Finalize(t) ==
    /\ pc[t] = "done" /\ runner[t] = "committed" /\ lease = {}
    /\ \/ /\ Finalizable(t) /\ ~Exists(source)
          /\ Write(t, "finalized", TRUE)
          /\ runner' = [runner EXCEPT ![t] = "accepted"]
       \/ /\ Finalizable(t) /\ Exists(source)
          /\ Write(t, "blocked", TRUE)
          /\ runner' = [runner EXCEPT ![t] = "rejected"]
       \/ /\ ~Finalizable(t) /\ UNCHANGED record
          /\ runner' = [runner EXCEPT ![t] = "rejected"]
    /\ UNCHANGED <<source, quarantine, fence, lease, pc, todo, ack, inodes, bounds>>

-----------------------------------------------------------------------------
(* A source is killed, by the runner's timeout or otherwise; the kernel drops *)
(* its lock.                                                                  *)

Running(p) == pc[p] \notin {"idle", "done", "failed"}

Kill(p) ==
    /\ Running(p) /\ kills < MaxKills /\ kills' = kills + 1
    /\ Goto(p, IF Aborting(p) THEN "failed" ELSE "idle")
    /\ lease' = lease \ {p}
    /\ UNCHANGED <<files, todo, ack, runner, inodes, faults, foreign>>

Reconcile(p) ==
    \/ \E t \in Tx : \/ ReconcileAccept(p, t) \/ ReconcileBlock(p, t)
                     \/ ReconcileRefuse(p, t) \/ ReconcileRestore(p, t)
    \/ ReconcileFence(p) \/ ReconcileRecord(p) \/ ReconcileDone(p)

Commit(t) ==
    \/ CommitStart(t) \/ CommitRefused(t) \/ CommitCheck(t) \/ CommitFence(t)
    \/ CommitMove(t) \/ CommitApplied(t) \/ CommitVerified(t) \/ CommitNotVerified(t)

Undo(t) == UndoRestore(t) \/ UndoFence(t) \/ UndoRecord(t)

\* What a source does by itself once it runs.
Continue(p) ==
    \/ Reconcile(p) \/ NothingToPrepare(p) \/ Abort(p) \/ AbortBusy(p)
    \/ p \in Tx /\ (Prepare(p) \/ Commit(p) \/ Undo(p))

Next ==
    \/ \E p \in Sources : Start(p) \/ Continue(p) \/ Kill(p)
    \/ \E t \in Tx : RunnerCommit(t) \/ RunnerReject(t) \/ Finalize(t)
    \/ AppendEvent \/ AppendTorn \/ Intervene

Spec == Init /\ [][Next]_vars

\* Some source that can go on does, and sources keep being started, which
\* reconciles.  Nothing is assumed of workers and runners.
FairSpec ==
    /\ Spec /\ WF_vars(\E p \in Sources : Continue(p))
    /\ SF_vars(Start(Other))

-----------------------------------------------------------------------------
(* Properties. *)

Held == {"reconcile", "reconcile.fence", "reconcile.record", "prepare", "commit.check",
         "commit.fence", "commit.move", "commit.applied", "commit.verify",
         "undo.restore", "undo.fence", "undo.unfence", "undo.record"}

Labels == Held \cup {"idle", "proposed", "abort", "done", "failed"}

File == [inode : Nat, content : Seq({"event", "part"})]

RecordType ==
    [intent : File, applied : BOOLEAN, finalized : BOOLEAN,
     restored : {"none", "applied", "unapplied"}, blocked : BOOLEAN]

\* The variables have their types, and exactly the process that holds the lease is
\* in the part of its code that runs under it.
TypeOK ==
    /\ source \in File /\ quarantine \in File
    /\ fence \subseteq Tx /\ record \in [Tx -> RecordType]
    /\ pc \in [Sources -> Labels]
    /\ todo \subseteq Tx /\ ack \subseteq Tx
    /\ runner \in [Tx -> {"waiting", "committed", "accepted", "rejected"}]
    /\ {inodes, kills, faults, foreign} \subseteq Nat
    /\ lease = {p \in Sources : pc[p] \in Held} /\ Cardinality(lease) <= 1

Journals == {f \in {source, quarantine} : Exists(f)}

\* "preserves all bytes": no step of a source, a runner or a worker removes a journal
\* or anything in it, whatever it collides with; a journal only moves or grows.
NothingLost ==
    [][foreign' = foreign =>
          \A f \in Journals : \E g \in Journals' : SameAppendOnlyJournal(g, f)]_vars

\* A journal is in quarantine only behind the fence of the transaction that moved it
\* and has not given it back, so that the worker cannot start a second one.  The fence
\* goes up before the move and comes down after the journal is back, whatever is
\* killed or fails in between.
QuarantinedIsFenced ==
    Exists(quarantine) =>
        \E t \in Tx : fence = {t} /\ quarantine = record[t].intent /\ ~Restored(t)

\* Without interventions the worker's journal is never in two files: the collisions
\* that recovery refuses to decide do not come from the program itself.
OneJournal == foreign = 0 => Cardinality(Journals) <= 1

\* What the runner accepted stays accepted: the exact bytes of the intent stay in
\* quarantine whatever later sources do, until someone takes them away by hand.
AcceptedStays ==
    \A t \in Tx :
        runner[t] = "accepted" => quarantine = record[t].intent \/ foreign > 0

\* A restored transaction is over, although runner, source and later sources decide
\* without each other: it is neither finalized nor blocked, and its fence is gone, so
\* that the worker can write again.
RestoredIsClean ==
    \A t \in Tx : Restored(t) => ~record[t].finalized /\ ~record[t].blocked /\ t \notin fence

\* A transaction whose source or runner died is resolved by later sources, as long as
\* no call raised an I/O error, nobody intervened and no other transaction on the
\* journal was restored before.
RemnantIsResolved ==
    \A t \in Tx :
        Unresolved(t) ~>
            \/ ~Unresolved(t) \/ faults > 0 \/ foreign > 0
            \/ \E u \in Tx \ {t} : Restored(u)
=============================================================================
