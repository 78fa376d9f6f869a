-------------------------- MODULE QuarantineProofs --------------------------
(***************************************************************************)
(* Proofs about the quarantine transactions: for any number of              *)
(* transactions, kills, I/O errors and interventions.                       *)
(***************************************************************************)
EXTENDS Quarantine, TLAPS, FiniteSetTheorems

-----------------------------------------------------------------------------
(* The inductive invariant. *)

\* The source has an intent, and has not yet moved the journal.
BeforeMove == {"proposed", "commit.check", "commit.fence", "commit.move"}

\* The source has found its own transaction unresolved, and holds the lease.
Deciding == {"commit.fence", "commit.move", "commit.applied", "commit.verify",
             "undo.restore", "undo.fence", "undo.unfence", "undo.record"}

Types ==
    /\ source \in File /\ quarantine \in File
    /\ fence \subseteq Tx /\ record \in [Tx -> RecordType]
    /\ pc \in [Sources -> Labels]
    /\ todo \subseteq Tx /\ ack \subseteq Tx
    /\ runner \in [Tx -> {"waiting", "committed", "accepted", "rejected"}]
    /\ inodes \in Nat /\ foreign \in Nat

Exclusion ==
    /\ lease = {p \in Sources : pc[p] \in Held}
    /\ \A p, q \in lease : p = q

\* The transaction behind whose fence the journal lies has passed its move.
Fenced ==
    Exists(quarantine) =>
        \E t \in Tx :
            /\ fence = {t} /\ quarantine = record[t].intent /\ ~Restored(t)
            /\ pc[t] \notin BeforeMove

\* What source t may rely on at each label of its commit and of its undoing.
CommittingAt(t, label) ==
    /\ label = "prepare" => ~Intent(t)
    /\ label \in Deciding => Unresolved(t)
    /\ label \in {"commit.move", "commit.applied", "commit.verify", "undo.restore"}
          => fence = {t}
    /\ label \in {"undo.fence", "undo.unfence", "undo.record"} => ~Exists(quarantine)
    /\ label = "undo.record" => fence = {}

\* What a reconciliation may rely on while it restores a transaction, and that it
\* has every unresolved transaction before it.
ReconcilingAt(label) ==
    /\ label \in {"reconcile.fence", "reconcile.record"} =>
          Current \in Tx /\ Unresolved(Current) /\ ~Exists(quarantine)
    /\ label = "reconcile.record" => fence = {}
    /\ label \in {"reconcile", "reconcile.fence", "reconcile.record"} =>
          \A t \in Tx : Unresolved(t) => t \in todo
    /\ label = "prepare" => \A t \in Tx : ~Unresolved(t)

Standing ==
    /\ \A t \in Tx : CommittingAt(t, pc[t])
    /\ \A p \in Sources : ReconcilingAt(pc[p])

\* However many sources were started, and died, at most one transaction at a time
\* is left for reconciliation to decide.
OneUnresolved == \A t, u \in Tx : Unresolved(t) /\ Unresolved(u) => t = u

Apart == foreign = 0 => ~Exists(source) \/ ~Exists(quarantine)

Accepted ==
    \A t \in Tx :
        runner[t] = "accepted" =>
            /\ record[t].finalized /\ Intent(t)
            /\ foreign = 0 => fence = {t} /\ quarantine = record[t].intent

QuarantineInv ==
    /\ Types /\ Exclusion /\ Fenced /\ Standing /\ OneUnresolved
    /\ RestoredIsClean /\ Apart /\ Accepted

-----------------------------------------------------------------------------
(* Lemmas. *)

\* A name without a file is a value of the file variables too.
LEMMA MissingIsFile == Missing \in File
BY DEF Missing, File

\* Every transaction has a source process.
LEMMA SourcesAre == Tx \subseteq Sources
BY DEF Sources

\* The holder of the lease is alone in the code that runs under it.
LEMMA Alone ==
    ASSUME Exclusion, NEW p \in Sources, pc[p] \in Held
    PROVE  lease = {p} /\ \A q \in Sources \ {p} : pc[q] \notin Held
BY DEF Exclusion

\* While the lock is free nobody is in the code that runs under it.
LEMMA NobodyHolds ==
    ASSUME Exclusion, lease = {}
    PROVE  \A q \in Sources : pc[q] \notin Held
BY DEF Exclusion

\* Going to a label changes where one process stands.
LEMMA Going ==
    ASSUME Types, NEW p \in Sources, NEW label \in Labels, Goto(p, label)
    PROVE  /\ pc' \in [Sources -> Labels] /\ pc'[p] = label
           /\ \A q \in Sources \ {p} : pc'[q] = pc[q]
BY DEF Types, Goto

\* Reconciliation stays with its transaction as long as its list does.
LEMMA SameCurrent ==
    ASSUME todo' = todo
    PROVE  Current' = Current
BY DEF Current

\* Publishing an intent changes one field of one transaction.
LEMMA WroteIntent ==
    ASSUME Types, NEW t \in Tx, NEW v \in File, Write(t, "intent", v)
    PROVE  /\ record' \in [Tx -> RecordType]
           /\ record'[t].intent = v
           /\ \A u \in Tx :
                 /\ record'[u].applied = record[u].applied
                 /\ record'[u].finalized = record[u].finalized
                 /\ record'[u].restored = record[u].restored
                 /\ record'[u].blocked = record[u].blocked
                 /\ u # t => record'[u].intent = record[u].intent
BY DEF Types, Write, RecordType

\* So does the applied record,
LEMMA WroteApplied ==
    ASSUME Types, NEW t \in Tx, Write(t, "applied", TRUE)
    PROVE  /\ record' \in [Tx -> RecordType]
           /\ record'[t].applied = TRUE
           /\ \A u \in Tx :
                 /\ record'[u].intent = record[u].intent
                 /\ record'[u].finalized = record[u].finalized
                 /\ record'[u].restored = record[u].restored
                 /\ record'[u].blocked = record[u].blocked
                 /\ u # t => record'[u].applied = record[u].applied
BY Zenon DEF Types, Write, RecordType

\* the finalized record,
LEMMA WroteFinalized ==
    ASSUME Types, NEW t \in Tx, Write(t, "finalized", TRUE)
    PROVE  /\ record' \in [Tx -> RecordType]
           /\ record'[t].finalized = TRUE
           /\ \A u \in Tx :
                 /\ record'[u].intent = record[u].intent
                 /\ record'[u].applied = record[u].applied
                 /\ record'[u].restored = record[u].restored
                 /\ record'[u].blocked = record[u].blocked
                 /\ u # t => record'[u].finalized = record[u].finalized
BY Zenon DEF Types, Write, RecordType

\* the blocked record,
LEMMA WroteBlocked ==
    ASSUME Types, NEW t \in Tx, Write(t, "blocked", TRUE)
    PROVE  /\ record' \in [Tx -> RecordType]
           /\ record'[t].blocked = TRUE
           /\ \A u \in Tx :
                 /\ record'[u].intent = record[u].intent
                 /\ record'[u].applied = record[u].applied
                 /\ record'[u].finalized = record[u].finalized
                 /\ record'[u].restored = record[u].restored
                 /\ u # t => record'[u].blocked = record[u].blocked
BY Zenon DEF Types, Write, RecordType

\* and the restored record.
LEMMA WroteRestored ==
    ASSUME Types, NEW t \in Tx, NEW v \in {"applied", "unapplied"}, Write(t, "restored", v)
    PROVE  /\ record' \in [Tx -> RecordType]
           /\ record'[t].restored = v
           /\ \A u \in Tx :
                 /\ record'[u].intent = record[u].intent
                 /\ record'[u].applied = record[u].applied
                 /\ record'[u].finalized = record[u].finalized
                 /\ record'[u].blocked = record[u].blocked
                 /\ u # t => record'[u].restored = record[u].restored
BY DEF Types, Write, RecordType

-----------------------------------------------------------------------------
(* Steps that move a process and leave the files alone. *)

\* Labels outside the lease at which nothing is relied on.
Settled == {"idle", "abort", "done", "failed"}

\* The records and journals of an unchanged directory say what they said.
LEMMA SameFiles ==
    ASSUME UNCHANGED files
    PROVE  /\ \A t \in Tx : /\ Unresolved(t)' = Unresolved(t) /\ Intent(t)' = Intent(t)
                            /\ Restored(t)' = Restored(t)
           /\ Exists(source)' = Exists(source) /\ Exists(quarantine)' = Exists(quarantine)
BY DEF files, Unresolved, Intent, Restored, Exists

\* A process that ends, or leaves the code under the lease, disturbs nothing.
LEMMA Settling ==
    ASSUME QuarantineInv, NEW p \in Sources, NEW label \in Settled, Goto(p, label),
           lease' = lease \ {p},
           UNCHANGED <<files, todo, runner, inodes, foreign>>, ack' \subseteq Tx
    PROVE  QuarantineInv'
<1> USE DEF QuarantineInv
<1>1. label \in Labels /\ label \notin Held /\ label \notin BeforeMove /\ label \notin Deciding
  BY DEF Settled, Labels, Held, BeforeMove, Deciding
<1>2. /\ pc' \in [Sources -> Labels] /\ pc'[p] = label
      /\ \A q \in Sources \ {p} : pc'[q] = pc[q]
  BY <1>1, Going
<1>3. Types'
  BY <1>2 DEF Types, files
<1>4. Exclusion'
  BY <1>1, <1>2 DEF Exclusion
<1>5. Fenced'
  BY <1>1, <1>2, SameFiles, SourcesAre DEF Fenced, files
<1>6. \A t \in Tx : CommittingAt(t, pc[t])'
  BY <1>1, <1>2, SameFiles, SourcesAre DEF Standing, CommittingAt, Deciding, Settled, files
<1>7. \A q \in Sources : ReconcilingAt(pc[q])'
  BY <1>1, <1>2, SameFiles, SameCurrent DEF Standing, ReconcilingAt, Settled, files
<1>8. OneUnresolved' /\ RestoredIsClean' /\ Apart' /\ Accepted'
  BY SameFiles DEF OneUnresolved, RestoredIsClean, Apart, Accepted, files
<1> QED  BY <1>3, <1>4, <1>5, <1>6, <1>7, <1>8 DEF Standing

\* A process that takes, holds or drops the lease is the only one to rely on anything.
LEMMA UnderLease ==
    ASSUME QuarantineInv, NEW p \in Sources, NEW label \in Labels, Goto(p, label),
           \A q \in Sources \ {p} : pc[q] \notin Held,
           lease' = IF label \in Held THEN {p} ELSE {},
           p \in Tx => CommittingAt(p, label)', ReconcilingAt(label)'
    PROVE  Exclusion' /\ Standing'
<1>1. /\ pc' \in [Sources -> Labels] /\ pc'[p] = label
      /\ \A q \in Sources \ {p} : pc'[q] = pc[q]
  BY Going DEF QuarantineInv
<1>2. Exclusion'
  BY <1>1 DEF Exclusion
<1>3. ASSUME NEW t \in Tx PROVE CommittingAt(t, pc[t])'
  <2>1. CASE t = p
    BY <2>1, <1>1
  <2>2. CASE t # p
    BY <2>2, <1>1, SourcesAre DEF CommittingAt, Held, Deciding
  <2> QED  BY <2>1, <2>2
<1>4. ASSUME NEW q \in Sources PROVE ReconcilingAt(pc[q])'
  <2>1. CASE q = p
    BY <2>1, <1>1
  <2>2. CASE q # p
    BY <2>2, <1>1 DEF ReconcilingAt, Held
  <2> QED  BY <2>1, <2>2
<1> QED  BY <1>2, <1>3, <1>4 DEF Standing

\* Such a process goes on without touching a file.
LEMMA Advancing ==
    ASSUME QuarantineInv, NEW p \in Sources, NEW label \in Labels, Goto(p, label),
           \A q \in Sources \ {p} : pc[q] \notin Held,
           lease' = IF label \in Held THEN {p} ELSE {},
           p \in Tx => CommittingAt(p, label)', ReconcilingAt(label)',
           label \in BeforeMove => pc[p] \in BeforeMove,
           UNCHANGED <<files, runner, inodes, foreign>>, ack' \subseteq Tx, todo' \subseteq Tx
    PROVE  QuarantineInv'
<1> USE DEF QuarantineInv
<1>1. /\ pc' \in [Sources -> Labels] /\ pc'[p] = label
      /\ \A q \in Sources \ {p} : pc'[q] = pc[q]
  BY Going
<1>2. Types'
  BY <1>1 DEF Types, files
<1>3. Exclusion' /\ Standing'
  BY UnderLease
<1>4. Fenced'
  BY <1>1, SameFiles, SourcesAre DEF Fenced, files
<1>5. OneUnresolved' /\ RestoredIsClean' /\ Apart' /\ Accepted'
  BY SameFiles DEF OneUnresolved, RestoredIsClean, Apart, Accepted, files
<1> QED  BY <1>2, <1>3, <1>4, <1>5
\* Reconciliation starts with every intent before it.
LEMMA BeginHolds ==
    ASSUME QuarantineInv, NEW p \in Sources, Begin(p)
    PROVE  QuarantineInv'
<1>1. "reconcile" \in Labels /\ "reconcile" \in Held /\ "reconcile" \notin BeforeMove
      /\ "reconcile" \notin Deciding
  BY DEF Labels, Held, BeforeMove, Deciding
<1>2. \A q \in Sources : pc[q] \notin Held
  BY NobodyHolds DEF Begin, QuarantineInv
<1>3. UNCHANGED files /\ todo' = {t \in Tx : Intent(t)} /\ lease' = {p} /\ Goto(p, "reconcile")
  BY DEF Begin
<1>4. CommittingAt(p, "reconcile")'
  BY <1>1 DEF CommittingAt
<1>5. ReconcilingAt("reconcile")'
  BY <1>3, SameFiles DEF ReconcilingAt, Unresolved
<1>6. UNCHANGED <<files, runner, inodes, foreign>> /\ ack' \subseteq Tx
  BY DEF Begin, bounds, QuarantineInv, Types
<1> QED  BY <1>1, <1>2, <1>3, <1>4, <1>5, <1>6, Advancing

\* A transaction that is as its terminal record says is not unresolved.
LEMMA AcceptHolds ==
    ASSUME QuarantineInv, NEW p \in Sources, NEW t \in Tx, ReconcileAccept(p, t)
    PROVE  QuarantineInv'
<1>1. "reconcile" \in Labels /\ "reconcile" \in Held /\ "reconcile" \notin BeforeMove
      /\ "reconcile" \notin Deciding
  BY DEF Labels, Held, BeforeMove, Deciding
<1>2. pc[p] = "reconcile" /\ Acceptable(t) /\ todo' = todo \ {t} /\ UNCHANGED <<pc, lease>>
      /\ UNCHANGED <<files, runner, inodes, foreign>> /\ ack' \subseteq Tx
  BY DEF ReconcileAccept, Reconciling, bounds, QuarantineInv, Types
<1>3. lease = {p} /\ \A q \in Sources \ {p} : pc[q] \notin Held
  BY <1>1, <1>2, Alone DEF QuarantineInv
<1>4. Goto(p, "reconcile")
  BY <1>2 DEF Goto, QuarantineInv, Types
<1>5. CommittingAt(p, "reconcile")'
  BY <1>1 DEF CommittingAt
<1>6. ~Unresolved(t)
  BY <1>2 DEF Acceptable, FinalizedHolds, RestoredHolds, Unresolved
<1>7. ReconcilingAt("reconcile")'
  BY <1>2, <1>6, SameFiles DEF ReconcilingAt, QuarantineInv, Standing
<1>8. todo' \subseteq Tx
  BY <1>2 DEF QuarantineInv, Types
<1> QED  BY <1>1, <1>2, <1>3, <1>4, <1>5, <1>7, <1>8, Advancing

\* A process that leaves the code under the lease.
LEMMA Leaving ==
    ASSUME QuarantineInv, NEW p \in Sources, pc[p] \in Held, NEW label \in Settled,
           Leave(p, label),
           UNCHANGED <<files, todo, runner, inodes, foreign>>, ack' \subseteq Tx
    PROVE  QuarantineInv'
<1>1. lease' = lease \ {p}
  BY Alone DEF QuarantineInv, Leave
<1> QED  BY <1>1, Settling DEF Leave

\* A source that fails is idle again, or failed if it left an intent.
LEMMA Exiting ==
    ASSUME NEW p \in Sources, Exit(p)
    PROVE  \E label \in Settled : Leave(p, label)
BY DEF Exit, Settled

\* When nothing is left to reconcile, no transaction is unresolved.
LEMMA DoneHolds ==
    ASSUME QuarantineInv, NEW p \in Sources, ReconcileDone(p)
    PROVE  QuarantineInv'
<1>1. "prepare" \in Labels /\ "prepare" \in Held /\ "prepare" \notin BeforeMove
      /\ "prepare" \notin Deciding /\ "reconcile" \in Held /\ "failed" \in Settled
  BY DEF Labels, Held, BeforeMove, Deciding, Settled
<1>2. pc[p] = "reconcile" /\ todo = {} /\ UNCHANGED <<files, todo, runner, inodes, foreign>>
      /\ ack' \subseteq Tx /\ todo' \subseteq Tx
  BY DEF ReconcileDone, bounds, QuarantineInv, Types
<1>3. lease = {p} /\ \A q \in Sources \ {p} : pc[q] \notin Held
  BY <1>1, <1>2, Alone DEF QuarantineInv
<1>4. CASE Aborting(p)
  BY <1>1, <1>2, <1>4, Leaving DEF ReconcileDone
<1>5. CASE ~Aborting(p)
  <2>1. Goto(p, "prepare") /\ lease' = lease
    BY <1>5 DEF ReconcileDone
  <2>2. p \in Tx => CommittingAt(p, "prepare")'
    BY <1>1, <1>2, <1>5, SameFiles DEF CommittingAt, Aborting
  <2>3. ReconcilingAt("prepare")'
    BY <1>2, SameFiles DEF ReconcilingAt, QuarantineInv, Standing
  <2> QED  BY <1>1, <1>2, <1>3, <2>1, <2>2, <2>3, Advancing
<1> QED  BY <1>4, <1>5

\* The source takes the lease again once the runner has committed.
LEMMA CommitStartHolds ==
    ASSUME QuarantineInv, NEW t \in Tx, CommitStart(t)
    PROVE  QuarantineInv'
<1>1. "commit.check" \in Labels /\ "commit.check" \in Held /\ "commit.check" \notin Deciding
      /\ "proposed" \in BeforeMove
  BY DEF Labels, Held, BeforeMove, Deciding
<1>2. pc[t] = "proposed" /\ lease = {} /\ lease' = {t} /\ Goto(t, "commit.check")
      /\ UNCHANGED <<files, runner, inodes, foreign>> /\ ack' \subseteq Tx /\ todo' \subseteq Tx
  BY DEF CommitStart, bounds, QuarantineInv, Types
<1>3. \A q \in Sources : pc[q] \notin Held
  BY <1>2, NobodyHolds DEF QuarantineInv
<1>4. CommittingAt(t, "commit.check")' /\ ReconcilingAt("commit.check")'
  BY <1>1 DEF CommittingAt, ReconcilingAt
<1> QED  BY <1>1, <1>2, <1>3, <1>4, SourcesAre, Advancing

\* It goes on only with its own transaction unresolved.
LEMMA CommitCheckHolds ==
    ASSUME QuarantineInv, NEW t \in Tx, CommitCheck(t)
    PROVE  QuarantineInv'
<1>1. "commit.fence" \in Labels /\ "commit.fence" \in Held /\ "commit.check" \in Held
      /\ "commit.check" \in BeforeMove /\ "abort" \in Settled
  BY DEF Labels, Held, BeforeMove, Settled
<1>2. pc[t] = "commit.check" /\ UNCHANGED <<files, todo, runner, inodes, foreign>>
      /\ ack' \subseteq Tx /\ todo' \subseteq Tx
  BY DEF CommitCheck, bounds, QuarantineInv, Types
<1>3. lease = {t} /\ \A q \in Sources \ {t} : pc[q] \notin Held
  BY <1>1, <1>2, Alone, SourcesAre DEF QuarantineInv
<1>4. CASE Leave(t, "abort")
  BY <1>1, <1>2, <1>4, Leaving, SourcesAre
<1>5. CASE Unresolved(t) /\ Goto(t, "commit.fence") /\ lease' = lease
  <2>1. CommittingAt(t, "commit.fence")' /\ ReconcilingAt("commit.fence")'
    BY <1>2, <1>5, SameFiles DEF CommittingAt, ReconcilingAt
  <2> QED  BY <1>1, <1>2, <1>3, <1>5, <2>1, SourcesAre, Advancing
<1> QED  BY <1>4, <1>5 DEF CommitCheck

\* A move that does not hold up is undone with the fence still standing.
LEMMA CommitNotVerifiedHolds ==
    ASSUME QuarantineInv, NEW t \in Tx, CommitNotVerified(t)
    PROVE  QuarantineInv'
<1>1. "undo.restore" \in Labels /\ "undo.restore" \in Held /\ "commit.verify" \in Held
      /\ "undo.restore" \notin BeforeMove /\ "commit.verify" \in Deciding
  BY DEF Labels, Held, BeforeMove, Deciding
<1>2. pc[t] = "commit.verify" /\ UNCHANGED <<files, todo, lease, runner, inodes, foreign>>
      /\ ack' \subseteq Tx /\ todo' \subseteq Tx /\ Goto(t, "undo.restore")
  BY DEF CommitNotVerified, bounds, QuarantineInv, Types
<1>3. lease = {t} /\ \A q \in Sources \ {t} : pc[q] \notin Held
  BY <1>1, <1>2, Alone, SourcesAre DEF QuarantineInv
<1>4. CommittingAt(t, "undo.restore")'
  BY <1>1, <1>2, SameFiles DEF CommittingAt, QuarantineInv, Standing, files
<1>5. ReconcilingAt("undo.restore")'
  BY DEF ReconcilingAt
<1> QED  BY <1>1, <1>2, <1>3, <1>4, <1>5, SourcesAre, Advancing

\* A killed process loses its lease and nothing else.
LEMMA KillHolds ==
    ASSUME QuarantineInv, NEW p \in Sources, Kill(p)
    PROVE  QuarantineInv'
<1>1. \E label \in Settled : Goto(p, label)
  BY DEF Kill, Settled
<1>2. lease' = lease \ {p} /\ UNCHANGED <<files, todo, runner, inodes, foreign>>
      /\ ack' \subseteq Tx
  BY DEF Kill, QuarantineInv, Types
<1> QED  BY <1>1, <1>2, Settling


-----------------------------------------------------------------------------
(* Steps of the reconciliation that change files. *)

\* Outside the lease nothing is relied on.
LEMMA Relaxed ==
    ASSUME NEW label \in Settled \cup {"proposed"}
    PROVE  /\ \A t \in Tx : CommittingAt(t, label)'
           /\ ReconcilingAt(label)'
           /\ label \in Labels /\ label \notin Held
<1>1. label \in Labels /\ label \notin Held /\ label \notin Deciding
  BY DEF Settled, Labels, Held, Deciding
<1> QED  BY <1>1 DEF CommittingAt, ReconcilingAt, Settled

\* Recording an ambiguity resolves a transaction that was not restored.
LEMMA BlockHolds ==
    ASSUME QuarantineInv, NEW p \in Sources, NEW t \in Tx, ReconcileBlock(p, t)
    PROVE  QuarantineInv'
<1> USE DEF QuarantineInv
<1>1. pc[p] = "reconcile" /\ Write(t, "blocked", TRUE) /\ Exit(p) /\ ~Restored(t)
      /\ UNCHANGED <<source, quarantine, fence, todo, ack, runner, inodes, foreign>>
  BY Zenon DEF ReconcileBlock, Reconciling, Ambiguous, FinalizedHolds, SourceRemnant, MoveRemnant,
         Unresolved, Fault, bounds
<1>2. PICK label \in Settled : Leave(p, label)
  BY <1>1, Exiting
<1>3. lease = {p} /\ \A q \in Sources \ {p} : pc[q] \notin Held
  BY <1>1, Alone DEF Held
<1>4. /\ pc' \in [Sources -> Labels] /\ pc'[p] = label
      /\ \A q \in Sources \ {p} : pc'[q] = pc[q]
  BY <1>2, Relaxed, Going DEF Leave
<1>5. /\ record' \in [Tx -> RecordType]
      /\ \A u \in Tx :
            /\ Intent(u)' = Intent(u) /\ Restored(u)' = Restored(u)
            /\ record'[u].intent = record[u].intent
            /\ record'[u].finalized = record[u].finalized
            /\ Unresolved(u)' => Unresolved(u)
            /\ u # t => record'[u].blocked = record[u].blocked
  BY <1>1, WroteBlocked, Zenon DEF Intent, Restored, Unresolved
<1>6. Types'
  BY <1>1, <1>4, <1>5 DEF Types
<1>7. Exclusion' /\ Standing'
  BY <1>2, <1>3, Relaxed, UnderLease DEF Leave
<1>8. Fenced'
  BY <1>1, <1>4, <1>5, SourcesAre, Zenon DEF Fenced, Settled, BeforeMove
<1>9. OneUnresolved' /\ Accepted'
  BY <1>1, <1>5, Zenon DEF OneUnresolved, Accepted
<1>10. RestoredIsClean' /\ Apart'
  BY <1>1, <1>5, Zenon DEF RestoredIsClean, Apart
<1> QED  BY <1>6, <1>7, <1>8, <1>9, <1>10

\* A restored journal has left the quarantine directory.
LEMMA RestoreHolds ==
    ASSUME QuarantineInv, NEW p \in Sources, NEW t \in Tx, ReconcileRestore(p, t)
    PROVE  QuarantineInv'
<1> USE DEF QuarantineInv
<1>1. /\ pc[p] = "reconcile" /\ t = Current /\ Unresolved(t) /\ Goto(p, "reconcile.fence")
      /\ \/ MoveToSource /\ fence = {t}
         \/ ~Exists(quarantine) /\ UNCHANGED <<source, quarantine>>
      /\ UNCHANGED <<fence, record, lease, todo, ack, runner, inodes, foreign>>
  BY DEF ReconcileRestore, Reconciling, SourceRemnant, MoveRemnant, bounds
<1>2. /\ "reconcile.fence" \in Labels /\ "reconcile.fence" \in Held
      /\ "reconcile.fence" \notin BeforeMove /\ "reconcile.fence" \notin Deciding
  BY DEF Labels, Held, BeforeMove, Deciding
<1>3. lease = {p} /\ \A q \in Sources \ {p} : pc[q] \notin Held
  BY <1>1, Alone DEF Held
<1>4. /\ pc' \in [Sources -> Labels] /\ pc'[p] = "reconcile.fence"
      /\ \A q \in Sources \ {p} : pc'[q] = pc[q]
  BY <1>1, <1>2, Going
<1>5. ~Exists(quarantine)' /\ source' \in File /\ quarantine' \in File
  BY <1>1, MissingIsFile DEF MoveToSource, Exists, Types
<1>6. \A u \in Tx : Unresolved(u)' = Unresolved(u) /\ Restored(u)' = Restored(u)
                    /\ Intent(u)' = Intent(u)
  BY <1>1, Zenon DEF Unresolved, Restored, Intent
<1>7. Types'
  BY <1>1, <1>4, <1>5 DEF Types
<1>8. Exclusion' /\ Standing'
  <2>1. p \in Tx => CommittingAt(p, "reconcile.fence")'
    BY <1>2 DEF CommittingAt
  <2>2. ReconcilingAt("reconcile.fence")'
    <3>1. ReconcilingAt("reconcile")
      BY <1>1 DEF Standing
    <3>2. Current' = Current
      BY <1>1, SameCurrent
    <3> QED  BY <1>1, <1>5, <1>6, <3>1, <3>2 DEF ReconcilingAt
  <2> QED  BY <1>1, <1>2, <1>3, <2>1, <2>2, UnderLease
<1>9. Fenced' /\ Apart'
  BY <1>5, Zenon DEF Fenced, Apart
<1>10. OneUnresolved' /\ RestoredIsClean'
  BY <1>1, <1>6 DEF OneUnresolved, RestoredIsClean
<1>11. Accepted'
  <2>1. CASE ~Exists(quarantine) /\ UNCHANGED <<source, quarantine>>
    BY <1>1, <1>6, <2>1, Zenon DEF Accepted
  <2>2. CASE MoveToSource /\ fence = {t}
    BY <1>1, <1>6, <2>2, Zenon DEF Accepted, Unresolved
  <2> QED  BY <1>1, <2>1, <2>2
<1> QED  BY <1>7, <1>8, <1>9, <1>10, <1>11

\* The fence comes down once the journal is back.
LEMMA ReconcileFenceHolds ==
    ASSUME QuarantineInv, NEW p \in Sources, ReconcileFence(p)
    PROVE  QuarantineInv'
<1> USE DEF QuarantineInv
<1>1. /\ pc[p] = "reconcile.fence"
      /\ UNCHANGED <<source, quarantine, record, todo, ack, runner, inodes, foreign>>
  BY DEF ReconcileFence, bounds
<1>2. /\ "reconcile.record" \in Labels /\ "reconcile.record" \in Held
      /\ "reconcile.record" \notin BeforeMove /\ "reconcile.record" \notin Deciding
      /\ "reconcile.fence" \in Held
  BY DEF Labels, Held, BeforeMove, Deciding
<1>3. lease = {p} /\ \A q \in Sources \ {p} : pc[q] \notin Held
  BY <1>1, <1>2, Alone
<1>4. CASE Exit(p) /\ fence' = fence
  <2>1. PICK label \in Settled : Leave(p, label)
    BY <1>4, Exiting
  <2> QED  BY <1>1, <1>2, <1>4, <2>1, Leaving, Zenon DEF files, Types
<1>5. CASE fence' = {} /\ Goto(p, "reconcile.record") /\ lease' = lease
  <2>1. /\ pc' \in [Sources -> Labels] /\ pc'[p] = "reconcile.record"
        /\ \A q \in Sources \ {p} : pc'[q] = pc[q]
    BY <1>2, <1>5, Going
  <2>2. \A u \in Tx : Unresolved(u)' = Unresolved(u) /\ Restored(u)' = Restored(u)
                      /\ Intent(u)' = Intent(u)
    BY <1>1, Zenon DEF Unresolved, Restored, Intent
  <2>3. ReconcilingAt("reconcile.fence") /\ Current' = Current
    BY <1>1, SameCurrent DEF Standing
  <2>4. ~Exists(quarantine) /\ ~Exists(quarantine)'
    BY <1>1, <2>3 DEF ReconcilingAt, Exists
  <2>5. Types'
    BY <1>1, <1>5, <2>1 DEF Types
  <2>6. p \in Tx => CommittingAt(p, "reconcile.record")'
    BY <1>2 DEF CommittingAt
  <2>7. ReconcilingAt("reconcile.record")'
    BY <1>1, <1>5, <2>2, <2>3, <2>4 DEF ReconcilingAt
  <2>8. Exclusion' /\ Standing'
    BY <1>2, <1>3, <1>5, <2>6, <2>7, UnderLease
  <2>9. Fenced' /\ Apart'
    BY <2>4 DEF Fenced, Apart
  <2>10. OneUnresolved' /\ RestoredIsClean'
    BY <1>1, <1>5, <2>2 DEF OneUnresolved, RestoredIsClean
  <2>11. Accepted'
    BY <1>1, <2>2, <2>4, Zenon DEF Accepted, Intent
  <2> QED  BY <2>5, <2>8, <2>9, <2>10, <2>11
<1> QED  BY <1>4, <1>5 DEF ReconcileFence

\* The restored record ends the transaction, and takes it off the list.
LEMMA ReconcileRecordHolds ==
    ASSUME QuarantineInv, NEW p \in Sources, ReconcileRecord(p)
    PROVE  QuarantineInv'
<1> USE DEF QuarantineInv
<1>0. pc[p] = "reconcile.record" /\ Current \in Tx
  BY DEF ReconcileRecord, Standing, ReconcilingAt
<1> PICK t \in Tx : t = Current
  BY <1>0
<1>1. /\ pc[p] = "reconcile.record" /\ Write(t, "restored", AppliedDigest(t))
      /\ todo' = todo \ {t} /\ Goto(p, "reconcile")
      /\ UNCHANGED <<source, quarantine, fence, lease, ack, runner, inodes, foreign>>
  BY DEF ReconcileRecord, bounds
<1>2. /\ "reconcile" \in Labels /\ "reconcile" \in Held
      /\ "reconcile" \notin BeforeMove /\ "reconcile" \notin Deciding
      /\ "reconcile.record" \in Held
  BY DEF Labels, Held, BeforeMove, Deciding
<1>3. lease = {p} /\ \A q \in Sources \ {p} : pc[q] \notin Held
  BY <1>1, <1>2, Alone
<1>4. /\ pc' \in [Sources -> Labels] /\ pc'[p] = "reconcile"
      /\ \A q \in Sources \ {p} : pc'[q] = pc[q]
  BY <1>1, <1>2, Going
<1>5. /\ Unresolved(t) /\ ~Exists(quarantine) /\ fence = {}
      /\ \A u \in Tx : Unresolved(u) => u \in todo
  BY <1>1 DEF Standing, ReconcilingAt
<1>6. AppliedDigest(t) \in {"applied", "unapplied"}
  BY DEF AppliedDigest
<1>7. /\ record' \in [Tx -> RecordType]
      /\ ~Unresolved(t)'
      /\ \A u \in Tx :
            /\ Intent(u)' = Intent(u) /\ record'[u].intent = record[u].intent
            /\ record'[u].finalized = record[u].finalized
            /\ record'[u].blocked = record[u].blocked
            /\ u # t => Unresolved(u)' = Unresolved(u) /\ Restored(u)' = Restored(u)
  BY <1>1, <1>5, <1>6, WroteRestored, Zenon DEF Intent, Restored, Unresolved
<1>8. Types'
  BY <1>1, <1>4, <1>7, Zenon DEF Types
<1>9. Exclusion' /\ Standing'
  <2>1. p \in Tx => CommittingAt(p, "reconcile")'
    BY <1>2 DEF CommittingAt
  <2>2. ReconcilingAt("reconcile")'
    BY <1>1, <1>5, <1>7, Zenon DEF ReconcilingAt
  <2> QED  BY <1>1, <1>2, <1>3, <2>1, <2>2, UnderLease
<1>10. Fenced' /\ Apart'
  BY <1>1, <1>5, Zenon DEF Fenced, Apart, Exists
<1>11. OneUnresolved' /\ RestoredIsClean'
  BY <1>1, <1>5, <1>7, Zenon DEF OneUnresolved, RestoredIsClean, Unresolved
<1>12. Accepted'
  BY <1>1, <1>7, Zenon DEF Accepted
<1> QED  BY <1>8, <1>9, <1>10, <1>11, <1>12

-----------------------------------------------------------------------------
(* Steps of the source that change files. *)

\* The new intent is the only unresolved one.
LEMMA PrepareHolds ==
    ASSUME QuarantineInv, NEW t \in Tx, Prepare(t)
    PROVE  QuarantineInv'
<1> USE DEF QuarantineInv
<1>1. /\ pc[t] = "prepare" /\ source \in File /\ Write(t, "intent", source)
      /\ Leave(t, "proposed") /\ Exists(source)
      /\ UNCHANGED <<source, quarantine, fence, todo, ack, runner, inodes, foreign>>
  BY Zenon DEF Prepare, WriteIntent, HasEvents, bounds, Types
<1>2. "proposed" \in Settled \cup {"proposed"} /\ "prepare" \in Held
  BY DEF Held
<1>3. lease = {t} /\ \A q \in Sources \ {t} : pc[q] \notin Held
  BY <1>1, <1>2, Alone, SourcesAre
<1>4. /\ pc' \in [Sources -> Labels] /\ pc'[t] = "proposed"
      /\ \A q \in Sources \ {t} : pc'[q] = pc[q]
  BY <1>1, <1>2, Relaxed, Going, SourcesAre DEF Leave
<1>5. ~Intent(t) /\ \A u \in Tx : ~Unresolved(u)
  BY <1>1, SourcesAre DEF Standing, CommittingAt, ReconcilingAt
<1>6. /\ record' \in [Tx -> RecordType]
      /\ \A u \in Tx :
            /\ Restored(u)' = Restored(u)
            /\ record'[u].finalized = record[u].finalized
            /\ record'[u].blocked = record[u].blocked
            /\ u # t => /\ Intent(u)' = Intent(u) /\ Unresolved(u)' = Unresolved(u)
                        /\ record'[u].intent = record[u].intent
  BY <1>1, WroteIntent, Zenon DEF Intent, Restored, Unresolved
<1>7. Types'
  BY <1>1, <1>4, <1>6, Zenon DEF Types
<1>8. Exclusion' /\ Standing'
  BY <1>1, <1>2, <1>3, Relaxed, UnderLease, SourcesAre, Zenon DEF Leave
<1>9. Fenced'
  BY <1>1, <1>4, <1>5, <1>6, SourcesAre, Zenon DEF Fenced, Intent, Exists
<1>10. OneUnresolved' /\ RestoredIsClean' /\ Apart'
  BY <1>1, <1>5, <1>6, Zenon DEF OneUnresolved, RestoredIsClean, Apart, Exists
<1>11. Accepted'
  BY <1>1, <1>5, <1>6, Zenon DEF Accepted
<1> QED  BY <1>7, <1>8, <1>9, <1>10, <1>11

\* Raising a fence of one's own where nobody else's stands.
LEMMA Fencing ==
    ASSUME QuarantineInv, NEW t \in Tx, pc[t] = "commit.fence",
           fence \subseteq {t}, fence' \in {fence, {t}},
           NEW label \in {"commit.move", "abort"}, Goto(t, label),
           label = "commit.move" => fence' = {t},
           lease' = IF label = "abort" THEN {} ELSE lease,
           UNCHANGED <<source, quarantine, record, todo, ack, runner, inodes, foreign>>
    PROVE  QuarantineInv'
<1> USE DEF QuarantineInv
<1>1. /\ label \in Labels /\ (label \in Held <=> label = "commit.move")
      /\ "commit.fence" \in Held /\ "commit.fence" \in BeforeMove /\ "commit.fence" \in Deciding
  BY DEF Labels, Held, BeforeMove, Deciding
<1>2. lease = {t} /\ \A q \in Sources \ {t} : pc[q] \notin Held
  BY <1>1, Alone, SourcesAre
<1>3. /\ pc' \in [Sources -> Labels] /\ pc'[t] = label
      /\ \A q \in Sources \ {t} : pc'[q] = pc[q]
  BY <1>1, Going, SourcesAre, Zenon
<1>4. Unresolved(t) /\ ~Restored(t) /\ ~record[t].finalized
  BY <1>1, Zenon DEF Standing, CommittingAt, Unresolved
<1>5. ~Exists(quarantine) /\ ~Exists(quarantine)'
  BY <1>1, Zenon DEF Fenced, Exists
<1>6. \A u \in Tx : Unresolved(u)' = Unresolved(u) /\ Restored(u)' = Restored(u)
                    /\ Intent(u)' = Intent(u)
  BY Zenon DEF Unresolved, Restored, Intent
<1>7. Types'
  BY <1>3 DEF Types
<1>8. Exclusion' /\ Standing'
  <2>1. CommittingAt(t, label)'
    BY <1>4, <1>6, Zenon DEF CommittingAt, Deciding
  <2>2. ReconcilingAt(label)'
    BY DEF ReconcilingAt
  <2>3. lease' = IF label \in Held THEN {t} ELSE {}
    BY <1>1, <1>2
  <2> QED  BY <1>1, <1>2, <2>1, <2>2, <2>3, UnderLease, SourcesAre
<1>9. Fenced' /\ Apart'
  BY <1>5, Zenon DEF Fenced, Apart
<1>10. OneUnresolved' /\ RestoredIsClean'
  BY <1>4, <1>6, Zenon DEF OneUnresolved, RestoredIsClean
<1>11. Accepted'
  BY <1>4, <1>5, <1>6, Zenon DEF Accepted, Intent
<1> QED  BY <1>7, <1>8, <1>9, <1>10, <1>11

\* Fencing, whether or not the call that publishes the fence raises.
LEMMA CommitFenceHolds ==
    ASSUME QuarantineInv, NEW t \in Tx, CommitFence(t)
    PROVE  QuarantineInv'
<1>1. /\ pc[t] = "commit.fence" /\ "commit.fence" \in Held /\ "abort" \in Settled
      /\ UNCHANGED <<source, quarantine, record, todo, ack, runner, inodes, foreign>>
  BY DEF CommitFence, Fault, bounds, Held, Settled
<1>2. CASE fence \subseteq {t} /\ fence' = {t} /\ Goto(t, "commit.move") /\ lease' = lease
  BY <1>1, <1>2, Fencing
<1>3. CASE fence' = fence /\ Leave(t, "abort")
  BY <1>1, <1>3, Leaving, SourcesAre, Zenon DEF files, QuarantineInv, Types
<1>4. CASE fence \subseteq {t} /\ fence' \in {fence, {t}} /\ Leave(t, "abort")
  BY <1>1, <1>4, Fencing DEF Leave
<1> QED  BY <1>2, <1>3, <1>4 DEF CommitFence

\* The journal goes into quarantine behind the fence of its transaction; where it
\* does not, the fence comes down with nothing behind it.
LEMMA CommitMoveHolds ==
    ASSUME QuarantineInv, NEW t \in Tx, CommitMove(t)
    PROVE  QuarantineInv'
<1> USE DEF QuarantineInv
<1>1. /\ pc[t] = "commit.move"
      /\ UNCHANGED <<fence, record, lease, todo, ack, runner, inodes, foreign>>
  BY Zenon DEF CommitMove, Fault, bounds
<1>2. /\ {"commit.applied", "undo.unfence", "commit.move"} \subseteq Labels \cap Held \cap Deciding
      /\ {"commit.applied", "undo.unfence"} \cap BeforeMove = {}
      /\ "commit.move" \in BeforeMove
  BY DEF Labels, Held, BeforeMove, Deciding
<1>3. lease = {t} /\ \A q \in Sources \ {t} : pc[q] \notin Held
  BY <1>1, <1>2, Alone, SourcesAre
<1>4. Unresolved(t) /\ fence = {t} /\ ~Restored(t)
  BY <1>1, <1>2, Zenon DEF Standing, CommittingAt, Unresolved
<1>5. ~Exists(quarantine)
  BY <1>1, <1>2, <1>4 DEF Fenced
<1>6. \A u \in Tx : Unresolved(u)' = Unresolved(u) /\ Restored(u)' = Restored(u)
                    /\ Intent(u)' = Intent(u)
  BY <1>1 DEF Unresolved, Restored, Intent
<1>7. CASE UNCHANGED <<source, quarantine>> /\ Goto(t, "undo.unfence")
  <2>1. ~Exists(quarantine)'
    BY <1>5, <1>7 DEF Exists
  <2>2. CommittingAt(t, "undo.unfence")' /\ ReconcilingAt("undo.unfence")'
    BY <1>4, <1>6, <2>1 DEF CommittingAt, ReconcilingAt
  <2> QED  BY <1>1, <1>2, <1>3, <1>7, <2>2, Advancing, SourcesAre, Zenon DEF files, Types
<1>8. CASE /\ source = record[t].intent /\ MoveToQuarantine /\ Goto(t, "commit.applied")
  <2>1. /\ pc' \in [Sources -> Labels] /\ pc'[t] = "commit.applied"
        /\ \A q \in Sources \ {t} : pc'[q] = pc[q]
    BY <1>2, <1>8, Going, SourcesAre, Zenon
  <2>2. quarantine' = record[t].intent /\ ~Exists(source)' /\ source' \in File /\ quarantine' \in File
    BY <1>8, MissingIsFile DEF MoveToQuarantine, Exists, Types
  <2>3. Types'
    BY <1>1, <2>1, <2>2 DEF Types
  <2>4. CommittingAt(t, "commit.applied")' /\ ReconcilingAt("commit.applied")'
    BY <1>1, <1>4, <1>6 DEF CommittingAt, ReconcilingAt
  <2>5. Exclusion' /\ Standing'
    BY <1>1, <1>2, <1>3, <1>8, <2>4, UnderLease, SourcesAre, Zenon
  <2>6. Fenced'
    BY <1>1, <1>2, <1>4, <1>6, <2>1, <2>2, Zenon DEF Fenced
  <2>7. OneUnresolved' /\ RestoredIsClean' /\ Apart'
    BY <1>1, <1>6, <2>2, Zenon DEF OneUnresolved, RestoredIsClean, Apart
  <2>8. Accepted'
    BY <1>1, <1>5, <1>6, Zenon DEF Accepted, Intent
  <2> QED  BY <2>3, <2>5, <2>6, <2>7, <2>8
<1> QED  BY <1>7, <1>8, Zenon DEF CommitMove, Movable

\* The applied record leaves the transaction unresolved.
LEMMA CommitAppliedHolds ==
    ASSUME QuarantineInv, NEW t \in Tx, CommitApplied(t)
    PROVE  QuarantineInv'
<1> USE DEF QuarantineInv
<1>1. /\ pc[t] = "commit.applied" /\ ack' \in {ack, ack \cup {t}}
      /\ Write(t, "applied", TRUE) \/ UNCHANGED record
      /\ UNCHANGED <<source, quarantine, fence, lease, todo, runner, inodes, foreign>>
  BY Zenon DEF CommitApplied, Fault, bounds
<1>2. PICK label \in {"commit.verify", "undo.restore"} : Goto(t, label)
  BY Zenon DEF CommitApplied
<1>3. /\ label \in Labels /\ label \in Held /\ label \in Deciding /\ label \notin BeforeMove
      /\ "commit.applied" \in Held /\ "commit.applied" \in Deciding
  BY DEF Labels, Held, BeforeMove, Deciding
<1>4. lease = {t} /\ \A q \in Sources \ {t} : pc[q] \notin Held
  BY <1>1, <1>3, Alone, SourcesAre
<1>5. /\ pc' \in [Sources -> Labels] /\ pc'[t] = label
      /\ \A q \in Sources \ {t} : pc'[q] = pc[q]
  BY <1>2, <1>3, Going, SourcesAre
<1>6. Unresolved(t) /\ fence = {t}
  BY <1>1, <1>3, Zenon DEF Standing, CommittingAt
<1>7. /\ record' \in [Tx -> RecordType]
      /\ \A u \in Tx :
            /\ Unresolved(u)' = Unresolved(u) /\ Restored(u)' = Restored(u)
            /\ Intent(u)' = Intent(u)
            /\ record'[u].intent = record[u].intent
            /\ record'[u].finalized = record[u].finalized
            /\ record'[u].blocked = record[u].blocked
  <2>1. CASE Write(t, "applied", TRUE)
    BY <2>1, WroteApplied, Zenon DEF Intent, Restored, Unresolved
  <2>2. CASE UNCHANGED record
    BY <2>2, Zenon DEF Intent, Restored, Unresolved, Types
  <2> QED  BY <1>1, <2>1, <2>2, Zenon
<1>8. Types'
  BY <1>1, <1>5, <1>7, Zenon DEF Types
<1>9. Exclusion' /\ Standing'
  <2>1. CommittingAt(t, label)' /\ ReconcilingAt(label)'
    BY <1>1, <1>6, <1>7, Zenon DEF CommittingAt, ReconcilingAt
  <2> QED  BY <1>1, <1>2, <1>3, <1>4, <2>1, UnderLease, SourcesAre, Zenon
<1>10. Fenced'
  BY <1>1, <1>3, <1>5, <1>7, SourcesAre, Zenon DEF Fenced
<1>11. OneUnresolved' /\ RestoredIsClean' /\ Apart'
  BY <1>1, <1>7, Zenon DEF OneUnresolved, RestoredIsClean, Apart
<1>12. Accepted'
  BY <1>1, <1>7, Zenon DEF Accepted
<1> QED  BY <1>8, <1>9, <1>10, <1>11, <1>12

\* The source takes its own journal out of quarantine, behind its own fence.
LEMMA UndoRestoreHolds ==
    ASSUME QuarantineInv, NEW t \in Tx, UndoRestore(t)
    PROVE  QuarantineInv'
<1> USE DEF QuarantineInv
<1>1. /\ pc[t] = "undo.restore"
      /\ UNCHANGED <<fence, record, todo, ack, runner, inodes, foreign>>
  BY Zenon DEF UndoRestore, Fault, bounds
<1>2. /\ "undo.fence" \in Labels /\ "undo.fence" \in Held /\ "undo.fence" \in Deciding
      /\ "undo.fence" \notin BeforeMove /\ "abort" \in Settled
      /\ "undo.restore" \in Held /\ "undo.restore" \in Deciding
  BY DEF Labels, Held, BeforeMove, Deciding, Settled
<1>3. lease = {t} /\ \A q \in Sources \ {t} : pc[q] \notin Held
  BY <1>1, <1>2, Alone, SourcesAre
<1>4. Unresolved(t) /\ fence = {t} /\ ~record[t].finalized
  BY <1>1, <1>2, Zenon DEF Standing, CommittingAt, Unresolved
<1>5. \A u \in Tx : Unresolved(u)' = Unresolved(u) /\ Restored(u)' = Restored(u)
                    /\ Intent(u)' = Intent(u)
  BY <1>1, Zenon DEF Unresolved, Restored, Intent
<1>6. CASE Leave(t, "abort") /\ UNCHANGED <<source, quarantine>>
  BY <1>1, <1>2, <1>6, Leaving, SourcesAre, Zenon DEF files, Types
<1>7. CASE MoveToSource /\ Goto(t, "undo.fence") /\ lease' = lease
  <2>1. /\ pc' \in [Sources -> Labels] /\ pc'[t] = "undo.fence"
        /\ \A q \in Sources \ {t} : pc'[q] = pc[q]
    BY <1>2, <1>7, Going, SourcesAre
  <2>2. ~Exists(quarantine)' /\ source' \in File /\ quarantine' \in File
    BY <1>7, MissingIsFile DEF MoveToSource, Exists, Types
  <2>3. Types'
    BY <1>1, <2>1, <2>2 DEF Types
  <2>4. CommittingAt(t, "undo.fence")' /\ ReconcilingAt("undo.fence")'
    BY <1>4, <1>5, <2>2 DEF CommittingAt, ReconcilingAt
  <2>5. Exclusion' /\ Standing'
    BY <1>2, <1>3, <1>7, <2>4, UnderLease, SourcesAre
  <2>6. Fenced' /\ Apart'
    BY <2>2, Zenon DEF Fenced, Apart
  <2>7. OneUnresolved' /\ RestoredIsClean'
    BY <1>1, <1>5, Zenon DEF OneUnresolved, RestoredIsClean
  <2>8. Accepted'
    BY <1>1, <1>4, <1>5, Zenon DEF Accepted
  <2> QED  BY <2>3, <2>5, <2>6, <2>7, <2>8
<1> QED  BY <1>6, <1>7, Zenon DEF UndoRestore

\* The fence comes down with nothing behind it.
LEMMA UndoFenceHolds ==
    ASSUME QuarantineInv, NEW t \in Tx, UndoFence(t)
    PROVE  QuarantineInv'
<1> USE DEF QuarantineInv
<1>1. /\ pc[t] \in {"undo.fence", "undo.unfence"}
      /\ UNCHANGED <<source, quarantine, record, todo, ack, runner, inodes, foreign>>
  BY DEF UndoFence, Fault, bounds
<1>2. /\ pc[t] \in Held /\ pc[t] \in Deciding
      /\ "undo.record" \in Labels /\ "undo.record" \in Held /\ "abort" \in Settled
  BY <1>1 DEF Labels, Held, Deciding, Settled
<1>3. lease = {t} /\ \A q \in Sources \ {t} : pc[q] \notin Held
  BY <1>2, Alone, SourcesAre
<1>4. PICK label \in {"undo.record", "abort"} :
         /\ Goto(t, label) /\ lease' = IF label = "abort" THEN {} ELSE lease
         /\ fence' \in {fence, {}}
         /\ label = "undo.record" => fence' = {}
  BY DEF UndoFence, Leave
<1>5. Unresolved(t) /\ ~Exists(quarantine) /\ ~Exists(quarantine)'
  BY <1>1, <1>2, Zenon DEF Standing, CommittingAt, Exists
<1>6. \A u \in Tx : Unresolved(u)' = Unresolved(u) /\ Restored(u)' = Restored(u)
                    /\ Intent(u)' = Intent(u)
  BY <1>1, Zenon DEF Unresolved, Restored, Intent
<1>7. /\ label \in Labels /\ lease' = IF label \in Held THEN {t} ELSE {}
  BY <1>2, <1>3, <1>4, Relaxed
<1>8. /\ pc' \in [Sources -> Labels] /\ pc'[t] = label
      /\ \A q \in Sources \ {t} : pc'[q] = pc[q]
  BY <1>4, <1>7, Going, SourcesAre
<1>9. Types'
  BY <1>1, <1>4, <1>8, Zenon DEF Types
<1>10. Exclusion' /\ Standing'
  <2>1. CommittingAt(t, label)' /\ ReconcilingAt(label)'
    BY <1>4, <1>5, <1>6, Zenon DEF CommittingAt, ReconcilingAt, Deciding
  <2> QED  BY <1>3, <1>4, <1>7, <2>1, UnderLease, SourcesAre, Zenon
<1>11. Fenced' /\ Apart'
  BY <1>5, Zenon DEF Fenced, Apart
<1>12. OneUnresolved' /\ RestoredIsClean'
  BY <1>1, <1>4, <1>6, Zenon DEF OneUnresolved, RestoredIsClean
<1>13. Accepted'
  BY <1>1, <1>5, <1>6, Zenon DEF Accepted, Intent
<1> QED  BY <1>9, <1>10, <1>11, <1>12, <1>13

\* The restored record ends the source's own transaction.
LEMMA UndoRecordHolds ==
    ASSUME QuarantineInv, NEW t \in Tx, UndoRecord(t)
    PROVE  QuarantineInv'
<1> USE DEF QuarantineInv
<1>1. /\ pc[t] = "undo.record"
      /\ UNCHANGED <<source, quarantine, fence, todo, ack, runner, inodes, foreign>>
  BY DEF UndoRecord, Fault, bounds
<1>2. PICK named \in {"applied", "unapplied"} :
         Write(t, "restored", named) \/ UNCHANGED record
  BY DEF UndoRecord
<1>3. PICK label \in Settled : Leave(t, label)
  BY DEF UndoRecord, Settled
<1>4. "undo.record" \in Held /\ "undo.record" \in Deciding
  BY DEF Held, Deciding
<1>5. lease = {t} /\ \A q \in Sources \ {t} : pc[q] \notin Held
  BY <1>1, <1>4, Alone, SourcesAre
<1>6. Unresolved(t) /\ ~Exists(quarantine) /\ fence = {}
  BY <1>1, <1>4 DEF Standing, CommittingAt
<1>7. /\ pc' \in [Sources -> Labels] /\ pc'[t] = label
      /\ \A q \in Sources \ {t} : pc'[q] = pc[q]
  BY <1>3, Relaxed, Going, SourcesAre DEF Leave
<1>8. /\ record' \in [Tx -> RecordType]
      /\ \A u \in Tx :
            /\ Intent(u)' = Intent(u) /\ record'[u].intent = record[u].intent
            /\ record'[u].finalized = record[u].finalized
            /\ record'[u].blocked = record[u].blocked
            /\ Unresolved(u)' => Unresolved(u)
            /\ u # t => Restored(u)' = Restored(u)
  <2>1. CASE Write(t, "restored", named)
    BY <2>1, WroteRestored, Zenon DEF Intent, Restored, Unresolved
  <2>2. CASE UNCHANGED record
    BY <2>2, Zenon DEF Intent, Restored, Unresolved, Types
  <2> QED  BY <1>2, <2>1, <2>2, Zenon
<1>9. Types'
  BY <1>1, <1>7, <1>8, Zenon DEF Types
<1>10. Exclusion' /\ Standing'
  BY <1>3, <1>5, Relaxed, UnderLease, SourcesAre DEF Leave
<1>11. Fenced' /\ Apart'
  BY <1>1, <1>6, Zenon DEF Fenced, Apart, Exists
<1>12. OneUnresolved' /\ RestoredIsClean'
  BY <1>1, <1>6, <1>8, Zenon DEF OneUnresolved, RestoredIsClean, Unresolved
<1>13. Accepted'
  BY <1>1, <1>8, Zenon DEF Accepted
<1> QED  BY <1>9, <1>10, <1>11, <1>12, <1>13

-----------------------------------------------------------------------------
(* Steps of the worker, of the runner and of others. *)

\* A step that moves no process and no record: it may touch the journals while
\* nobody relies on what they are.
LEMMA Standstill ==
    ASSUME QuarantineInv, UNCHANGED <<fence, record, lease, pc, todo>>,
           Exists(quarantine)' => Exists(quarantine)
    PROVE  Exclusion' /\ Standing' /\ OneUnresolved' /\ RestoredIsClean'
<1> USE DEF QuarantineInv
<1>1. \A u \in Tx : Unresolved(u)' = Unresolved(u) /\ Restored(u)' = Restored(u)
                    /\ Intent(u)' = Intent(u)
  BY Zenon DEF Unresolved, Restored, Intent
<1>2. Exclusion'
  BY DEF Exclusion
<1>3. \A t \in Tx : CommittingAt(t, pc[t])'
  BY <1>1, Zenon DEF Standing, CommittingAt
<1>4. \A p \in Sources : ReconcilingAt(pc[p])'
  BY <1>1, SameCurrent, Zenon DEF Standing, ReconcilingAt
<1>5. OneUnresolved' /\ RestoredIsClean'
  BY <1>1, Zenon DEF OneUnresolved, RestoredIsClean
<1> QED  BY <1>2, <1>3, <1>4, <1>5 DEF Standing

\* The worker writes only where no fence stands, and so none of its journals is in
\* quarantine.
LEMMA AppendHolds ==
    ASSUME QuarantineInv, NEW part \in Seq({"event", "part"}), AppendPart(part), foreign' = foreign
    PROVE  QuarantineInv'
<1> USE DEF QuarantineInv
<1>1. /\ fence = {} /\ source' = Extended(part) /\ inodes' \in {inodes, inodes + 1}
      /\ UNCHANGED <<quarantine, fence, record, lease, pc, todo, ack, runner>>
  BY DEF AppendPart
<1>2. ~Exists(quarantine) /\ ~Exists(quarantine)'
  BY <1>1 DEF Fenced, Exists
<1>3. source' \in File
  <2>1. source.content \o part \in Seq({"event", "part"})
    BY DEF File, Types
  <2>2. [source EXCEPT !.content = source.content \o part] \in File
    BY <2>1, Zenon DEF File, Types
  <2>3. [inode |-> inodes + 1, content |-> part] \in File
    BY DEF File, Types
  <2> QED  BY <1>1, <2>2, <2>3 DEF Extended
<1>4. Types'
  BY <1>1, <1>3 DEF Types
<1>5. Exclusion' /\ Standing' /\ OneUnresolved' /\ RestoredIsClean'
  BY <1>1, <1>2, Standstill
<1>6. Fenced' /\ Apart'
  BY <1>2, Zenon DEF Fenced, Apart
<1>7. Accepted'
  BY <1>1, Zenon DEF Accepted, Intent
<1> QED  BY <1>4, <1>5, <1>6, <1>7

\* Whoever ignores lock and fence brings nothing into quarantine.
LEMMA InterveneHolds ==
    ASSUME QuarantineInv, Intervene
    PROVE  QuarantineInv'
<1> USE DEF QuarantineInv
<1>1. /\ foreign' = foreign + 1 /\ quarantine' \in {quarantine, Missing}
      /\ UNCHANGED <<fence, record, lease, pc, todo, ack, runner>>
  BY DEF Intervene
<1>2. source' \in File /\ inodes' \in Nat
  <2>1. <<"event">> \in Seq({"event", "part"})
    OBVIOUS
  <2>2. [inode |-> inodes + 1, content |-> <<"event">>] \in File
    BY <2>1 DEF File, Types
  <2> QED  BY <2>2, MissingIsFile DEF Intervene, Types
<1>3. Types' /\ foreign' # 0
  BY <1>1, <1>2, MissingIsFile DEF Types
<1>4. Exclusion' /\ Standing' /\ OneUnresolved' /\ RestoredIsClean'
  BY <1>1, Standstill DEF Exists
<1>5. Fenced'
  BY <1>1, Zenon DEF Fenced, Exists, Restored
<1>6. Apart'
  BY <1>3 DEF Apart
<1>7. Accepted'
  BY <1>1, <1>3, Zenon DEF Accepted, Intent
<1> QED  BY <1>3, <1>4, <1>5, <1>6, <1>7

\* What the runner makes of a proposal is its own affair until it accepts.
LEMMA RunnerHolds ==
    ASSUME QuarantineInv, NEW t \in Tx, RunnerCommit(t) \/ RunnerReject(t)
    PROVE  QuarantineInv'
<1> USE DEF QuarantineInv
<1>1. PICK verdict \in {"committed", "rejected"} : runner' = [runner EXCEPT ![t] = verdict]
  BY Zenon DEF RunnerCommit, RunnerReject
<1>2. UNCHANGED <<source, quarantine, fence, record, lease, pc, todo, ack, inodes, foreign>>
  BY Zenon DEF RunnerCommit, RunnerReject, files, bounds
<1>3. Types'
  BY <1>1, <1>2, Zenon DEF Types
<1>4. Exclusion' /\ Standing' /\ OneUnresolved' /\ RestoredIsClean'
  BY <1>2, Standstill, Zenon DEF Exists
<1>5. Fenced' /\ Apart'
  BY <1>2, Zenon DEF Fenced, Apart, Exists, Restored
<1>6. Accepted'
  BY <1>1, <1>2, Zenon DEF Accepted, Intent, Types
<1> QED  BY <1>3, <1>4, <1>5, <1>6

\* The runner accepts, under the lease, a journal that lies behind the fence of the
\* transaction.
LEMMA FinalizeHolds ==
    ASSUME QuarantineInv, NEW t \in Tx, Finalize(t)
    PROVE  QuarantineInv'
<1> USE DEF QuarantineInv
<1>1. /\ lease = {}
      /\ UNCHANGED <<source, quarantine, fence, lease, pc, todo, ack, inodes, foreign>>
  BY DEF Finalize, bounds
<1>2. \A q \in Sources : pc[q] \notin Held
  BY <1>1, NobodyHolds
<1>3. \/ /\ UNCHANGED record /\ runner' = [runner EXCEPT ![t] = "rejected"]
      \/ /\ ~Restored(t) /\ Write(t, "blocked", TRUE)
         /\ runner' = [runner EXCEPT ![t] = "rejected"]
      \/ /\ ~Restored(t) /\ Write(t, "finalized", TRUE)
         /\ Intent(t) /\ quarantine = record[t].intent /\ fence = {t}
         /\ runner' = [runner EXCEPT ![t] = "accepted"]
  BY Zenon DEF Finalize, Finalizable
<1>4. /\ record' \in [Tx -> RecordType]
      /\ \A u \in Tx :
            /\ Intent(u)' = Intent(u) /\ Restored(u)' = Restored(u)
            /\ record'[u].intent = record[u].intent
            /\ Unresolved(u)' => Unresolved(u)
            /\ record[u].finalized => record'[u].finalized
            /\ Restored(u) => /\ record'[u].finalized = record[u].finalized
                              /\ record'[u].blocked = record[u].blocked
  <2>1. CASE UNCHANGED record
    BY <2>1, Zenon DEF Intent, Restored, Unresolved, Types
  <2>2. CASE ~Restored(t) /\ Write(t, "blocked", TRUE)
    BY <2>2, WroteBlocked, Zenon DEF Intent, Restored, Unresolved
  <2>3. CASE ~Restored(t) /\ Write(t, "finalized", TRUE)
    BY <2>3, WroteFinalized, Zenon DEF Intent, Restored, Unresolved
  <2> QED  BY <1>3, <2>1, <2>2, <2>3, Zenon
<1>5. Types'
  BY <1>1, <1>3, <1>4, Zenon DEF Types
<1>6. Exclusion'
  BY <1>1 DEF Exclusion
<1>7. Standing'
  BY <1>1, <1>2, SourcesAre, Zenon DEF Standing, CommittingAt, ReconcilingAt, Held, Deciding
<1>8. Fenced' /\ Apart'
  BY <1>1, <1>4, Zenon DEF Fenced, Apart, Exists
<1>9. OneUnresolved' /\ RestoredIsClean'
  BY <1>1, <1>4, Zenon DEF OneUnresolved, RestoredIsClean
<1>10. Accepted'
  <2>1. \A u \in Tx \ {t} : runner'[u] = runner[u]
    BY <1>3, Zenon DEF Types
  <2>2. runner'[t] = "accepted" =>
           /\ record'[t].finalized /\ Intent(t) /\ quarantine = record[t].intent /\ fence = {t}
    BY <1>3, WroteFinalized, Zenon DEF Types
  <2> QED  BY <1>1, <1>4, <2>1, <2>2, Zenon DEF Accepted
<1> QED  BY <1>5, <1>6, <1>7, <1>8, <1>9, <1>10

-----------------------------------------------------------------------------
(* The invariant holds. *)

\* Every step that a source takes by itself keeps the invariant.
LEMMA ContinueHolds ==
    ASSUME QuarantineInv, NEW p \in Sources, Continue(p)
    PROVE  QuarantineInv'
<1>1. CASE \E t \in Tx : \/ ReconcileAccept(p, t) \/ ReconcileBlock(p, t)
                         \/ ReconcileRestore(p, t)
  BY <1>1, AcceptHolds, BlockHolds, RestoreHolds
<1>2. CASE \E t \in Tx : ReconcileRefuse(p, t)
  <2>1. pc[p] \in Held /\ Exit(p) /\ ack' \subseteq Tx
        /\ UNCHANGED <<files, todo, runner, inodes, foreign>>
    BY <1>2, Zenon DEF ReconcileRefuse, Reconciling, Held, bounds, QuarantineInv, Types
  <2> QED  BY <2>1, Exiting, Leaving
<1>3. CASE ReconcileFence(p) \/ ReconcileRecord(p) \/ ReconcileDone(p)
  BY <1>3, ReconcileFenceHolds, ReconcileRecordHolds, DoneHolds
<1>4. CASE NothingToPrepare(p)
  <2>1. pc[p] \in Held /\ Exit(p) /\ ack' \subseteq Tx
        /\ UNCHANGED <<files, todo, runner, inodes, foreign>>
    BY <1>4, Zenon DEF NothingToPrepare, Held, bounds, QuarantineInv, Types
  <2> QED  BY <2>1, Exiting, Leaving
<1>5. CASE Abort(p)
  BY <1>5, BeginHolds DEF Abort
<1>6. CASE AbortBusy(p) \/ (p \in Tx /\ CommitRefused(p))
  <2>1. \E label \in Settled : Goto(p, label)
    BY <1>6, Zenon DEF AbortBusy, CommitRefused, Settled
  <2>2. lease' = lease /\ ack' \subseteq Tx /\ pc[p] \notin Held
        /\ UNCHANGED <<files, todo, runner, inodes, foreign>>
    BY <1>6, Zenon DEF AbortBusy, CommitRefused, Held, bounds, QuarantineInv, Types
  <2>3. lease' = lease \ {p}
    BY <2>2 DEF QuarantineInv, Exclusion
  <2> QED  BY <2>1, <2>2, <2>3, Settling
<1>7. CASE p \in Tx /\ Prepare(p)
  BY <1>7, PrepareHolds
<1>8. CASE p \in Tx /\ (CommitStart(p) \/ CommitCheck(p) \/ CommitFence(p) \/ CommitMove(p)
                        \/ CommitApplied(p) \/ CommitNotVerified(p))
  BY <1>8, CommitStartHolds, CommitCheckHolds, CommitFenceHolds, CommitMoveHolds,
     CommitAppliedHolds, CommitNotVerifiedHolds
<1>9. CASE p \in Tx /\ CommitVerified(p)
  <2>1. pc[p] \in Held /\ Leave(p, "done") /\ "done" \in Settled /\ ack' \subseteq Tx
        /\ UNCHANGED <<files, todo, runner, inodes, foreign>>
    BY <1>9, Zenon DEF CommitVerified, Held, Settled, bounds, QuarantineInv, Types
  <2> QED  BY <2>1, Leaving
<1>10. CASE p \in Tx /\ Undo(p)
  BY <1>10, UndoRestoreHolds, UndoFenceHolds, UndoRecordHolds DEF Undo
<1> QED  BY <1>1, <1>2, <1>3, <1>4, <1>5, <1>6, <1>7, <1>8, <1>9, <1>10, Zenon
         DEF Continue, Reconcile, Commit

\* So does every step.
LEMMA StepHolds ==
    ASSUME QuarantineInv, [Next]_vars
    PROVE  QuarantineInv'
<1>1. CASE \E p \in Sources : Start(p) \/ Continue(p) \/ Kill(p)
  BY <1>1, BeginHolds, ContinueHolds, KillHolds DEF Start
<1>2. CASE \E t \in Tx : RunnerCommit(t) \/ RunnerReject(t) \/ Finalize(t)
  BY <1>2, RunnerHolds, FinalizeHolds
<1>3. CASE AppendEvent \/ AppendTorn
  <2>1. PICK part \in Seq({"event", "part"}) : AppendPart(part)
    <3>1. <<"event">> \in Seq({"event", "part"}) /\ <<"part">> \in Seq({"event", "part"})
          /\ <<>> \in Seq({"event", "part"})
      OBVIOUS
    <3> QED  BY <1>3, <3>1, Zenon DEF AppendEvent, AppendTorn
  <2>2. foreign' = foreign
    BY <1>3 DEF AppendEvent, AppendTorn, bounds, Fault
  <2> QED  BY <2>1, <2>2, AppendHolds
<1>4. CASE Intervene
  BY <1>4, InterveneHolds
<1>5. CASE UNCHANGED vars
  <2>1. UNCHANGED <<source, quarantine, fence, record, lease, pc, todo, ack, runner, inodes,
                    foreign>>
    BY <1>5 DEF vars
  <2>2. Exclusion' /\ Standing' /\ OneUnresolved' /\ RestoredIsClean'
    BY <2>1, Standstill DEF Exists
  <2>3. Types' /\ Fenced' /\ Apart' /\ Accepted'
    BY <2>1, Zenon DEF QuarantineInv, Types, Fenced, Apart, Accepted, Exists, Restored, Intent
  <2> QED  BY <2>2, <2>3 DEF QuarantineInv
<1> QED  BY <1>1, <1>2, <1>3, <1>4, <1>5 DEF Next

\* It holds where there is no journal and no record yet.
LEMMA InitHolds ==
    ASSUME Init
    PROVE  QuarantineInv
<1>1. NoRecord \in RecordType
  BY MissingIsFile DEF NoRecord, RecordType
<1>2. "idle" \in Labels /\ "idle" \notin Held /\ "idle" \notin Deciding
  BY DEF Labels, Held, Deciding
<1>3. Types
  BY <1>1, <1>2, MissingIsFile DEF Init, Types
<1>4. Exclusion
  BY <1>2 DEF Init, Exclusion
<1>5. \A t \in Tx : ~Intent(t) /\ ~Restored(t) /\ ~Unresolved(t)
  BY Zenon DEF Init, Intent, Exists, Restored, Unresolved, NoRecord
<1>6. Fenced /\ Apart /\ Accepted
  BY Zenon DEF Init, Fenced, Apart, Accepted, Exists
<1>7. Standing
  BY <1>2, SourcesAre, Zenon DEF Init, Standing, CommittingAt, ReconcilingAt
<1>8. OneUnresolved /\ RestoredIsClean
  BY <1>5 DEF OneUnresolved, RestoredIsClean
<1> QED  BY <1>3, <1>4, <1>6, <1>7, <1>8 DEF QuarantineInv

\* Whatever is killed, fails or interferes, and for any number of transactions: the
\* types; the lease excludes; the journal lies behind the fence of a transaction that
\* has moved it; every source and every reconciliation finds what its next step relies
\* on; and at most one transaction is unresolved.
THEOREM QuarantineInvariant == Spec => []QuarantineInv
<1>1. Init => QuarantineInv
  BY InitHolds
<1>2. QuarantineInv /\ [Next]_vars => QuarantineInv'
  BY StepHolds
<1> QED  BY <1>1, <1>2, PTL DEF Spec

\* A journal in quarantine is always fenced: the commit installs the fence before it renames
\* the journal, and both ways to undo this take it down only after the journal is back.
THEOREM AlwaysFenced == Spec => []QuarantinedIsFenced
<1>1. QuarantineInv => QuarantinedIsFenced
  BY Zenon DEF QuarantineInv, Fenced, QuarantinedIsFenced
<1> QED  BY <1>1, QuarantineInvariant, PTL

\* Without interventions the worker's journal is never in two files: append_event, which
\* alone creates one, refuses a fenced journal.
THEOREM AlwaysOneJournal == Spec => []OneJournal
<1>1. ASSUME QuarantineInv PROVE OneJournal
  <2>1. SUFFICES ASSUME foreign = 0 PROVE Cardinality(Journals) <= 1
    BY DEF OneJournal
  <2>2. Journals = {} \/ Journals = {source} \/ Journals = {quarantine}
    BY <1>1, <2>1 DEF QuarantineInv, Apart, Journals
  <2>3. Cardinality({}) = 0 /\ Cardinality({source}) = 1 /\ Cardinality({quarantine}) = 1
    BY FS_EmptySet, FS_Singleton, Zenon
  <2> QED  BY <2>2, <2>3
<1> QED  BY <1>1, QuarantineInvariant, PTL

\* What the runner finalized stays in quarantine: no later source undoes it, because a
\* finalized transaction is not unresolved and nobody undoes behind another's fence.
THEOREM AlwaysAccepted == Spec => []AcceptedStays
<1>1. ASSUME QuarantineInv PROVE AcceptedStays
  BY <1>1 DEF QuarantineInv, Types, Accepted, AcceptedStays
<1> QED  BY <1>1, QuarantineInvariant, PTL

\* A restored transaction is over: it is written restored only while it is unresolved and
\* under the lock, and nothing is written about it afterwards.
THEOREM AlwaysClean == Spec => []RestoredIsClean
<1>1. QuarantineInv => RestoredIsClean
  BY DEF QuarantineInv
<1> QED  BY <1>1, QuarantineInvariant, PTL

\* However many sources were started and died, reconciliation never has two transactions
\* to decide between: a source publishes its intent under the lock under which it has
\* reconciled every other one.
THEOREM AlwaysOneUnresolved == Spec => []OneUnresolved
<1>1. QuarantineInv => OneUnresolved
  BY DEF QuarantineInv
<1> QED  BY <1>1, QuarantineInvariant, PTL

-----------------------------------------------------------------------------
(* No journal is lost. *)

\* What the program does to the two journals in a step: nothing, an append, or a
\* rename to a free name.
LEMMA JournalSteps ==
    ASSUME Next, foreign' = foreign, foreign \in Nat
    PROVE  \/ UNCHANGED <<source, quarantine>>
           \/ \E part \in Seq({"event", "part"}) :
                 source' = Extended(part) /\ quarantine' = quarantine
           \/ MoveToQuarantine /\ ~Exists(quarantine)
           \/ MoveToSource /\ ~Exists(source)
<1>1. CASE \E p \in Sources : Start(p) \/ Kill(p)
  BY <1>1, Zenon DEF Start, Begin, Kill, files
<1>2. CASE \E p \in Sources : Continue(p)
  <2>1. PICK p \in Sources : Continue(p)
    BY <1>2
  <2>2. CASE Reconcile(p)
    BY <2>2, Zenon DEF Reconcile, ReconcileAccept, ReconcileBlock, ReconcileRefuse, ReconcileRestore,
                ReconcileFence, ReconcileRecord, ReconcileDone, MoveRemnant, files
  <2>3. CASE NothingToPrepare(p) \/ Abort(p) \/ AbortBusy(p) \/ Prepare(p)
    BY <2>3, Zenon DEF NothingToPrepare, Abort, Begin, AbortBusy, Prepare, files
  <2>4. CASE Commit(p)
    BY <2>4, Zenon DEF Commit, CommitStart, CommitRefused, CommitCheck, CommitFence, CommitMove,
                CommitApplied, CommitVerified, CommitNotVerified, Movable, Renamable, files
  <2>5. CASE Undo(p)
    BY <2>5, Zenon DEF Undo, UndoRestore, UndoFence, UndoRecord, Movable, Renamable
  <2> QED  BY <2>1, <2>2, <2>3, <2>4, <2>5, Zenon DEF Continue
<1>3. CASE \E t \in Tx : RunnerCommit(t) \/ RunnerReject(t) \/ Finalize(t)
  BY <1>3, Zenon DEF RunnerCommit, RunnerReject, Finalize, files
<1>4. CASE AppendEvent \/ AppendTorn
  <2>1. <<"event">> \in Seq({"event", "part"}) /\ <<"part">> \in Seq({"event", "part"})
        /\ <<>> \in Seq({"event", "part"})
    OBVIOUS
  <2> QED  BY <1>4, <2>1, Zenon DEF AppendEvent, AppendTorn, AppendPart
<1>5. CASE Intervene
  BY <1>5 DEF Intervene
<1> QED  BY <1>1, <1>2, <1>3, <1>4, <1>5, Zenon DEF Next

\* A journal that did not change is an appended version of itself,
LEMMA SameIsAppended ==
    ASSUME NEW f \in File
    PROVE  SameAppendOnlyJournal(f, f)
BY DEF SameAppendOnlyJournal, File

\* and so is one to which something was appended.
LEMMA LongerIsAppended ==
    ASSUME NEW f \in File, NEW part \in Seq({"event", "part"})
    PROVE  SameAppendOnlyJournal([f EXCEPT !.content = f.content \o part], f)
<1> DEFINE g == [f EXCEPT !.content = f.content \o part]
<1>1. g.inode = f.inode /\ g.content = f.content \o part
  BY DEF File
<1>2. f.content \in Seq({"event", "part"})
  BY DEF File
<1>3. /\ Len(f.content) <= Len(f.content \o part)
      /\ SubSeq(f.content \o part, 1, Len(f.content)) = f.content
  BY <1>2
<1> HIDE DEF g
<1>4. SameAppendOnlyJournal(g, f)
  BY <1>1, <1>3, Zenon DEF SameAppendOnlyJournal
<1> QED  BY <1>4 DEF g

\* No step of the program removes a journal or anything in it: both renames refuse a
\* target that exists, and a worker only appends.
THEOREM NeverLost == Spec => NothingLost
<1>1. ASSUME QuarantineInv, [Next]_vars
      PROVE  [foreign' = foreign =>
                 \A f \in Journals : \E g \in Journals' : SameAppendOnlyJournal(g, f)]_vars
  <2>1. SUFFICES ASSUME Next, foreign' = foreign, NEW f \in Journals
                 PROVE  \E g \in Journals' : SameAppendOnlyJournal(g, f)
    BY <1>1
  <2>2. f \in File /\ f \in {source, quarantine} /\ Exists(f)
    BY <1>1, <2>1 DEF Journals, QuarantineInv, Types
  <2>3. \A g \in {source', quarantine'} : Exists(g) => g \in Journals'
    BY DEF Journals, Exists
  <2>4. CASE f \in {source', quarantine'}
    BY <2>2, <2>3, <2>4, SameIsAppended
  <2>5. CASE /\ f = source /\ \E part \in Seq({"event", "part"}) : source' = Extended(part)
    <3>1. PICK part \in Seq({"event", "part"}) :
             source' = [f EXCEPT !.content = f.content \o part]
      BY <2>2, <2>5, Zenon DEF Extended
    <3>2. SameAppendOnlyJournal(source', f)
      BY <2>2, <3>1, LongerIsAppended, Zenon
    <3>3. Exists(source')
      <4>1. source'.inode = f.inode /\ source'.content = f.content \o part
        BY <2>2, <3>1 DEF File
      <4>2. f.content \in Seq({"event", "part"}) /\ f = [inode |-> f.inode, content |-> f.content]
        BY <2>2 DEF File
      <4>3. ASSUME source' = Missing PROVE FALSE
        <5>1. f.inode = 0 /\ f.content \o part = <<>>
          BY <4>1, <4>3, Zenon DEF Missing
        <5>2. f.content = <<>>
          BY <4>2, <5>1
        <5> QED  BY <2>2, <4>2, <5>1, <5>2 DEF Missing, Exists
      <4> QED  BY <4>3 DEF Exists
    <3> QED  BY <2>3, <3>2, <3>3
  <2>6. foreign \in Nat
    BY <1>1 DEF QuarantineInv, Types
  <2> QED  BY <2>1, <2>2, <2>4, <2>5, <2>6, JournalSteps, Zenon DEF MoveToQuarantine, MoveToSource
<1> QED  BY <1>1, QuarantineInvariant, PTL DEF Spec, NothingLost

=============================================================================
