------------------------- MODULE ExposureGateProofs -------------------------
(***************************************************************************)
(* Proofs about the exposure gate and its oracle, for any sets of requests *)
(* and leases, any number of crashes and any drift of the route.  First    *)
(* what the gate does to its route and its requests; then the grammar of   *)
(* its journal, from which follows what a replay and the oracle find in    *)
(* it; last the verdicts, and what a call of the gate returns.             *)
(***************************************************************************)
EXTENDS TraceOracle, TLAPS

Kinds == {"intent", "receipt"}

-----------------------------------------------------------------------------
(* The vocabulary. *)

\* The terminal states are gate states, and a gate state is not "absent".
LEMMA StateSets ==
    /\ Terminal \subseteq GateState
    /\ "absent" \notin GateState
BY DEF Terminal, GateState

\* The routes the gate itself sets up are routes.
LEMMA RouteTypes ==
    PredRoute \in RouteState /\ CandRoute \in RouteState /\ ClosedRoute \in RouteState
BY DEF PredRoute, CandRoute, ClosedRoute, RouteState, Names, Fences

\* _append keeps the journal a sequence of entries.
LEMMA JournalTyped ==
    ASSUME log \in Seq(EntryType),
           NEW kind \in Kinds, NEW op \in Operation, NEW id \in OperationId,
           NEW from \in GateState, NEW to \in GateState \cup {"none"},
           Journal(kind, op, id, from, to)
    PROVE  log' \in Seq(EntryType)
<1>1. Entry(kind, op, id, from, to) \in EntryType
  BY DEF Entry, EntryType, Kinds
<1> QED  BY <1>1 DEF Journal

\* _transition keeps the row and the journal typed, and moves to its target.
LEMMA MoveTyped ==
    ASSUME row \in Row, Staged, log \in Seq(EntryType),
           NEW target \in GateState, NEW kind \in Kinds, NEW op \in Operation,
           NEW id \in OperationId, NEW cols \in Row,
           Move(target, kind, op, id, cols)
    PROVE  /\ log' \in Seq(EntryType)
           /\ row' \in Row /\ row'.state = target
           /\ row'.route_generation = cols.route_generation
           /\ row'.route_fence = cols.route_fence
           /\ row'.observed_candidate = cols.observed_candidate
<1>1. row.state \in GateState
  BY DEF Row, Staged
<1>2. log' \in Seq(EntryType)
  BY <1>1, JournalTyped DEF Move
<1>3. Len(log) + 1 \in Nat
  OBVIOUS
<1>4. row' = [cols EXCEPT !.state = target, !.transition_seq = Len(log) + 1]
  BY DEF Move
<1> QED  BY <1>2, <1>3, <1>4, Zenon DEF Row

\* What a transaction that may be rolled back leaves behind.
LEMMA MoveOrRaiseTyped ==
    ASSUME row \in Row, Staged, log \in Seq(EntryType),
           NEW target \in GateState, NEW kind \in Kinds, NEW op \in Operation,
           NEW id \in OperationId, NEW cols \in Row, NEW value,
           MoveOrRaise(target, kind, op, id, cols, value)
    PROVE  /\ log' \in Seq(EntryType) /\ row' \in Row /\ at' = "idle"
           /\ row'.state \in GateState
           /\ \/ row' = row /\ log' = log
              \/ /\ row'.state = target /\ CanMove(target)
                 /\ row'.route_generation = cols.route_generation
                 /\ row'.route_fence = cols.route_fence
                 /\ row'.observed_candidate = cols.observed_candidate
                 /\ log' = Append(log, Entry(kind, op, id, row.state, target))
<1>1. CASE CanMove(target) /\ Move(target, kind, op, id, cols) /\ Return(value)
  <2>1. /\ log' \in Seq(EntryType) /\ row' \in Row /\ row'.state = target
        /\ row'.route_generation = cols.route_generation
        /\ row'.route_fence = cols.route_fence
        /\ row'.observed_candidate = cols.observed_candidate
    BY <1>1, MoveTyped
  <2>2. at' = "idle" /\ log' = Append(log, Entry(kind, op, id, row.state, target))
    BY <1>1 DEF Return, Move, Journal
  <2> QED  BY <1>1, <2>1, <2>2
<1>2. CASE UNCHANGED db /\ Return("error")
  <2>1. row.state \in GateState
    BY DEF Row, Staged
  <2> QED  BY <1>2, <2>1 DEF Return, db
<1> QED  BY <1>1, <1>2 DEF MoveOrRaise

\* The columns the transactions write are typed.
LEMMA ColumnTypes ==
    ASSUME row \in Row, route \in RouteState
    PROVE  /\ AtRoute \in Row /\ Unqueried \in Row
           /\ AtRoute.route_generation = route.generation
           /\ AtRoute.route_fence = route.fence
           /\ [AtRoute EXCEPT !.observed_candidate = route.snapshot] \in Row
           /\ [row EXCEPT !.route_generation = "none", !.route_fence = "closed"] \in Row
BY Zenon DEF AtRoute, Unqueried, Row, RouteState, Names, Fences

-----------------------------------------------------------------------------
(* What any step does to the database: the facts that every invariant below  *)
(* rests on, proved once, action by action.                                  *)

SameRoute ==
    /\ row'.route_generation = row.route_generation
    /\ row'.route_fence = row.route_fence
    /\ row'.observed_candidate = row.observed_candidate

RecordsCandidate ==
    /\ row'.route_generation = "cand" /\ row'.route_fence = "cand"
    /\ row'.observed_candidate = "cand"

RowMove ==
    \/ row'.state \in Terminal
    \/ row'.state \in {"CANDIDATE_CLOSED", "OPENING", "DRAINING"} /\ SameRoute
    \/ row'.state = "CANDIDATE_OPEN" /\ RecordsCandidate
    \/ row'.state = "CANDIDATE_OPEN" /\ row.state = "DRAINING" /\ SameRoute

RowStep ==
    \/ row' = row
    \/ ~Staged /\ row'.state = "CANDIDATE_STAGED"
    \/ Staged /\ CanMove(row'.state) /\ RowMove

DrainLogged == Logged("receipt", "drain")

LogStep ==
    DrainLogged' =>
        \/ DrainLogged
        \/ row'.state = "CANDIDATE_OPEN" /\ Unfinished("pred") = {}

DbStep ==
    /\ log' \in Seq(EntryType) /\ row' \in Row
    /\ Staged => Staged'
    /\ RowStep /\ LogStep

\* Only a drain receipt makes DrainLogged true.
LEMMA AppendKeepsDrain ==
    ASSUME log \in Seq(EntryType), NEW e \in EntryType, log' = Append(log, e),
           e.kind = "intent" \/ e.operation_id # "drain"
    PROVE  DrainLogged' => DrainLogged
<1> SUFFICES ASSUME NEW i \in DOMAIN log', log'[i].kind = "receipt",
                    log'[i].operation_id = "drain"
             PROVE  DrainLogged
  BY DEF DrainLogged, Logged
<1>1. i \in DOMAIN log /\ log'[i] = log[i]
  OBVIOUS
<1> QED  BY <1>1 DEF DrainLogged, Logged

\* A step that leaves the database alone.
LEMMA QuietStep == ASSUME TypeOK, UNCHANGED db PROVE DbStep
BY DEF TypeOK, db, DbStep, RowStep, LogStep, DrainLogged, Logged, Staged

\* A step that appends to the journal and leaves the row alone.
LEMMA NoteStep ==
    ASSUME TypeOK, UNCHANGED row,
           NEW kind \in Kinds, NEW op \in Operation, NEW id \in OperationId,
           NEW from \in GateState, kind = "intent" \/ id # "drain",
           Journal(kind, op, id, from, "none")
    PROVE  DbStep
<1>1. Entry(kind, op, id, from, "none") \in EntryType
  BY DEF Entry, EntryType, Kinds
<1>2. log' = Append(log, Entry(kind, op, id, from, "none"))
  BY DEF Journal
<1>3. DrainLogged' => DrainLogged
  BY <1>1, <1>2, AppendKeepsDrain DEF TypeOK, Entry
<1> QED  BY <1>1, <1>2, <1>3 DEF TypeOK, DbStep, RowStep, LogStep, Staged

\* A transaction that moves the row, or is rolled back.
LEMMA MoveStep ==
    ASSUME TypeOK, Staged,
           NEW target \in GateState, NEW kind \in Kinds, NEW op \in Operation,
           NEW id \in OperationId, NEW cols \in Row, NEW value,
           kind = "intent" \/ id # "drain",
           \/ target \in Terminal
           \/ /\ target \in {"CANDIDATE_CLOSED", "OPENING", "DRAINING"}
              /\ cols.route_generation = row.route_generation
              /\ cols.route_fence = row.route_fence
              /\ cols.observed_candidate = row.observed_candidate
           \/ /\ target = "CANDIDATE_OPEN"
              /\ cols.route_generation = "cand" /\ cols.route_fence = "cand"
              /\ cols.observed_candidate = "cand",
           \/ MoveOrRaise(target, kind, op, id, cols, value)
           \/ CanMove(target) /\ Move(target, kind, op, id, cols)
    PROVE  DbStep
<1>1. row.state \in GateState
  BY DEF TypeOK, Row, Staged
<1>2. CASE UNCHANGED db
  BY <1>2, QuietStep
<1>3. CASE CanMove(target) /\ Move(target, kind, op, id, cols)
  <2>1. Entry(kind, op, id, row.state, target) \in EntryType
    BY <1>1 DEF Entry, EntryType, Kinds
  <2>2. log' = Append(log, Entry(kind, op, id, row.state, target))
    BY <1>3 DEF Move, Journal
  <2>3. DrainLogged' => DrainLogged
    BY <2>1, <2>2, AppendKeepsDrain DEF TypeOK, Entry
  <2>4. /\ row' \in Row /\ row'.state = target /\ log' \in Seq(EntryType)
        /\ row'.route_generation = cols.route_generation
        /\ row'.route_fence = cols.route_fence
        /\ row'.observed_candidate = cols.observed_candidate
    BY <1>3, MoveTyped DEF TypeOK
  <2>5. RowMove
    BY <2>4 DEF RowMove, SameRoute, RecordsCandidate
  <2> QED  BY <1>3, <2>3, <2>4, <2>5, StateSets DEF DbStep, RowStep, LogStep, Staged
<1> QED  BY <1>2, <1>3 DEF MoveOrRaise

\* fail_close's receipt, also when reconcile writes it.
LEMMA FailCloseVerdictStep ==
    ASSUME TypeOK, Staged, NEW raises, FailCloseVerdict(raises)
    PROVE  DbStep
<1>1. AtRoute \in Row /\ Unqueried \in Row
  BY ColumnTypes DEF TypeOK
<1> DEFINE target == IF IsClosed(route) THEN "FAILED_SAFE" ELSE "SAFETY_UNKNOWN"
<1>2. target \in Terminal /\ target \in GateState /\ "SAFETY_UNKNOWN" \in Terminal
      /\ "SAFETY_UNKNOWN" \in GateState
  BY DEF Terminal, GateState
<1>3. "receipt" \in Kinds /\ "fail_close" \in Operation /\ "fail_close" \in OperationId
  BY DEF Kinds, Operation, OperationId
<1>4. \/ MoveOrRaise(target, "receipt", "fail_close", "fail_close", AtRoute,
                     IF raises THEN "error" ELSE target)
      \/ MoveOrRaise("SAFETY_UNKNOWN", "receipt", "fail_close", "fail_close", Unqueried,
                     IF raises THEN "error" ELSE "SAFETY_UNKNOWN")
  BY DEF FailCloseVerdict
<1> HIDE DEF target
<1> QED  BY <1>1, <1>2, <1>3, <1>4, MoveStep

\* reconcile of an interrupted rollback.
LEMMA ReconcileRollbackStep ==
    ASSUME TypeOK, Staged, ReconcileRollback
    PROVE  DbStep
<1>1. row \in Row
  BY DEF TypeOK
<1> DEFINE target == CASE route = PredRoute -> "ROLLED_BACK"
                       [] IsClosed(route) -> "FAILED_SAFE"
                       [] OTHER -> "SAFETY_UNKNOWN"
<1>2. target \in Terminal /\ target \in GateState /\ "SAFETY_UNKNOWN" \in Terminal
      /\ "SAFETY_UNKNOWN" \in GateState
  BY DEF Terminal, GateState
<1>3. "receipt" \in Kinds /\ "rollback" \in Operation /\ "rollback" \in OperationId
  BY DEF Kinds, Operation, OperationId
<1>4. \/ MoveOrRaise(target, "receipt", "rollback", "rollback", row, target)
      \/ MoveOrRaise("SAFETY_UNKNOWN", "receipt", "rollback", "rollback", row,
                     "SAFETY_UNKNOWN")
  BY DEF ReconcileRollback
<1> HIDE DEF target
<1> QED  BY <1>1, <1>2, <1>3, <1>4, MoveStep

\* The ways reconcile gives an open up, or ratifies it.
LEMMA CancelOpenStep == ASSUME TypeOK, CancelOpen PROVE DbStep
BY NoteStep DEF CancelOpen, Kinds, Operation, OperationId, GateState

\* The columns of an open receipt are the candidate's route.
LEMMA OpenRecordsCandidate ==
    ASSUME TypeOK, route = CandRoute
    PROVE  LET cols == [AtRoute EXCEPT !.observed_candidate = route.snapshot]
           IN  /\ cols \in Row
               /\ cols.route_generation = "cand" /\ cols.route_fence = "cand"
               /\ cols.observed_candidate = "cand"
BY ColumnTypes DEF TypeOK, CandRoute, AtRoute, Row

\* Reconciling an open journals a row and moves along the graph, or gives it up.
LEMMA ReconcileOpenStep ==
    ASSUME TypeOK, Staged, ReconcileOpen
    PROVE  DbStep
<1>1. CASE CancelOpen
  BY <1>1, CancelOpenStep
<1>2. CASE /\ route = CandRoute
           /\ MoveOrRaise("CANDIDATE_OPEN", "receipt", "open.reconcile", "open",
                          [AtRoute EXCEPT !.observed_candidate = route.snapshot],
                          "CANDIDATE_OPEN")
  BY <1>2, OpenRecordsCandidate, MoveStep, Zenon DEF Kinds, Operation, OperationId, GateState
<1>3. CASE /\ Journal("intent", "open.reconcile.close_all", "open-reconcile-close",
                      "OPENING", "none")
           /\ UNCHANGED row
  BY <1>3, NoteStep DEF Kinds, Operation, OperationId, GateState
<1> QED  BY <1>1, <1>2, <1>3 DEF ReconcileOpen

\* A recovery close found pending: two receipts in one transaction.
LEMMA RecoverAgainStep ==
    ASSUME TypeOK, Staged, NEW target \in {"FAILED_SAFE", "SAFETY_UNKNOWN"},
           RecoverAgainVerdict(target)
    PROVE  DbStep
<1>1. CASE UNCHANGED db
  BY <1>1, QuietStep
<1>2. CASE CanMove(target) /\ ~UNCHANGED db
  <2> DEFINE e == Entry("receipt", "open.reconcile.close_all", "open-reconcile-close",
                        "OPENING", "none")
             f == Entry("receipt", "open", "open", row.state, target)
  <2>1. e \in EntryType /\ f \in EntryType
    BY DEF TypeOK, Row, Staged, Entry, EntryType, Operation, OperationId, GateState, Terminal
  <2>2. log' = log \o <<e, f>>
    BY <1>2 DEF RecoverAgainVerdict
  <2>3. e.operation_id # "drain" /\ f.operation_id # "drain"
    BY DEF Entry
  <2>4. row' = [row EXCEPT !.state = target, !.transition_seq = Len(log) + 2]
    BY <1>2 DEF RecoverAgainVerdict
  <2>5. log \in Seq(EntryType) /\ row \in Row /\ Len(log) + 2 \in Nat
    BY DEF TypeOK
  <2> HIDE DEF e, f
  <2>6. log' \in Seq(EntryType)
    BY <2>1, <2>2, <2>5
  <2>7. DrainLogged' => DrainLogged
    <3> SUFFICES ASSUME NEW i \in DOMAIN log', log'[i].kind = "receipt",
                        log'[i].operation_id = "drain"
                 PROVE  DrainLogged
      BY DEF DrainLogged, Logged
    <3>1. i \in DOMAIN log /\ log'[i] = log[i]
      BY <2>1, <2>2, <2>3, <2>5
    <3> QED  BY <3>1 DEF DrainLogged, Logged
  <2>8. target \in Terminal /\ target \in GateState
    BY DEF Terminal, GateState
  <2>9. row' \in Row /\ row'.state = target
    BY <2>4, <2>5, <2>8, Zenon DEF Row
  <2> QED  BY <1>2, <2>6, <2>7, <2>8, <2>9, StateSets
             DEF DbStep, RowStep, RowMove, LogStep, Staged
<1> QED  BY <1>1, <1>2 DEF RecoverAgainVerdict

\* The drain receipt, the one step that makes DrainLogged true.
LEMMA DrainReceiptStep == ASSUME IInv, DrainReceipt PROVE DbStep
<1>0. TypeOK /\ Staged /\ row.state = "DRAINING" /\ row \in Row
  BY DEF IInv, TypeOK, DrainReceipt, DrainCounts
<1>1. CASE UNCHANGED db
  BY <1>0, <1>1, QuietStep
<1>2. CASE /\ Unfinished("pred") = {} /\ CanMove("CANDIDATE_OPEN")
           /\ Move("CANDIDATE_OPEN", "receipt", "drain", "drain", row)
  <2>1. /\ row' \in Row /\ row'.state = "CANDIDATE_OPEN" /\ log' \in Seq(EntryType)
        /\ row'.route_generation = row.route_generation
        /\ row'.route_fence = row.route_fence
        /\ row'.observed_candidate = row.observed_candidate
    BY <1>0, <1>2, MoveTyped DEF TypeOK, Kinds, Operation, OperationId, GateState
  <2>2. RowMove
    BY <1>0, <2>1 DEF RowMove, SameRoute
  <2> QED  BY <1>0, <1>2, <2>1, <2>2 DEF DbStep, RowStep, LogStep, Staged
<1> QED  BY <1>1, <1>2 DEF DrainReceipt, MoveOrRaise

\* The insert of the row.
LEMMA StageStep == ASSUME TypeOK, Stage PROVE DbStep
<1>1. CASE UNCHANGED db
  BY <1>1, QuietStep
<1>2. CASE ~Staged /\ route = PredRoute /\ ~UNCHANGED db
  <2> DEFINE e == Entry("receipt", "stage", "stage", "PREDECESSOR_OPEN", "CANDIDATE_STAGED")
  <2>1. e \in EntryType /\ e.operation_id # "drain"
    BY DEF Entry, EntryType, Operation, OperationId, GateState
  <2>2. log' = Append(log, e) /\ log \in Seq(EntryType)
    BY <1>2 DEF Stage, Journal, TypeOK
  <2>3. row' \in Row /\ row'.state = "CANDIDATE_STAGED"
    <3>1. row' = [state |-> "CANDIDATE_STAGED", route_generation |-> "pred",
                  route_fence |-> "pred", lease |-> grant, proof |-> FALSE,
                  observed_candidate |-> "none", transition_seq |-> Len(log) + 1]
      BY <1>2 DEF Stage
    <3>2. "CANDIDATE_STAGED" \in GateState /\ {"pred", "none"} \subseteq Names
          /\ "pred" \in Fences /\ grant \in Leases /\ Len(log) + 1 \in Nat
      BY DEF TypeOK, GateState, Names, Fences
    <3> QED  BY <3>1, <3>2 DEF Row
  <2> HIDE DEF e
  <2>4. DrainLogged' => DrainLogged
    BY <2>1, <2>2, AppendKeepsDrain
  <2> QED  BY <1>2, <2>1, <2>2, <2>3, <2>4 DEF DbStep, RowStep, LogStep
<1> QED  BY <1>1, <1>2 DEF Stage

\* The gate's process is gone and comes back, with or without being counted.
Dies ==
    /\ at' = "idle" /\ arg' = "none" /\ ret' = "none"
    /\ crashes' \in {crashes, crashes + 1}
    /\ UNCHANGED <<db, admissions, route, lease>>

\* A step of the gate or of its surroundings, without the bounds of the model: what
\* the gate does on its own and what it does under a coordinator.
Step ==
    \/ Stage \/ Close \/ Drain \/ FailClose \/ Refused \/ Reconcile \/ Continue \/ Traffic
    \/ \E fits \in BOOLEAN, l \in Leases : Open(fits, l)
    \/ \E oracle \in BOOLEAN : Rollback(oracle)
    \/ Drift \/ Expire \/ Supersede \/ Dies

\* The gate's own next-state relation takes such steps only.
LEMMA NextIsStep == ASSUME Next PROVE Step
BY DEF Next, Request, Operate, Environment, Step, Crash, Dies

\* Every step of the gate or of its surroundings is one of these.
LEMMA EveryDbStep == ASSUME IInv, Step PROVE DbStep
<1> USE DEF IInv, TypeOK
<1>1. CASE Stage
  BY <1>1, StageStep
<1>2. CASE Close
  <2>1. row.state \in GateState
    BY <1>2 DEF Close, Staged, Row
  <2> QED
    BY <1>2, <2>1, QuietStep, NoteStep, Zenon
    DEF Close, db, Kinds, Operation, OperationId, GateState
<1>3. CASE CloseReceipt
  <2>1. row.state \in GateState /\ Staged
    BY <1>3 DEF CloseReceipt, Staged, Row
  <2> QED  BY <1>3, <2>1, QuietStep, NoteStep, MoveStep, Zenon
       DEF CloseReceipt, db, Kinds, Operation, OperationId, GateState
<1>4. CASE \E fits \in BOOLEAN, l \in Leases : Open(fits, l)
  <2>1. [row EXCEPT !.proof = TRUE] \in Row
        /\ [row EXCEPT !.proof = TRUE].route_generation = row.route_generation
        /\ [row EXCEPT !.proof = TRUE].route_fence = row.route_fence
        /\ [row EXCEPT !.proof = TRUE].observed_candidate = row.observed_candidate
    BY Zenon DEF Row
  <2> QED
    BY <1>4, <2>1, QuietStep, MoveStep, Zenon
    DEF Open, Kinds, Operation, OperationId, GateState
<1>5. CASE OpenReceipt
  <2>1. row.state \in GateState /\ Staged
    BY <1>5 DEF OpenReceipt, Staged, Row
  <2> QED  BY <1>5, <2>1, QuietStep, NoteStep, MoveStep, OpenRecordsCandidate, Zenon
          DEF OpenReceipt, Kinds, Operation, OperationId, GateState
<1>6. CASE Drain
  BY <1>6, QuietStep, MoveStep, Zenon DEF Drain, Kinds, Operation, OperationId, GateState
<1>7. CASE DrainReceipt
  BY <1>7, DrainReceiptStep
<1>8. CASE FailClose
  <2>1. row.state \in GateState
    BY <1>8 DEF FailClose, Staged, Row
  <2> QED  BY <1>8, <2>1, NoteStep, Zenon DEF FailClose, Kinds, Operation, OperationId, GateState
<1>9. CASE FailCloseReceipt
  BY <1>9, FailCloseVerdictStep DEF FailCloseReceipt
<1>10. CASE \E oracle \in BOOLEAN : Rollback(oracle)
  <2>1. Staged /\ row.state \in GateState
    BY <1>10 DEF Rollback, Staged, Row
  <2> QED  BY <1>10, <2>1, NoteStep, Zenon DEF Rollback, Kinds, Operation, OperationId, GateState
<1>11. CASE RollbackReceipt
  <2>1. RollbackTarget(arg) \in Terminal /\ RollbackTarget(arg) \in GateState
    BY <1>11 DEF RollbackReceipt, RollbackTarget, RollbackClass, Terminal, GateState
  <2>2. AtRoute \in Row /\ Staged
    BY <1>11, ColumnTypes DEF RollbackReceipt
  <2> QED  BY <1>11, <2>1, <2>2, MoveStep, Zenon DEF RollbackReceipt, Kinds, Operation, OperationId
<1>12. CASE Reconcile
  BY <1>12, QuietStep, FailCloseVerdictStep, ReconcileRollbackStep, ReconcileOpenStep, Zenon
     DEF Reconcile
<1>13. CASE RecoverReceipt
  BY <1>13, NoteStep, Zenon DEF RecoverReceipt, Kinds, Operation, OperationId, GateState
<1>14. CASE RecoverVerdict
  <2>1. Staged /\ [row EXCEPT !.route_generation = "none", !.route_fence = "closed"] \in Row
    BY <1>14, ColumnTypes DEF RecoverVerdict
  <2> QED  BY <1>14, <2>1, CancelOpenStep, MoveStep, Zenon
       DEF RecoverVerdict, Kinds, Operation, OperationId, GateState, Terminal
<1>15. CASE RecoverAgainReceipt
  BY <1>15, RecoverAgainStep DEF RecoverAgainReceipt
<1>16. CASE UNCHANGED db
  BY <1>16, QuietStep
<1>17. CASE \/ CloseEffect \/ OpenEffect \/ FailCloseEffect \/ RollbackRestore
            \/ RollbackCloseAll \/ RecoverEffect \/ RecoverAgainEffect \/ Refused
            \/ Drift \/ Expire \/ Supersede \/ Dies \/ \E r \in Requests : Finish(r)
            \/ \E r \in Requests, done \in BOOLEAN : Observe(r, done)
  BY <1>16, <1>17, Zenon DEF CloseEffect, OpenEffect, FailCloseEffect, RollbackRestore,
     RollbackCloseAll, RecoverEffect, RecoverAgainEffect, Refused,
     Dies, Drift, Expire, Supersede, Finish, Observe
<1> QED  BY Zenon, <1>1, <1>2, <1>3, <1>4, <1>5, <1>6, <1>7, <1>8, <1>9, <1>10, <1>11, <1>12,
           <1>13, <1>14, <1>15, <1>17
        DEF Step, Traffic, Continue

-----------------------------------------------------------------------------
(* Type correctness. *)

\* How a step changes the admission table.
Finishes(r) ==
    Admitted(r) /\ admissions' = [admissions EXCEPT ![r].finished = TRUE]

Admits(r) ==
    /\ ~Admitted(r) /\ AdmitTo(r) /\ Staged
    /\ \/ row.state \in PreOpen /\ route = PredRoute
       \/ row.state \in {"CANDIDATE_OPEN", "DRAINING"} /\ RouteIsRecorded

AdmissionStep ==
    \/ admissions' = admissions
    \/ UNCHANGED db /\ \E r \in Requests : Admits(r) \/ Finishes(r)

\* observe is the only operation that writes the admission table, and it admits
\* in the open states only, on the recorded route.
LEMMA EveryAdmissionStep == ASSUME IInv, Step PROVE AdmissionStep
<1>1. ASSUME NEW r \in Requests, NEW done \in BOOLEAN, Observe(r, done)
      PROVE  AdmissionStep
  <2>1. UNCHANGED db /\ (admissions' = admissions \/
           (~Admitted(r) /\ AdmitTo(r) /\ Staged /\ row.state \notin AdmissionBlocked
            /\ ~ContinuityLost /\ RouteIsRecorded))
    BY <1>1 DEF Observe
  <2>2. row.state \in GateState \cup {"absent"}
    BY DEF IInv, TypeOK, Row
  <2>3. row.state \notin AdmissionBlocked /\ Staged =>
           row.state \in PreOpen \cup {"CANDIDATE_OPEN", "DRAINING"}
    BY <2>2 DEF AdmissionBlocked, GateState, PreOpen, Staged
  <2> QED  BY <2>1, <2>3 DEF AdmissionStep, Admits, ContinuityLost
<1>2. ASSUME NEW r \in Requests, Finish(r)
      PROVE  AdmissionStep
  BY <1>2 DEF Finish, AdmissionStep, Finishes
<1> QED  BY <1>1, <1>2, Zenon DEF Step, Traffic, Continue, Dies,
        AdmissionStep, Stage, Close, Drain, FailClose, Open, Rollback, Refused, Reconcile,
        CloseEffect, CloseReceipt, OpenEffect, OpenReceipt, DrainReceipt, FailCloseEffect,
        FailCloseReceipt, RollbackRestore, RollbackCloseAll, RollbackReceipt, RecoverEffect,
        RecoverReceipt, RecoverVerdict, RecoverAgainEffect, RecoverAgainReceipt,
        Drift, Expire, Supersede

\* Admissions keep their type.
LEMMA AdmissionTyped == ASSUME IInv, AdmissionStep PROVE admissions' \in [Requests -> AdmissionType]
<1>0. /\ admissions \in [Requests -> AdmissionType] /\ row.transition_seq \in Nat
      /\ route.generation \in Names /\ route.fence \in Fences
  BY DEF IInv, TypeOK, Row, RouteState
<1>1. ASSUME NEW r \in Requests, AdmitTo(r)
      PROVE  admissions' \in [Requests -> AdmissionType]
  BY <1>0, <1>1 DEF AdmitTo, AdmissionType
<1>2. ASSUME NEW r \in Requests, Finishes(r)
      PROVE  admissions' \in [Requests -> AdmissionType]
  BY <1>0, <1>2, Zenon DEF Finishes, AdmissionType
<1> QED  BY <1>0, <1>1, <1>2 DEF AdmissionStep, Admits

\* Where a call goes on, and what its step does outside the database.
CallStep ==
    /\ at' \in Labels
    /\ at' # "idle" => Staged \/ at' = at
    /\ at' = "rollback.receipt" => arg' \in RollbackClass
    /\ at' = "drain.count" => row'.state = "DRAINING"
    /\ route' \in RouteState /\ grant' \in Leases /\ expired' \subseteq Leases
    /\ crashes' \in Nat

\* A fail_close verdict ends its call.
LEMMA VerdictReturns ==
    ASSUME NEW raises, FailCloseVerdict(raises) PROVE at' = "idle"
BY DEF FailCloseVerdict, MoveOrRaise, Return

\* Every step moves the call in progress on, ends it, or leaves it alone.
LEMMA EveryCallStep == ASSUME IInv, Step PROVE CallStep
<1> USE DEF IInv, TypeOK, CallStep, Return, Goto, lease, db
<1>1. CASE \E r \in Requests, done \in BOOLEAN : Observe(r, done)
  BY <1>1 DEF Observe, Idle, Labels
<1>2. CASE \E r \in Requests : Finish(r)
  BY <1>2 DEF Finish, Labels
<1>3. CASE Stage \/ Refused
  BY <1>3, Zenon DEF Stage, Refused, Labels
<1>4. CASE Close \/ CloseEffect
  BY <1>4 DEF Close, CloseEffect, Labels
<1>5. CASE CloseReceipt
  BY <1>5 DEF CloseReceipt, MoveOrRaise, Labels
<1>6. CASE \E fits \in BOOLEAN, l \in Leases : Open(fits, l)
  BY <1>6 DEF Open, Labels
<1>7. CASE OpenEffect
  BY <1>7, RouteTypes DEF OpenEffect, Labels
<1>8. CASE OpenReceipt
  BY <1>8 DEF OpenReceipt, MoveOrRaise, Labels
<1>9. CASE Drain
  BY <1>9, MoveTyped DEF Drain, Labels, Kinds, Operation, OperationId, GateState
<1>10. CASE DrainReceipt
  BY <1>10 DEF DrainReceipt, MoveOrRaise, Labels
<1>11. CASE FailClose
  BY <1>11 DEF FailClose, Labels
<1>12. CASE FailCloseEffect \/ RecoverEffect \/ RecoverAgainEffect
  BY <1>12, RouteTypes, Zenon
  DEF FailCloseEffect, RecoverEffect, RecoverAgainEffect, CloseAll, Labels
<1>13. CASE FailCloseReceipt
  BY <1>13, VerdictReturns DEF FailCloseReceipt, Labels
<1>14. CASE \E oracle \in BOOLEAN : Rollback(oracle)
  BY <1>14 DEF Rollback, Labels
<1>15. CASE RollbackRestore
  <2>1. Restored \in RouteState
    BY DEF Restored, PredRoute, RouteState, Names, Fences
  <2> QED  BY <1>15, <2>1 DEF RollbackRestore, Labels, RollbackClass
<1>16. CASE RollbackCloseAll
  BY <1>16, RouteTypes DEF RollbackCloseAll, CloseAll, Labels, RollbackClass
<1>17. CASE RollbackReceipt
  BY <1>17 DEF RollbackReceipt, MoveOrRaise, Labels
<1>18. CASE Reconcile
  <2>1. CASE ReconcileOpen
    BY <1>18, <2>1 DEF Reconcile, ReconcileOpen, CancelOpen, MoveOrRaise, Labels
  <2>2. CASE ReconcileRollback
    BY <1>18, <2>2 DEF Reconcile, ReconcileRollback, MoveOrRaise, Labels
  <2>3. CASE FailCloseVerdict(FALSE)
    BY <1>18, <2>3, VerdictReturns, Zenon DEF Reconcile, Labels
  <2>4. CASE UNCHANGED db
    BY <1>18, <2>1, <2>2, <2>3, <2>4, Zenon DEF Reconcile, Labels
  <2> QED  BY <1>18, <2>1, <2>2, <2>3, <2>4, Zenon DEF Reconcile
<1>19. CASE RecoverReceipt
  BY <1>19 DEF RecoverReceipt, Labels
<1>20. CASE RecoverVerdict
  BY <1>20 DEF RecoverVerdict, MoveOrRaise, CancelOpen, Labels
<1>21. CASE RecoverAgainReceipt
  BY <1>21 DEF RecoverAgainReceipt, RecoverAgainVerdict, Labels
<1>22. CASE Dies \/ Expire \/ Supersede
  BY <1>22 DEF Dies, Expire, Supersede, call, Labels, DrainCounts
<1>23. CASE Drift
  <2>1. ASSUME NEW r \in RouteState
        PROVE  [r EXCEPT !.snapshot = "other"] \in RouteState
    BY DEF RouteState, Names
  <2>2. [generation |-> "other", fence |-> "other", snapshot |-> "other"] \in RouteState
    BY DEF RouteState, Names, Fences
  <2>3. route' \in RouteState
    BY <1>23, <2>1, <2>2, RouteTypes DEF Drift
  <2> QED  BY <1>23, <2>3 DEF Drift, call, DrainCounts
<1> QED  BY Zenon, <1>1, <1>2, <1>3, <1>4, <1>5, <1>6, <1>7, <1>8, <1>9, <1>10, <1>11, <1>12, <1>13,
           <1>14, <1>15, <1>16, <1>17, <1>18, <1>19, <1>20, <1>21, <1>22, <1>23
        DEF Step, Traffic, Continue

-----------------------------------------------------------------------------
(* The inductive invariant. *)

Opened == {"CANDIDATE_OPEN", "DRAINING"}

\* What the state graph says about the open states and the terminal ones.
LEMMA GraphFacts ==
    ASSUME NEW s \in GateState, NEW t \in GateState, t = s \/ t \in Allowed[s]
    PROVE  /\ t = "DRAINING" => s \in Opened
           /\ t = "CANDIDATE_OPEN" => s \in Opened \cup {"OPENING"}
           /\ s \in Opened => t \in Opened \cup Terminal
           /\ s \in Terminal => t = s
BY DEF Allowed, GateState, Terminal, Opened

\* Which states a step of the row can come from.
LEMMA RowStepFacts ==
    ASSUME IInv, DbStep, Staged
    PROVE  /\ row.state \in GateState /\ row'.state \in GateState
           /\ row'.state = "DRAINING" => row.state \in Opened
           /\ row'.state = "CANDIDATE_OPEN" => row.state \in Opened \cup {"OPENING"}
           /\ row.state \in Opened => row'.state \in Opened \cup Terminal
           /\ row.state \in Terminal => row'.state = row.state
<1>1. row.state \in GateState /\ row'.state \in GateState
  BY DEF IInv, TypeOK, DbStep, Row, Staged
<1>2. row'.state = row.state \/ row'.state \in Allowed[row.state]
  BY DEF DbStep, RowStep, CanMove
<1> QED  BY <1>1, <1>2, GraphFacts

\* The three frames together keep the invariant.
LEMMA InvariantStep ==
    ASSUME IInv, DbStep, AdmissionStep, CallStep
    PROVE  IInv'
<1>1. TypeOK'
  BY AdmissionTyped DEF IInv, TypeOK, DbStep, CallStep
<1>2. OpenIsRecorded'
  <2> SUFFICES ASSUME row'.state \in Opened
               PROVE  RecordsCandidate
    BY DEF OpenIsRecorded, Opened, RecordsCandidate
  <2>1. CASE row' = row
    BY <2>1 DEF IInv, OpenIsRecorded, Opened, RecordsCandidate
  <2>2. CASE Staged /\ RowMove
    BY <2>2, RowStepFacts
       DEF RowMove, SameRoute, RecordsCandidate, IInv, OpenIsRecorded, Opened, Terminal
  <2> QED  BY <2>1, <2>2 DEF DbStep, RowStep, Opened
<1>3. DrainCounts'
  BY DEF CallStep, DrainCounts
<1>4. ASSUME DrainLogged'
      PROVE  row'.state \in Opened \cup Terminal /\ Unfinished("pred")' = {}
  <2>1. CASE ~DrainLogged
    <3>1. row'.state = "CANDIDATE_OPEN" /\ Unfinished("pred") = {}
      BY <1>4, <2>1 DEF DbStep, LogStep
    <3>2. admissions' = admissions
      BY <1>4, <2>1 DEF AdmissionStep, db, DrainLogged, Logged
    <3> QED  BY <3>1, <3>2 DEF Opened, Unfinished
  <2>2. CASE DrainLogged
    <3>1. row.state \in Opened \cup Terminal /\ Unfinished("pred") = {}
      BY <2>2 DEF IInv, DrainedStaysOpen, DrainedForever, DrainLogged, Opened
    <3>2. Staged
      BY <3>1 DEF Staged, Opened, Terminal
    <3>3. row'.state \in Opened \cup Terminal
      BY <3>1, <3>2, RowStepFacts
    <3>4. ASSUME NEW r \in Requests, Admits(r)
          PROVE  Unfinished("pred")' = {}
      <4>1. route.generation = "cand"
        BY <3>1, <3>4 DEF Admits, PreOpen, Opened, Terminal, RouteIsRecorded, IInv, OpenIsRecorded
      <4> QED  BY <3>1, <3>4, <4>1, Zenon DEF Admits, AdmitTo, Unfinished, IInv, TypeOK
    <3>5. ASSUME NEW r \in Requests, Finishes(r)
          PROVE  Unfinished("pred")' = {}
      <4>1. \A q \in Requests : /\ admissions'[q].generation = admissions[q].generation
                                /\ admissions[q].finished => admissions'[q].finished
        <5>1. admissions \in [Requests -> AdmissionType]
          BY DEF IInv, TypeOK
        <5> QED  BY <3>5, <5>1 DEF Finishes, AdmissionType
      <4> QED  BY <3>1, <4>1, Zenon DEF Unfinished
    <3>6. ASSUME admissions' = admissions
          PROVE  Unfinished("pred")' = {}
      <4>1. Unfinished("pred")' = Unfinished("pred")
        BY <3>6 DEF Unfinished
      <4> QED  BY <3>1, <4>1
    <3>7. Unfinished("pred")' = {}
      BY <3>4, <3>5, <3>6 DEF AdmissionStep
    <3> QED  BY <3>3, <3>7
  <2> QED  BY <2>1, <2>2
<1>5. DrainedStaysOpen' /\ DrainedForever'
  BY <1>4 DEF DrainedStaysOpen, DrainedForever, DrainLogged, Opened
<1> QED  BY <1>1, <1>2, <1>3, <1>5 DEF IInv

\* The gate starts unstaged, with an empty journal.
LEMMA InitInv == ASSUME Init PROVE IInv
<1>1. row \in Row /\ row.state = "absent"
  BY DEF Init, AbsentRow, Row, Names, Fences
<1>2. admissions \in [Requests -> AdmissionType] /\ log \in Seq(EntryType) /\ log = <<>>
  BY DEF Init, NotAdmitted, AdmissionType, Names, Fences
<1>3. TypeOK
  BY <1>1, <1>2, RouteTypes DEF Init, TypeOK, Labels
<1>4. ~Logged("receipt", "drain")
  BY <1>2 DEF Logged
<1> QED  BY <1>1, <1>3, <1>4
        DEF IInv, OpenIsRecorded, DrainCounts, DrainedStaysOpen, DrainedForever, Init

\* A stuttering step keeps the invariant.
LEMMA StutterInv == ASSUME IInv, UNCHANGED vars PROVE IInv'
BY Zenon DEF IInv, TypeOK, OpenIsRecorded, DrainCounts, DrainedStaysOpen, DrainedForever,
       Logged, Unfinished, Staged, vars

\* Every reachable state of the gate satisfies the inductive invariant.
THEOREM InductiveInvariant == Spec => []IInv
<1>1. Init => IInv
  BY InitInv
<1>2. IInv /\ [Next]_vars => IInv'
  <2> SUFFICES ASSUME IInv, [Next]_vars PROVE IInv'
    OBVIOUS
  <2>1. CASE Next
    BY <2>1, NextIsStep, EveryDbStep, EveryAdmissionStep, EveryCallStep, InvariantStep
  <2>2. CASE UNCHANGED vars
    BY <2>2, StutterInv
  <2> QED  BY <2>1, <2>2
<1> QED  BY <1>1, <1>2, PTL DEF Spec

\* Type correctness of the gate.
THEOREM TypeCorrect == Spec => []TypeOK
BY InductiveInvariant, PTL DEF IInv

\* drain's receipt is a promise that is kept: after it, no predecessor request is
\* unfinished, through any later crash, drift, reconcile or rollback.
THEOREM DrainKeepsItsPromise == Spec => []DrainedForever
BY InductiveInvariant, PTL DEF IInv

-----------------------------------------------------------------------------
(* The gate implements the one-way switch. *)

\* An admission is to the generation of the phase, on an intact route.
LEMMA AdmitsPhase ==
    ASSUME IInv, NEW r \in Requests, Admits(r)
    PROVE  /\ route \in {PredRoute, CandRoute}
           /\ route.generation = Phase /\ Phase # "shut"
<1>1. CASE row.state \in PreOpen /\ route = PredRoute
  BY <1>1 DEF PreOpen, Phase, Terminal, PredRoute
<1>2. CASE row.state \in Opened /\ RouteIsRecorded
  <2>1. route.generation = "cand" /\ route.fence = "cand" /\ route.snapshot = "cand"
    BY <1>2 DEF RouteIsRecorded, IInv, OpenIsRecorded, Opened
  <2>2. route = CandRoute
    BY <2>1 DEF IInv, TypeOK, RouteState, CandRoute
  <2> QED  BY <1>2, <2>1, <2>2 DEF Phase, Opened, Terminal
<1> QED  BY <1>1, <1>2 DEF Admits, Opened

\* A step of the database is a step of the phase.
LEMMA PhaseStep ==
    ASSUME IInv, DbStep
    PROVE  \/ Phase' = Phase
           \/ Phase = "pred" /\ Phase' = "cand"
           \/ Phase # "shut" /\ Phase' = "shut"
<1>1. CASE Staged
  <2>1. CASE row.state \in Opened
    BY <1>1, <2>1, RowStepFacts DEF Phase, Opened, Terminal
  <2>2. CASE row.state \in Terminal
    BY <1>1, <2>2, RowStepFacts DEF Phase, Opened, Terminal
  <2>3. CASE row.state \notin Opened \cup Terminal
    BY <2>3 DEF Phase, Opened, Terminal
  <2> QED  BY <2>1, <2>2, <2>3
<1>2. CASE ~Staged
  BY <1>2 DEF DbStep, RowStep, Phase, Staged, Terminal
<1> QED  BY <1>1, <1>2

\* Every step of the gate is a step of the one-way switch, or no step of it.
LEMMA SwitchStep ==
    ASSUME IInv, DbStep, AdmissionStep
    PROVE  [Switch!Next]_<<Phase, Served>>
<1>0. admissions \in [Requests -> AdmissionType]
  BY DEF IInv, TypeOK
<1>1. CASE admissions' = admissions
  <2>1. Served' = Served
    BY <1>1 DEF Served
  <2> QED  BY <2>1, PhaseStep DEF Switch!Next, Switch!Flip, Switch!Shut
<1>2. ASSUME NEW r \in Requests, Admits(r), UNCHANGED db
      PROVE  Switch!Serve(r)
  <2>1. Phase' = Phase
    BY <1>2 DEF Phase, db
  <2>2. Served[r] = "none"
    BY <1>0, <1>2 DEF Admits, Admitted, NotAdmitted, Served
  <2>3. Served' = [Served EXCEPT ![r] = Phase]
    <3>1. \A q \in Requests : admissions'[q].generation =
              IF q = r THEN Phase ELSE admissions[q].generation
      BY <1>0, <1>2, AdmitsPhase, Zenon DEF Admits, AdmitTo
    <3> QED  BY <3>1, Zenon DEF Served
  <2> QED  BY <1>2, <2>1, <2>2, <2>3, AdmitsPhase DEF Switch!Serve
<1>3. ASSUME NEW r \in Requests, Finishes(r), UNCHANGED db
      PROVE  UNCHANGED <<Phase, Served>>
  <2>1. \A q \in Requests : admissions'[q].generation = admissions[q].generation
    BY <1>0, <1>3 DEF Finishes, AdmissionType
  <2> QED  BY <1>3, <2>1 DEF Phase, Served, db
<1> QED  BY <1>1, <1>2, <1>3 DEF AdmissionStep, Switch!Next

\* The gate implements ExposureSwitch: admission moves from the predecessor to the
\* candidate at most once, never back, and stops for ever when the gate ends.
THEOREM GateImplementsSwitch == Spec => ImplementsSwitch
<1>1. Init => Switch!Init
  BY DEF Init, AbsentRow, NotAdmitted, Switch!Init, Phase, Served, Terminal
<1>2. IInv /\ [Next]_vars => [Switch!Next]_<<Phase, Served>>
  <2> SUFFICES ASSUME IInv, [Next]_vars PROVE [Switch!Next]_<<Phase, Served>>
    OBVIOUS
  <2>1. CASE Next
    BY <2>1, NextIsStep, EveryDbStep, EveryAdmissionStep, SwitchStep
  <2>2. CASE UNCHANGED vars
    BY <2>2 DEF vars, Phase, Served
  <2> QED  BY <2>1, <2>2
<1> QED  BY <1>1, <1>2, InductiveInvariant, PTL DEF Spec, ImplementsSwitch, Switch!Spec

\* No request is ever admitted to a route that was changed behind the gate.
THEOREM IntactRoutesOnly == Spec => AdmitsOnlyIntactRoutes
<1>1. IInv /\ [Next]_vars =>
         [\A r \in Requests : ~Admitted(r) /\ Admitted(r)' => route \in {PredRoute, CandRoute}]_vars
  <2> SUFFICES ASSUME IInv, Next, NEW r \in Requests, ~Admitted(r), Admitted(r)'
               PROVE  route \in {PredRoute, CandRoute}
    OBVIOUS
  <2>1. PICK q \in Requests : Admits(q) \/ Finishes(q)
    BY NextIsStep, EveryAdmissionStep DEF AdmissionStep, Admitted
  <2>2. CASE Admits(q)
    BY <2>2, AdmitsPhase
  <2>3. CASE Finishes(q)
    BY <2>3 DEF Finishes, Admitted, IInv, TypeOK
  <2> QED  BY <2>1, <2>2, <2>3
<1> QED  BY <1>1, InductiveInvariant, PTL DEF Spec, AdmitsOnlyIntactRoutes

-----------------------------------------------------------------------------
(* The grammar of the journal: which rows the operations write, and when.    *)

\* A row that moves nothing: an intent announced before an effect, or a receipt of an
\* attempt that came to nothing.
NoteRow(e) ==
    /\ e \in EntryType /\ e.to_state = "none" /\ Staged
    /\ \/ e.kind = "intent" /\ e.operation_id \in {"close", "fail_close", "rollback"}
       \/ /\ e.kind = "intent" /\ e.operation_id = "open-reconcile-close"
          /\ at' = "recover.effect"
       \/ e.kind = "receipt" /\ e.operation_id = "close" /\ PendingLast("close")
       \/ /\ e.kind = "receipt" /\ e.operation_id = "open-reconcile-close"
          /\ at = "recover.query" /\ row.state = "OPENING"
       \/ /\ e.kind = "receipt" /\ e.operation_id = "open" /\ row.state = "OPENING"
          /\ at' = "fail_close.intent"
          /\ PendingLast("open") \/ at \in {"idle", "recover.verdict"}

\* A row that moves the gate from its durable state.
MoveRow(e) ==
    /\ e \in EntryType /\ e.from_state = row.state
    /\ Staged /\ CanMove(e.to_state)
    /\ \/ e.kind = "intent" /\ e.operation_id = "open" /\ e.to_state = "OPENING"
       \/ e.kind = "intent" /\ e.operation_id = "drain" /\ e.to_state = "DRAINING"
       \/ /\ e.kind = "receipt" /\ e.operation_id = "close" /\ e.to_state = "CANDIDATE_CLOSED"
          /\ PendingLast("close")
       \/ /\ e.kind = "receipt" /\ e.operation_id = "open" /\ e.to_state = "CANDIDATE_OPEN"
          /\ e.operation \in {"open", "open.reconcile"} /\ row.state = "OPENING"
          /\ PendingLast("open") \/ at = "idle"
       \/ /\ e.kind = "receipt" /\ e.operation_id = "drain" /\ e.to_state = "CANDIDATE_OPEN"
          /\ e.operation = "drain" /\ row.state = "DRAINING" /\ PendingLast("drain")
       \/ /\ e.kind = "receipt" /\ e.operation_id = "open" /\ e.to_state \in Terminal
          /\ row.state = "OPENING" /\ at = "recover.verdict"
       \/ /\ e.kind = "receipt" /\ e.operation_id \in {"fail_close", "rollback"}
          /\ e.to_state \in Terminal /\ PendingLast(e.operation_id)

Writes(e) ==
    /\ log' = Append(log, e)
    /\ row'.state = e.to_state /\ row'.transition_seq = Len(log) + 1

JournalStep ==
    \/ UNCHANGED db
    \/ \E e : NoteRow(e) /\ log' = Append(log, e) /\ row' = row
    \/ \E e : MoveRow(e) /\ Writes(e)
    \/ /\ ~Staged
       /\ Writes(Entry("receipt", "stage", "stage", "PREDECESSOR_OPEN", "CANDIDATE_STAGED"))
    \/ \E target \in {"FAILED_SAFE", "SAFETY_UNKNOWN"} :
          at = "recover.again.query" /\ Staged /\ RecoverAgainVerdict(target)

\* What each label owes the journal: the intent it was announced by has no receipt.
Owes ==
    [label \in {"close.effect", "close.query", "open.effect", "open.query", "drain.count",
                "fail_close.effect", "fail_close.query", "rollback.restore",
                "rollback.close_all", "rollback.receipt", "recover.effect", "recover.query",
                "recover.again.effect", "recover.again.query"} |->
        CASE label \in {"close.effect", "close.query"} -> "close"
          [] label \in {"open.effect", "open.query"} -> "open"
          [] label = "drain.count" -> "drain"
          [] label \in {"fail_close.effect", "fail_close.query"} -> "fail_close"
          [] label \in {"rollback.restore", "rollback.close_all", "rollback.receipt"} ->
               "rollback"
          [] OTHER -> "open-reconcile-close"]

LabelOwes == at \in DOMAIN Owes => PendingLast(Owes[at])

DrainOwes == row.state = "DRAINING" => PendingLast("drain")

OpeningLabels ==
    at \in {"open.effect", "open.query", "recover.effect", "recover.query", "recover.verdict"}
        => row.state = "OPENING"

AgainIsPending ==
    at \in {"recover.again.effect", "recover.again.query"} => PendingEver("open-reconcile-close")

LabelInv == LabelOwes /\ DrainOwes /\ OpeningLabels /\ AgainIsPending

\* A transaction with a move, or rolled back, is a step of the journal.
LEMMA MoveWrites ==
    ASSUME TypeOK, Staged,
           NEW target \in GateState, NEW kind \in Kinds, NEW op \in Operation,
           NEW id \in OperationId, NEW cols \in Row, NEW value,
           CanMove(target) => MoveRow(Entry(kind, op, id, row.state, target)),
           \/ MoveOrRaise(target, kind, op, id, cols, value)
           \/ CanMove(target) /\ Move(target, kind, op, id, cols)
    PROVE  JournalStep
<1>1. CASE UNCHANGED db
  BY <1>1 DEF JournalStep
<1>2. CASE CanMove(target) /\ Move(target, kind, op, id, cols)
  <2> DEFINE e == Entry(kind, op, id, row.state, target)
  <2>1. log' = Append(log, e) /\ e.to_state = target
    BY <1>2 DEF Move, Journal, Entry
  <2>2. row'.state = target /\ row'.transition_seq = Len(log) + 1
    BY <1>2 DEF Move, Row
  <2>3. Writes(e)
    BY <2>1, <2>2 DEF Writes
  <2> HIDE DEF e
  <2> QED  BY <1>2, <2>3 DEF JournalStep, e
<1> QED  BY <1>1, <1>2 DEF MoveOrRaise

\* An entry of the journal with typed fields is one.
LEMMA EntryTyped ==
    ASSUME NEW kind \in Kinds, NEW op \in Operation, NEW id \in OperationId,
           NEW from \in GateState, NEW to \in GateState \cup {"none"}
    PROVE  LET e == Entry(kind, op, id, from, to)
           IN  /\ e \in EntryType /\ e.kind = kind /\ e.operation = op
               /\ e.operation_id = id /\ e.from_state = from /\ e.to_state = to
BY DEF Entry, EntryType, Kinds

\* fail_close's receipt, also when reconcile writes it.
LEMMA FailCloseVerdictWrites ==
    ASSUME TypeOK, Staged, PendingLast("fail_close"), NEW raises, FailCloseVerdict(raises)
    PROVE  JournalStep
<1>1. AtRoute \in Row /\ Unqueried \in Row /\ row.state \in GateState
  BY ColumnTypes DEF TypeOK, Row, Staged
<1>2. "receipt" \in Kinds /\ "fail_close" \in Operation /\ "fail_close" \in OperationId
  BY DEF Kinds, Operation, OperationId
<1>3. ASSUME NEW t \in Terminal
      PROVE  t \in GateState /\
             (CanMove(t) => MoveRow(Entry("receipt", "fail_close", "fail_close", row.state, t)))
  BY <1>1, <1>2, <1>3, StateSets, EntryTyped DEF MoveRow
<1>4. \E t \in Terminal, cols \in Row, value \in {"error", "FAILED_SAFE", "SAFETY_UNKNOWN"} :
         MoveOrRaise(t, "receipt", "fail_close", "fail_close", cols, value)
  BY <1>1 DEF FailCloseVerdict, Terminal
<1> QED  BY <1>2, <1>3, <1>4, MoveWrites

\* reconcile of an interrupted rollback.
LEMMA ReconcileRollbackWrites ==
    ASSUME TypeOK, Staged, PendingLast("rollback"), ReconcileRollback
    PROVE  JournalStep
<1>1. row \in Row /\ row.state \in GateState
  BY DEF TypeOK, Row, Staged
<1>2. "receipt" \in Kinds /\ "rollback" \in Operation /\ "rollback" \in OperationId
  BY DEF Kinds, Operation, OperationId
<1>3. ASSUME NEW t \in Terminal
      PROVE  t \in GateState /\
             (CanMove(t) => MoveRow(Entry("receipt", "rollback", "rollback", row.state, t)))
  BY <1>1, <1>2, <1>3, StateSets, EntryTyped DEF MoveRow
<1>4. \E t \in Terminal :
         MoveOrRaise(t, "receipt", "rollback", "rollback", row, t)
  BY DEF ReconcileRollback, Terminal
<1> QED  BY <1>1, <1>2, <1>3, <1>4, MoveWrites

\* A note that the grammar admits is a step of the journal.
LEMMA NoteWrites ==
    ASSUME NEW kind \in Kinds, NEW op \in Operation, NEW id \in OperationId,
           NEW from \in GateState,
           Journal(kind, op, id, from, "none"), UNCHANGED row,
           NoteRow(Entry(kind, op, id, from, "none"))
    PROVE  JournalStep
BY DEF JournalStep, Journal

\* The receipt of an open that is given up.
LEMMA CancelOpenWrites ==
    ASSUME TypeOK, CancelOpen, row.state = "OPENING", at \in {"idle", "recover.verdict"}
    PROVE  JournalStep
<1>1. "receipt" \in Kinds /\ "open" \in Operation /\ "open" \in OperationId
      /\ "OPENING" \in GateState /\ Staged
  BY DEF Kinds, Operation, OperationId, GateState, Staged
<1>2. at' = "fail_close.intent" /\ UNCHANGED row
      /\ Journal("receipt", "open", "open", "OPENING", "none")
  BY DEF CancelOpen, Goto
<1>3. NoteRow(Entry("receipt", "open", "open", "OPENING", "none"))
  BY <1>1, <1>2, EntryTyped DEF NoteRow
<1> QED  BY <1>1, <1>2, <1>3, NoteWrites

\* The receipt of an open that worked, written by open or by reconcile.
LEMMA OpenWrites ==
    ASSUME TypeOK, route = CandRoute, row.state = "OPENING", PendingLast("open") \/ at = "idle",
           NEW op \in {"open", "open.reconcile"}, NEW value,
           MoveOrRaise("CANDIDATE_OPEN", "receipt", op, "open",
                       [AtRoute EXCEPT !.observed_candidate = route.snapshot], value)
    PROVE  JournalStep
<1>1. "receipt" \in Kinds /\ op \in Operation /\ "open" \in OperationId
      /\ "CANDIDATE_OPEN" \in GateState /\ row.state \in GateState /\ Staged
  BY DEF Kinds, Operation, OperationId, GateState, Staged
<1>2. [AtRoute EXCEPT !.observed_candidate = route.snapshot] \in Row
  BY ColumnTypes DEF TypeOK
<1>3. CanMove("CANDIDATE_OPEN") =>
        MoveRow(Entry("receipt", op, "open", row.state, "CANDIDATE_OPEN"))
  BY <1>1, EntryTyped DEF MoveRow
<1> QED  BY <1>1, <1>2, <1>3, MoveWrites

\* Reconciling an open writes a receipt of it, or announces the recovery close.
LEMMA ReconcileOpenWrites ==
    ASSUME TypeOK, row.state = "OPENING", at = "idle", ReconcileOpen
    PROVE  JournalStep
<1>1. CASE CancelOpen
  BY <1>1, CancelOpenWrites
<1>2. CASE /\ route = CandRoute
           /\ MoveOrRaise("CANDIDATE_OPEN", "receipt", "open.reconcile", "open",
                          [AtRoute EXCEPT !.observed_candidate = route.snapshot],
                          "CANDIDATE_OPEN")
  BY <1>2, OpenWrites
<1>3. CASE /\ Journal("intent", "open.reconcile.close_all", "open-reconcile-close",
                      "OPENING", "none")
           /\ UNCHANGED row /\ Goto("recover.effect", "ok")
  <2>1. "intent" \in Kinds /\ "open.reconcile.close_all" \in Operation
        /\ "open-reconcile-close" \in OperationId /\ "OPENING" \in GateState /\ Staged
    BY DEF Kinds, Operation, OperationId, GateState, Staged
  <2>2. NoteRow(Entry("intent", "open.reconcile.close_all", "open-reconcile-close",
                      "OPENING", "none"))
    BY <1>3, <2>1, EntryTyped DEF NoteRow, Goto
  <2> QED  BY <1>3, <2>1, <2>2, NoteWrites
<1> QED  BY <1>1, <1>2, <1>3 DEF ReconcileOpen

\* close's receipt, of an attempt that worked or not.
LEMMA CloseReceiptWrites == ASSUME TypeOK, LabelOwes, CloseReceipt PROVE JournalStep
<1>1. "receipt" \in Kinds /\ "close" \in Operation /\ "close" \in OperationId
      /\ "CANDIDATE_CLOSED" \in GateState /\ row.state \in GateState /\ Staged /\ row \in Row
  BY DEF Kinds, Operation, OperationId, GateState, Staged, CloseReceipt, TypeOK, Row
<1>2. PendingLast("close")
  BY DEF LabelOwes, Owes, CloseReceipt
<1>3. CASE UNCHANGED db
  BY <1>3 DEF JournalStep
<1>4. CASE MoveOrRaise("CANDIDATE_CLOSED", "receipt", "close", "close", row, "ok")
  <2>1. CanMove("CANDIDATE_CLOSED") =>
          MoveRow(Entry("receipt", "close", "close", row.state, "CANDIDATE_CLOSED"))
    BY <1>1, <1>2, EntryTyped DEF MoveRow
  <2> QED  BY <1>1, <1>4, <2>1, MoveWrites
<1>5. CASE Journal("receipt", "close", "close", row.state, "none") /\ UNCHANGED row
  <2>1. NoteRow(Entry("receipt", "close", "close", row.state, "none"))
    BY <1>1, <1>2, EntryTyped DEF NoteRow
  <2> QED  BY <1>1, <1>5, <2>1, NoteWrites
<1> QED  BY <1>3, <1>4, <1>5 DEF CloseReceipt

\* open's receipt, of an attempt that worked or not.
LEMMA OpenReceiptWrites ==
    ASSUME TypeOK, LabelOwes, OpeningLabels, OpenReceipt PROVE JournalStep
<1>1. PendingLast("open") /\ row.state = "OPENING"
  BY DEF LabelOwes, Owes, OpeningLabels, OpenReceipt
<1>2. CASE UNCHANGED db
  BY <1>2 DEF JournalStep
<1>3. CASE /\ route = CandRoute
           /\ MoveOrRaise("CANDIDATE_OPEN", "receipt", "open", "open",
                          [AtRoute EXCEPT !.observed_candidate = route.snapshot], "ok")
  BY <1>1, <1>3, OpenWrites
<1>4. CASE /\ Journal("receipt", "open", "open", "OPENING", "none") /\ UNCHANGED row
           /\ Goto("fail_close.intent", "raise")
  <2>1. "receipt" \in Kinds /\ "open" \in Operation /\ "open" \in OperationId
        /\ "OPENING" \in GateState /\ Staged
    BY <1>1 DEF Kinds, Operation, OperationId, GateState, Staged
  <2>2. NoteRow(Entry("receipt", "open", "open", "OPENING", "none"))
    BY <1>1, <1>4, <2>1, EntryTyped DEF NoteRow, Goto
  <2> QED  BY <1>4, <2>1, <2>2, NoteWrites
<1> QED  BY <1>2, <1>3, <1>4 DEF OpenReceipt

\* An intent of an operation that is announced before the gate moves.
LEMMA IntentWrites ==
    ASSUME TypeOK, Staged, NEW id \in {"close", "fail_close", "rollback"},
           Journal("intent", id, id, row.state, "none"), UNCHANGED row
    PROVE  JournalStep
<1>1. "intent" \in Kinds /\ id \in Operation /\ id \in OperationId /\ row.state \in GateState
  BY DEF Kinds, Operation, OperationId, TypeOK, Row, Staged
<1>2. NoteRow(Entry("intent", id, id, row.state, "none"))
  BY <1>1, EntryTyped DEF NoteRow
<1> QED  BY <1>1, <1>2, NoteWrites

\* The intent of open and of drain moves the gate.
LEMMA OpenIntentWrites ==
    ASSUME TypeOK, NEW fits, NEW l, Open(fits, l) PROVE JournalStep
<1>1. CASE UNCHANGED db
  BY <1>1 DEF JournalStep
<1>2. CASE /\ CanMove("OPENING")
           /\ Move("OPENING", "intent", "open", "open", [row EXCEPT !.proof = TRUE])
  <2>1. "intent" \in Kinds /\ "open" \in Operation /\ "open" \in OperationId
        /\ "OPENING" \in GateState /\ row.state \in GateState /\ Staged
        /\ [row EXCEPT !.proof = TRUE] \in Row
    BY Zenon DEF Kinds, Operation, OperationId, GateState, Staged, Open, TypeOK, Row
  <2>2. MoveRow(Entry("intent", "open", "open", row.state, "OPENING"))
    BY <1>2, <2>1, EntryTyped DEF MoveRow
  <2> QED  BY <1>2, <2>1, <2>2, MoveWrites
<1> QED  BY <1>1, <1>2 DEF Open

\* drain's intent and its receipt move the gate.
LEMMA DrainWrites ==
    ASSUME TypeOK, DrainCounts, LabelOwes, Drain \/ DrainReceipt PROVE JournalStep
<1>1. CASE UNCHANGED db
  BY <1>1 DEF JournalStep
<1>2. "intent" \in Kinds /\ "receipt" \in Kinds /\ "drain" \in Operation
      /\ "drain" \in OperationId /\ "DRAINING" \in GateState /\ "CANDIDATE_OPEN" \in GateState
      /\ row.state \in GateState /\ Staged /\ row \in Row
  BY DEF Kinds, Operation, OperationId, GateState, Staged, Drain, DrainReceipt, TypeOK, Row
<1>3. CASE CanMove("DRAINING") /\ Move("DRAINING", "intent", "drain", "drain", row)
  <2>1. MoveRow(Entry("intent", "drain", "drain", row.state, "DRAINING"))
    BY <1>2, <1>3, EntryTyped DEF MoveRow
  <2> QED  BY <1>2, <1>3, <2>1, MoveWrites
<1>4. CASE DrainReceipt /\ MoveOrRaise("CANDIDATE_OPEN", "receipt", "drain", "drain", row, "ok")
  <2>1. PendingLast("drain") /\ row.state = "DRAINING"
    BY <1>4 DEF DrainReceipt, DrainCounts, LabelOwes, Owes
  <2>2. CanMove("CANDIDATE_OPEN") =>
          MoveRow(Entry("receipt", "drain", "drain", row.state, "CANDIDATE_OPEN"))
    BY <1>2, <2>1, EntryTyped DEF MoveRow
  <2> QED  BY <1>2, <1>4, <2>2, MoveWrites
<1> QED  BY <1>1, <1>3, <1>4 DEF Drain, DrainReceipt

\* rollback's receipt.
LEMMA RollbackReceiptWrites ==
    ASSUME TypeOK, LabelOwes, RollbackReceipt PROVE JournalStep
<1>1. "receipt" \in Kinds /\ "rollback" \in Operation /\ "rollback" \in OperationId
      /\ row.state \in GateState /\ Staged /\ AtRoute \in Row
  BY ColumnTypes DEF Kinds, Operation, OperationId, Staged, RollbackReceipt, TypeOK, Row
<1>2. RollbackTarget(arg) \in Terminal /\ RollbackTarget(arg) \in GateState
  BY DEF RollbackReceipt, RollbackTarget, RollbackClass, Terminal, GateState, TypeOK
<1>3. PendingLast("rollback")
  BY DEF RollbackReceipt, LabelOwes, Owes
<1>4. MoveOrRaise(RollbackTarget(arg), "receipt", "rollback", "rollback", AtRoute, arg)
  BY DEF RollbackReceipt
<1>5. ASSUME NEW t \in Terminal
      PROVE  t \in GateState /\
             (CanMove(t) => MoveRow(Entry("receipt", "rollback", "rollback", row.state, t)))
  BY <1>1, <1>3, <1>5, StateSets, EntryTyped DEF MoveRow
<1> QED  BY <1>1, <1>2, <1>4, <1>5, MoveWrites

\* The receipts of a recovery close and of the open it answers for.
LEMMA RecoverWrites ==
    ASSUME TypeOK, OpeningLabels, RecoverReceipt \/ RecoverVerdict PROVE JournalStep
<1>1. "receipt" \in Kinds /\ "open" \in Operation /\ "open" \in OperationId
      /\ "open.reconcile.close_all" \in Operation /\ "open-reconcile-close" \in OperationId
      /\ "OPENING" \in GateState /\ "FAILED_SAFE" \in GateState /\ "FAILED_SAFE" \in Terminal
      /\ row.state = "OPENING" /\ Staged
      /\ [row EXCEPT !.route_generation = "none", !.route_fence = "closed"] \in Row
  BY ColumnTypes DEF Kinds, Operation, OperationId, GateState, Terminal, TypeOK, OpeningLabels,
     RecoverReceipt, RecoverVerdict, Staged
<1>2. CASE RecoverReceipt
  <2>1. NoteRow(Entry("receipt", "open.reconcile.close_all", "open-reconcile-close",
                      "OPENING", "none"))
    BY <1>1, <1>2, EntryTyped DEF NoteRow, RecoverReceipt
  <2> QED  BY <1>1, <1>2, <2>1, NoteWrites DEF RecoverReceipt
<1>3. CASE RecoverVerdict /\ CancelOpen
  BY <1>1, <1>3, CancelOpenWrites DEF RecoverVerdict
<1>4. CASE /\ RecoverVerdict
           /\ MoveOrRaise("FAILED_SAFE", "receipt", "open", "open",
                 [row EXCEPT !.route_generation = "none", !.route_fence = "closed"],
                 "FAILED_SAFE")
  <2>1. CanMove("FAILED_SAFE") =>
          MoveRow(Entry("receipt", "open", "open", row.state, "FAILED_SAFE"))
    BY <1>1, <1>4, EntryTyped DEF MoveRow, RecoverVerdict
  <2> QED  BY <1>1, <1>4, <2>1, MoveWrites
<1> QED  BY <1>2, <1>3, <1>4 DEF RecoverVerdict

\* Every step writes what the grammar says.
LEMMA EveryJournalStep == ASSUME TypeOK, DrainCounts, LabelInv, Step PROVE JournalStep
<1> USE DEF LabelInv
<1>1. CASE Stage
  BY <1>1 DEF Stage, JournalStep, Writes, Journal, Entry
<1>2. CASE Close
  BY <1>2, IntentWrites DEF Close, JournalStep, db
<1>3. CASE CloseReceipt \/ OpenReceipt \/ Drain \/ DrainReceipt
  BY <1>3, CloseReceiptWrites, OpenReceiptWrites, DrainWrites
<1>4. CASE \E fits \in BOOLEAN, l \in Leases : Open(fits, l)
  BY <1>4, OpenIntentWrites
<1>5. CASE FailClose
  BY <1>5, IntentWrites DEF FailClose, TypeOK
<1>6. CASE FailCloseReceipt
  <2>1. PendingLast("fail_close") /\ Staged
    BY <1>6 DEF FailCloseReceipt, LabelOwes, Owes, TypeOK
  <2> QED  BY <1>6, <2>1, FailCloseVerdictWrites DEF FailCloseReceipt
<1>7. CASE \E oracle \in BOOLEAN : Rollback(oracle)
  BY <1>7, IntentWrites DEF Rollback
<1>8. CASE RollbackReceipt \/ RecoverReceipt \/ RecoverVerdict
  BY <1>8, RollbackReceiptWrites, RecoverWrites
<1>9. CASE Reconcile
  BY <1>9, FailCloseVerdictWrites, ReconcileRollbackWrites, ReconcileOpenWrites, Zenon
     DEF Reconcile, JournalStep, Idle
<1>10. CASE RecoverAgainReceipt
  BY <1>10 DEF RecoverAgainReceipt, JournalStep, TypeOK
<1>11. CASE \/ CloseEffect \/ OpenEffect \/ FailCloseEffect \/ RollbackRestore
            \/ RollbackCloseAll \/ RecoverEffect \/ RecoverAgainEffect \/ Refused
            \/ Drift \/ Expire \/ Supersede \/ Dies \/ \E r \in Requests : Finish(r)
            \/ \E r \in Requests, done \in BOOLEAN : Observe(r, done)
  <2>1. UNCHANGED db
    BY <1>11, Zenon DEF CloseEffect, OpenEffect, FailCloseEffect, RollbackRestore,
       RollbackCloseAll, RecoverEffect, RecoverAgainEffect, Refused, Dies, Drift, Expire,
       Supersede, Finish, Observe
  <2> QED  BY <2>1 DEF JournalStep
<1> QED  BY <1>1, <1>2, <1>3, <1>4, <1>5, <1>6, <1>7, <1>8, <1>9, <1>10, <1>11
        DEF Step, Traffic, Continue

-----------------------------------------------------------------------------
(* What is pending stays pending until its receipt.                          *)

\* An intent stays pending while no receipt of its operation is written.
LEMMA PendingKept ==
    ASSUME log \in Seq(EntryType), NEW e \in EntryType, log' = Append(log, e),
           NEW id, PendingLast(id), e.kind = "receipt" => e.operation_id # id
    PROVE  PendingLast(id)'
<1>1. PICK i \in DOMAIN log :
         /\ log[i].kind = "intent" /\ log[i].operation_id = id
         /\ \A j \in DOMAIN log :
               j > i => ~(log[j].kind = "receipt" /\ log[j].operation_id = id)
  BY DEF PendingLast
<1>2. i \in DOMAIN log' /\ log'[i] = log[i]
  OBVIOUS
<1>3. ASSUME NEW j \in DOMAIN log', j > i
      PROVE  ~(log'[j].kind = "receipt" /\ log'[j].operation_id = id)
  <2>1. CASE j \in DOMAIN log
    <3>1. log'[j] = log[j]
      BY <2>1
    <3> QED  BY <1>1, <1>3, <2>1, <3>1
  <2>2. CASE j \notin DOMAIN log
    <3>1. log'[j] = e
      BY <2>2
    <3> QED  BY <3>1
  <2> QED  BY <2>1, <2>2
<1> QED  BY <1>1, <1>2, <1>3 DEF PendingLast

\* An intent that was just written is pending.
LEMMA PendingNew ==
    ASSUME log \in Seq(EntryType), NEW e \in EntryType, log' = Append(log, e),
           e.kind = "intent"
    PROVE  PendingLast(e.operation_id)'
<1>1. Len(log) + 1 \in DOMAIN log' /\ log'[Len(log) + 1] = e
      /\ \A j \in DOMAIN log' : ~(j > Len(log) + 1)
  OBVIOUS
<1> DEFINE id == e.operation_id
<1>2. \E i \in DOMAIN log' :
        /\ log'[i].kind = "intent" /\ log'[i].operation_id = id
        /\ \A j \in DOMAIN log' :
              j > i => ~(log'[j].kind = "receipt" /\ log'[j].operation_id = id)
  BY <1>1
<1> QED  BY <1>2 DEF PendingLast

\* An intent with no receipt at all is newer than every receipt.
LEMMA PendingEverIsLast == ASSUME NEW id, PendingEver(id) PROVE PendingLast(id)
BY DEF PendingEver, PendingLast, Logged

-----------------------------------------------------------------------------
(* Labels.                                                                   *)

RecoverLabels ==
    {"open.effect", "open.query", "recover.effect", "recover.query", "recover.verdict"}

AgainLabels == {"recover.again.effect", "recover.again.query"}

\* A call goes on to a label with the intent that the label owes.
LabelStep ==
    /\ at' \in DOMAIN Owes =>
         \/ UNCHANGED log /\ PendingLast(Owes[at'])
         \/ \E e \in EntryType :
               log' = Append(log, e) /\ e.kind = "intent" /\ e.operation_id = Owes[at']
    /\ at' \in RecoverLabels => row'.state = "OPENING"
    /\ at' \in AgainLabels => UNCHANGED log /\ PendingEver("open-reconcile-close")

\* Where the intents of the labels come from.
LEMMA IntentLabel ==
    ASSUME TypeOK, Staged, NEW id \in OperationId, NEW op \in Operation,
           NEW to \in GateState \cup {"none"}, NEW from \in GateState,
           Journal("intent", op, id, from, to)
    PROVE  \E e \in EntryType :
               log' = Append(log, e) /\ e.kind = "intent" /\ e.operation_id = id
<1>1. "intent" \in Kinds
  BY DEF Kinds
<1> QED  BY <1>1, EntryTyped DEF Journal

\* Where reconcile leads.
LEMMA ReconcileLabels == ASSUME TypeOK, LabelInv, Reconcile PROVE LabelStep
<1> USE DEF Owes, RecoverLabels, AgainLabels, Return, Goto
<1>1. CASE at' = "idle" \/ at' = "fail_close.intent"
  BY <1>1 DEF LabelStep
<1>2. CASE UNCHANGED db /\ Goto("recover.again.effect", "none")
           /\ PendingEver("open-reconcile-close")
  BY <1>2, PendingEverIsLast DEF LabelStep, db
<1>3. CASE /\ row.state = "OPENING" /\ UNCHANGED row /\ Goto("recover.effect", "ok")
           /\ Journal("intent", "open.reconcile.close_all", "open-reconcile-close",
                      "OPENING", "none")
  <2>1. \E e \in EntryType : /\ log' = Append(log, e) /\ e.kind = "intent"
                             /\ e.operation_id = "open-reconcile-close"
    BY <1>3, IntentLabel, Zenon DEF Staged, Operation, OperationId, GateState
  <2> QED  BY <1>3, <2>1 DEF LabelStep
<1>4. FailCloseVerdict(FALSE) => at' = "idle"
  BY VerdictReturns
<1>5. ReconcileRollback => at' = "idle"
  BY DEF ReconcileRollback, MoveOrRaise
<1>6. ReconcileOpen /\ row.state = "OPENING" => LabelStep
  BY <1>1, <1>3 DEF ReconcileOpen, CancelOpen, MoveOrRaise
<1> QED  BY <1>1, <1>2, <1>4, <1>5, <1>6, Zenon DEF Reconcile

\* Every step leads to labels that owe what is pending.
LEMMA EveryLabelStep == ASSUME TypeOK, LabelInv, Step PROVE LabelStep
<1> USE DEF Owes, RecoverLabels, AgainLabels, Return, Goto
<1>0. CASE at' \in {"idle", "fail_close.intent", "observe.finish"}
  BY <1>0 DEF LabelStep
<1>1. CASE at' = at /\ UNCHANGED db
  BY <1>1 DEF LabelStep, LabelInv, LabelOwes, OpeningLabels, AgainIsPending, db
<1>2. CASE Close
  <2>1. CASE Journal("intent", "close", "close", row.state, "none") /\ at' = "close.effect"
    <3>1. row.state \in GateState /\ Staged
      BY <1>2 DEF Close, Staged, TypeOK, Row
    <3>2. \E e \in EntryType :
             log' = Append(log, e) /\ e.kind = "intent" /\ e.operation_id = "close"
      BY <2>1, <3>1, IntentLabel, Zenon DEF Operation, OperationId
    <3> QED  BY <2>1, <3>2 DEF LabelStep
  <2>2. CASE UNCHANGED log /\ PendingEver("close") /\ at' = "close.effect"
    BY <2>2, PendingEverIsLast DEF LabelStep
  <2> QED  BY <1>0, <1>2, <2>1, <2>2 DEF Close
<1>3. CASE CloseEffect \/ OpenEffect \/ FailCloseEffect \/ RollbackRestore \/ RollbackCloseAll
           \/ RecoverEffect \/ RecoverAgainEffect
  <2>1. UNCHANGED db
    BY <1>3 DEF CloseEffect, OpenEffect, FailCloseEffect, RollbackRestore, RollbackCloseAll,
       RecoverEffect, RecoverAgainEffect
  <2>2. \/ at' = "idle"
        \/ at = "close.effect" /\ at' = "close.query"
        \/ at = "open.effect" /\ at' = "open.query"
        \/ at = "fail_close.effect" /\ at' = "fail_close.query"
        \/ at = "rollback.restore" /\ at' \in {"rollback.close_all", "rollback.receipt"}
        \/ at = "rollback.close_all" /\ at' = "rollback.receipt"
        \/ at = "recover.effect" /\ at' = "recover.query"
        \/ at = "recover.again.effect" /\ at' = "recover.again.query"
    BY <1>3 DEF CloseEffect, OpenEffect, FailCloseEffect, RollbackRestore, RollbackCloseAll,
       RecoverEffect, RecoverAgainEffect
  <2> QED  BY <1>0, <2>1, <2>2
          DEF LabelStep, LabelInv, LabelOwes, OpeningLabels, AgainIsPending, db
<1>4. CASE \E fits \in BOOLEAN, l \in Leases : Open(fits, l)
  <2>1. CASE /\ Staged /\ at' = "open.effect"
             /\ Move("OPENING", "intent", "open", "open", [row EXCEPT !.proof = TRUE])
    <3>1. row.state \in GateState /\ row \in Row
      BY <2>1 DEF Staged, TypeOK, Row
    <3>2. \E e \in EntryType :
             log' = Append(log, e) /\ e.kind = "intent" /\ e.operation_id = "open"
      BY <2>1, <3>1, IntentLabel, Zenon DEF Operation, OperationId, GateState, Move
    <3>3. row'.state = "OPENING"
      BY <2>1, <3>1 DEF Move, Row
    <3> QED  BY <2>1, <3>2, <3>3 DEF LabelStep
  <2> QED  BY <1>0, <1>4, <2>1 DEF Open
<1>5. CASE Drain
  <2>1. CASE row.state = "DRAINING" /\ UNCHANGED db /\ at' = "drain.count"
    BY <2>1 DEF LabelStep, LabelInv, DrainOwes, db
  <2>2. CASE Staged /\ Move("DRAINING", "intent", "drain", "drain", row) /\ at' = "drain.count"
    <3>1. row.state \in GateState
      BY <2>2, Zenon DEF Staged, TypeOK, Row
    <3>2. \E e \in EntryType :
             log' = Append(log, e) /\ e.kind = "intent" /\ e.operation_id = "drain"
      BY <2>2, <3>1, IntentLabel, Zenon DEF Operation, OperationId, GateState, Move
    <3> QED  BY <2>2, <3>2 DEF LabelStep
  <2> QED  BY <1>0, <1>5, <2>1, <2>2 DEF Drain
<1>6. CASE FailClose
  <2>1. row.state \in GateState /\ Staged /\ at' = "fail_close.effect"
    BY <1>6 DEF FailClose, Staged, TypeOK, Row
  <2>2. \E e \in EntryType :
           log' = Append(log, e) /\ e.kind = "intent" /\ e.operation_id = "fail_close"
    BY <1>6, <2>1, IntentLabel, Zenon DEF Operation, OperationId, FailClose
  <2> QED  BY <2>1, <2>2 DEF LabelStep
<1>7. CASE \E oracle \in BOOLEAN : Rollback(oracle)
  <2>1. row.state \in GateState /\ Staged /\ at' = "rollback.restore"
        /\ Journal("intent", "rollback", "rollback", row.state, "none")
    BY <1>7 DEF Rollback, Staged, TypeOK, Row
  <2>2. \E e \in EntryType :
           log' = Append(log, e) /\ e.kind = "intent" /\ e.operation_id = "rollback"
    BY <2>1, IntentLabel, Zenon DEF Operation, OperationId
  <2> QED  BY <2>1, <2>2 DEF LabelStep
<1>8. CASE RecoverReceipt
  BY <1>8 DEF RecoverReceipt, LabelStep, LabelInv, OpeningLabels
<1>9. CASE Stage \/ Refused \/ CloseReceipt \/ OpenReceipt \/ DrainReceipt \/ RollbackReceipt
           \/ RecoverVerdict \/ RecoverAgainReceipt \/ Dies \/ FailCloseReceipt
  BY <1>0, <1>9, VerdictReturns, Zenon DEF Stage, Refused, CloseReceipt, OpenReceipt, DrainReceipt,
     RollbackReceipt, RecoverVerdict, RecoverAgainReceipt, RecoverAgainVerdict, CancelOpen,
     Dies, FailCloseReceipt, MoveOrRaise
<1>10. CASE \/ \E r \in Requests : Finish(r)
            \/ \E r \in Requests, done \in BOOLEAN : Observe(r, done)
  BY <1>0, <1>10 DEF Finish, Observe
<1>11. CASE Drift \/ Expire \/ Supersede
  BY <1>1, <1>11 DEF Drift, Expire, Supersede, call
<1>12. CASE Reconcile
  BY <1>12, ReconcileLabels
<1> QED  BY <1>2, <1>3, <1>4, <1>5, <1>6, <1>7, <1>8, <1>9, <1>10, <1>11, <1>12
        DEF Step, Traffic, Continue

\* What the labels owe stays owed.
LEMMA LabelInvStep ==
    ASSUME TypeOK, LabelInv, LabelStep, JournalStep PROVE LabelInv'
<1>0. log \in Seq(EntryType)
  BY DEF TypeOK
<1>1. LabelOwes'
  <2> SUFFICES ASSUME at' \in DOMAIN Owes PROVE PendingLast(Owes[at])'
    BY DEF LabelOwes
  <2>1. PICK id : id = Owes[at']
    OBVIOUS
  <2>2. PendingLast(id)'
    <3>1. CASE UNCHANGED log /\ PendingLast(id)
      BY <3>1 DEF PendingLast
    <3>2. CASE \E e \in EntryType :
                  log' = Append(log, e) /\ e.kind = "intent" /\ e.operation_id = id
      BY <1>0, <3>2, PendingNew
    <3> QED  BY <2>1, <3>1, <3>2 DEF LabelStep
  <2> QED  BY <2>1, <2>2 DEF Owes, PendingLast
<1>2. DrainOwes'
  <2> SUFFICES ASSUME row'.state = "DRAINING" PROVE PendingLast("drain")'
    BY DEF DrainOwes
  <2>1. CASE UNCHANGED db
    BY <2>1 DEF LabelInv, DrainOwes, PendingLast, db
  <2>2. ASSUME NEW e, NoteRow(e), log' = Append(log, e), row' = row
        PROVE  PendingLast("drain")'
    BY <1>0, <2>2, PendingKept DEF NoteRow, LabelInv, DrainOwes
  <2>3. ASSUME NEW e, MoveRow(e), Writes(e)
        PROVE  PendingLast("drain")'
    BY <1>0, <2>3, PendingNew DEF MoveRow, Writes, Terminal
  <2>4. ASSUME NEW target \in {"FAILED_SAFE", "SAFETY_UNKNOWN"}, RecoverAgainVerdict(target)
        PROVE  PendingLast("drain")'
    BY <2>1, <2>4, Zenon DEF RecoverAgainVerdict, TypeOK, Row
  <2> QED  BY <2>1, <2>2, <2>3, <2>4 DEF JournalStep, Writes, Entry
<1>3. OpeningLabels'
  BY DEF LabelStep, OpeningLabels, RecoverLabels
<1>4. AgainIsPending'
  BY DEF LabelStep, AgainIsPending, AgainLabels, PendingEver, Logged
<1> QED  BY <1>1, <1>2, <1>3, <1>4 DEF LabelInv

-----------------------------------------------------------------------------
(* Replaying the journal.                                                    *)

MovesIn(s, n) == {i \in 1..n : s[i].to_state # "none"}

IsLast(i, S) == i \in S /\ \A j \in S : j <= i

\* The state after the first n rows of s, without choosing: what ReplayState computes.
Replays(s, n, state) ==
    \/ MovesIn(s, n) = {} /\ state = "PREDECESSOR_OPEN"
    \/ \E i \in MovesIn(s, n) : IsLast(i, MovesIn(s, n)) /\ state = s[i].to_state

\* ReplayState is the one value the rows replay to.
LEMMA ReplayIsReplayState ==
    ASSUME NEW n \in Nat, NEW state, Replays(log, n, state)
    PROVE  ReplayState(n) = state
<1>1. CASE MovesIn(log, n) = {}
  BY <1>1, Zenon DEF Replays, ReplayState, Moves, MovesIn
<1>2. CASE MovesIn(log, n) # {}
  <2>1. PICK i \in Moves(n) : (\A j \in Moves(n) : j <= i) /\ state = log[i].to_state
    BY <1>2 DEF Replays, Moves, MovesIn, IsLast
  <2> DEFINE k == CHOOSE k \in Moves(n) : \A j \in Moves(n) : j <= k
  <2>2. k \in Moves(n) /\ \A j \in Moves(n) : j <= k
    BY <2>1
  <2>3. k <= i /\ i <= k /\ i \in Nat /\ k \in Nat
    BY <2>1, <2>2 DEF Moves
  <2>4. k = i
    BY <2>3
  <2> QED  BY <2>1, <2>4 DEF ReplayState, Moves
<1> QED  BY <1>1, <1>2, Zenon

\* A journal that replays to the state, every moving row of which starts where the
\* rows before it lead to and follows the graph.
GoodJournal(s, state) ==
    /\ Replays(s, Len(s), state)
    /\ \A n \in DOMAIN s : s[n].to_state # "none" =>
          /\ Replays(s, n - 1, s[n].from_state)
          /\ s[n].to_state \in Allowed[s[n].from_state] \cup {s[n].from_state}

\* What the earlier rows replay to does not depend on the later ones.
LEMMA ReplayPrefix ==
    ASSUME NEW s \in Seq(EntryType), NEW e \in EntryType, NEW n \in 0..Len(s), NEW state,
           Replays(s, n, state)
    PROVE  Replays(Append(s, e), n, state)
<1>1. \A i \in 1..n : Append(s, e)[i] = s[i]
  OBVIOUS
<1>2. MovesIn(Append(s, e), n) = MovesIn(s, n)
  BY <1>1 DEF MovesIn
<1> QED  BY <1>1, <1>2, Zenon DEF Replays, MovesIn

\* The rows already written are good in the longer journal too.
LEMMA GoodPrefix ==
    ASSUME NEW s \in Seq(EntryType), NEW e \in EntryType, NEW state, GoodJournal(s, state),
           NEW n \in DOMAIN s, Append(s, e)[n].to_state # "none"
    PROVE  /\ Replays(Append(s, e), n - 1, Append(s, e)[n].from_state)
           /\ Append(s, e)[n].to_state \in
                 Allowed[Append(s, e)[n].from_state] \cup {Append(s, e)[n].from_state}
<1>1. Append(s, e)[n] = s[n] /\ n - 1 \in 0..Len(s)
  OBVIOUS
<1>2. Replays(s, n - 1, s[n].from_state)
  BY <1>1 DEF GoodJournal
<1> QED  BY <1>1, <1>2, ReplayPrefix DEF GoodJournal

\* A note changes nothing of what the journal replays to.
LEMMA NoteReplays ==
    ASSUME NEW s \in Seq(EntryType), NEW e \in EntryType, e.to_state = "none",
           NEW state, GoodJournal(s, state)
    PROVE  GoodJournal(Append(s, e), state)
<1> DEFINE t == Append(s, e)
<1>1. Len(t) = Len(s) + 1 /\ t[Len(s) + 1] = e /\ DOMAIN t = 1..(Len(s) + 1)
      /\ \A i \in 1..Len(s) : t[i] = s[i]
  OBVIOUS
<1>2. MovesIn(t, Len(t)) = MovesIn(s, Len(s))
  BY <1>1 DEF MovesIn
<1>3. Replays(t, Len(t), state)
  BY <1>1, <1>2, Zenon DEF GoodJournal, Replays, MovesIn
<1>4. ASSUME NEW n \in DOMAIN t, t[n].to_state # "none" PROVE n \in DOMAIN s
  BY <1>1, <1>4
<1> QED  BY <1>3, <1>4, GoodPrefix, Zenon DEF GoodJournal

\* A row that moves from the replayed state replays to its target.
LEMMA MoveReplays ==
    ASSUME NEW s \in Seq(EntryType), NEW e \in EntryType, e.to_state # "none",
           GoodJournal(s, e.from_state),
           e.to_state \in Allowed[e.from_state] \cup {e.from_state}
    PROVE  GoodJournal(Append(s, e), e.to_state)
<1> DEFINE t == Append(s, e)
<1>1. Len(t) = Len(s) + 1 /\ t[Len(s) + 1] = e /\ DOMAIN t = 1..(Len(s) + 1)
      /\ Len(s) \in Nat /\ DOMAIN s = 1..Len(s)
  OBVIOUS
<1>2. Len(s) + 1 \in MovesIn(t, Len(t)) /\ IsLast(Len(s) + 1, MovesIn(t, Len(t)))
  BY <1>1 DEF MovesIn, IsLast
<1>3. Replays(t, Len(t), e.to_state)
  BY <1>1, <1>2 DEF Replays
<1>4. ASSUME NEW n \in DOMAIN t, t[n].to_state # "none"
      PROVE  /\ Replays(t, n - 1, t[n].from_state)
             /\ t[n].to_state \in Allowed[t[n].from_state] \cup {t[n].from_state}
  <2>1. CASE n = Len(s) + 1
    <3>1. Replays(t, Len(s), e.from_state)
      BY <1>1, ReplayPrefix DEF GoodJournal
    <3> QED  BY <1>1, <2>1, <3>1
  <2>2. CASE n \in DOMAIN s
    BY <1>4, <2>2, GoodPrefix, Zenon
  <2> QED  BY <1>1, <2>1, <2>2
<1> QED  BY <1>3, <1>4 DEF GoodJournal

\* The journal of a staged gate is good, and that of an unstaged one is empty.
JournalInv == IF Staged THEN GoodJournal(log, row.state) ELSE log = <<>>

\* The first row of the journal is that of stage.
LEMMA FirstRow ==
    LET e == Entry("receipt", "stage", "stage", "PREDECESSOR_OPEN", "CANDIDATE_STAGED")
    IN  GoodJournal(Append(<<>>, e), "CANDIDATE_STAGED")
<1> DEFINE e == Entry("receipt", "stage", "stage", "PREDECESSOR_OPEN", "CANDIDATE_STAGED")
<1>1. e \in EntryType /\ e.to_state = "CANDIDATE_STAGED" /\ e.from_state = "PREDECESSOR_OPEN"
  BY DEF Entry, EntryType, Operation, OperationId, GateState
<1>2. e.to_state \in Allowed[e.from_state] \cup {e.from_state}
  <2>1. "CANDIDATE_STAGED" \in Allowed["PREDECESSOR_OPEN"]
    BY DEF Allowed, GateState, Terminal
  <2> QED  BY <1>1, <2>1, Zenon
<1>3. \E s \in Seq(EntryType) : s = <<>> /\ Len(s) = 0
  <2>1. <<>> \in Seq(EntryType) /\ Len(<<>>) = 0
    OBVIOUS
  <2> QED  BY <2>1, Zenon
<1>4. ASSUME NEW s \in Seq(EntryType), Len(s) = 0 PROVE GoodJournal(s, e.from_state)
  <2>1. (\A i \in 1..0 : FALSE) /\ DOMAIN s = 1..0
    BY <1>4
  <2>2. MovesIn(s, 0) = {}
    BY <2>1, Zenon DEF MovesIn
  <2> QED  BY <1>1, <1>4, <2>1, <2>2, Zenon DEF GoodJournal, Replays
<1>5. <<>> \in Seq(EntryType) /\ GoodJournal(<<>>, e.from_state)
  BY <1>3, <1>4, Zenon
<1> HIDE DEF e
<1>6. GoodJournal(Append(<<>>, e), "CANDIDATE_STAGED")
  BY <1>1, <1>2, <1>5, MoveReplays, Zenon
<1> QED  BY <1>6 DEF e

\* Every step keeps the journal good.
LEMMA JournalInvStep ==
    ASSUME TypeOK, JournalInv, JournalStep, row' \in Row, Staged => Staged' PROVE JournalInv'
<1>0. log \in Seq(EntryType) /\ row \in Row
  BY DEF TypeOK
<1>1. CASE UNCHANGED db
  BY <1>1 DEF JournalInv, db, Staged
<1>2. ASSUME NEW e, NoteRow(e), log' = Append(log, e), row' = row PROVE JournalInv'
  <2>1. e \in EntryType /\ e.to_state = "none"
    BY <1>2 DEF NoteRow
  <2>2. Staged
    BY <1>2 DEF NoteRow
  <2>3. GoodJournal(log', row'.state)
    BY <1>0, <1>2, <2>1, <2>2, NoteReplays DEF JournalInv
  <2> QED  BY <1>2, <2>2, <2>3 DEF JournalInv, Staged
<1>3. ASSUME NEW e, MoveRow(e), Writes(e) PROVE JournalInv'
  <2>1. /\ e \in EntryType /\ e.from_state = row.state /\ Staged /\ log' = Append(log, e)
        /\ e.to_state = row'.state /\ e.to_state \in Allowed[e.from_state] \cup {e.from_state}
    BY <1>3 DEF MoveRow, Writes, CanMove
  <2>2. e.to_state # "none"
    BY <1>3 DEF MoveRow, Terminal
  <2>3. GoodJournal(log', row'.state)
    BY <1>0, <2>1, <2>2, MoveReplays DEF JournalInv
  <2> QED  BY <2>1, <2>3 DEF JournalInv
<1>4. CASE /\ ~Staged
           /\ Writes(Entry("receipt", "stage", "stage", "PREDECESSOR_OPEN", "CANDIDATE_STAGED"))
  <2>1. log = <<>> /\ row'.state = "CANDIDATE_STAGED"
    BY <1>4 DEF JournalInv, Writes, Entry
  <2>2. GoodJournal(log', row'.state)
    BY <1>4, <2>1, FirstRow DEF Writes
  <2> QED  BY <2>1, <2>2 DEF JournalInv, Staged
<1>5. ASSUME NEW target \in {"FAILED_SAFE", "SAFETY_UNKNOWN"}, Staged,
             RecoverAgainVerdict(target), ~UNCHANGED db
      PROVE  JournalInv'
  <2> DEFINE e == Entry("receipt", "open.reconcile.close_all", "open-reconcile-close",
                        "OPENING", "none")
             f == Entry("receipt", "open", "open", row.state, target)
  <2>1. /\ e \in EntryType /\ f \in EntryType /\ e.to_state = "none"
        /\ f.from_state = row.state /\ f.to_state = target
    BY <1>0, <1>5 DEF Row, Staged, Entry, EntryType, Operation, OperationId, GateState, Terminal
  <2>2. log' = log \o <<e, f>> /\ CanMove(target)
    BY <1>5, Zenon DEF RecoverAgainVerdict
  <2>3. row'.state = target
    BY <1>0, <1>5, Zenon DEF RecoverAgainVerdict, Row
  <2> HIDE DEF e, f
  <2>4. log' = Append(Append(log, e), f) /\ Append(log, e) \in Seq(EntryType)
    BY <1>0, <2>1, <2>2
  <2>5. GoodJournal(Append(log, e), row.state)
    BY <1>0, <1>5, <2>1, NoteReplays DEF JournalInv
  <2>6. GoodJournal(log', target)
    BY <2>1, <2>2, <2>4, <2>5, MoveReplays, Zenon DEF CanMove
  <2> QED  BY <1>5, <2>3, <2>6 DEF JournalInv
<1> QED  BY <1>1, <1>2, <1>3, <1>4, <1>5 DEF JournalStep

\* Such a journal is what ReplayMatchesDurable asks for.
LEMMA GoodJournalMatches == ASSUME TypeOK, JournalInv PROVE ReplayMatchesDurable
<1> SUFFICES ASSUME Staged, GoodJournal(log, row.state)
             PROVE  /\ ReplayState(Len(log)) = row.state
                    /\ \A n \in DOMAIN log : log[n].to_state # "none" =>
                          /\ log[n].from_state = ReplayState(n - 1)
                          /\ log[n].to_state \in Allowed[log[n].from_state] \cup {log[n].from_state}
  BY DEF JournalInv, ReplayMatchesDurable
<1>1. log \in Seq(EntryType) /\ Len(log) \in Nat /\ \A n \in DOMAIN log : n - 1 \in Nat
  BY DEF TypeOK
<1> QED  BY <1>1, ReplayIsReplayState DEF GoodJournal

-----------------------------------------------------------------------------
(* What the trace oracle looks at: open receipts, admissions, answers.       *)

OpenRow(e) ==
    /\ e.kind = "receipt" /\ e.to_state = "CANDIDATE_OPEN"
    /\ e.operation \in {"open", "open.reconcile", "open.reconcile.close_all"}

\* A row that is not an open receipt adds none.
LEMMA OtherRow ==
    ASSUME log \in Seq(EntryType), NEW e \in EntryType, log' = Append(log, e), ~OpenRow(e)
    PROVE  OpenReceipts' = OpenReceipts
<1>1. DOMAIN log' = 1..Len(log) + 1 /\ DOMAIN log = 1..Len(log) /\ log'[Len(log) + 1] = e
      /\ \A n \in DOMAIN log : log'[n] = log[n]
  OBVIOUS
<1>2. ASSUME NEW n \in DOMAIN log' PROVE n \in DOMAIN log \/ n = Len(log) + 1
  BY <1>1
<1>3. \A n \in DOMAIN log : n \in DOMAIN log'
  BY <1>1
<1> QED  BY <1>1, <1>2, <1>3, Zenon DEF OpenReceipts, OpenRow

\* The first open receipt is the only one.
LEMMA FirstOpenRow ==
    ASSUME log \in Seq(EntryType), NEW e \in EntryType, log' = Append(log, e), OpenRow(e),
           OpenReceipts = {}
    PROVE  OpenReceipts' = {Len(log) + 1}
<1>1. DOMAIN log' = 1..Len(log) + 1 /\ DOMAIN log = 1..Len(log) /\ log'[Len(log) + 1] = e
      /\ \A n \in DOMAIN log : log'[n] = log[n]
  OBVIOUS
<1>2. Len(log) + 1 \in DOMAIN log' /\ \A n \in DOMAIN log' : n \in DOMAIN log \/ n = Len(log) + 1
  BY <1>1
<1>3. \A n \in DOMAIN log : ~OpenRow(log[n])
  BY DEF OpenReceipts, OpenRow
<1>4. \A n \in DOMAIN log' : OpenRow(log'[n]) <=> n = Len(log) + 1
  BY <1>1, <1>2, <1>3
<1> QED  BY <1>2, <1>4 DEF OpenReceipts, OpenRow

OpenReached == OpenReceipts # {} => row.state \in Opened \cup Terminal

\* A step adds the first open receipt, with the move that opens the gate, or none.
OpenStep ==
    \/ OpenReceipts' = OpenReceipts /\ (row'.state \in Opened => row.state \in Opened)
    \/ /\ OpenReceipts = {} /\ OpenReceipts' = {Len(log) + 1}
       /\ row'.state = "CANDIDATE_OPEN" /\ row'.transition_seq = Len(log) + 1

SeqStep ==
    /\ Len(log) <= Len(log')
    /\ \/ row'.transition_seq = row.transition_seq
       \/ Len(log) < row'.transition_seq /\ row'.transition_seq = Len(log')

\* Every step of the journal is such a step.
LEMMA EveryOpenStep ==
    ASSUME IInv, OpenReached, JournalStep, DbStep
    PROVE  OpenStep /\ SeqStep
<1>0. log \in Seq(EntryType) /\ Len(log) \in Nat /\ row.transition_seq \in Nat /\ row \in Row
      /\ Len(log) + 1 > Len(log) /\ Len(log) <= Len(log)
  BY DEF IInv, TypeOK, Row
<1>1. CASE UNCHANGED db
  BY <1>0, <1>1 DEF db, OpenStep, SeqStep, OpenReceipts
<1>2. ASSUME NEW e, NoteRow(e), log' = Append(log, e), row' = row
      PROVE  OpenStep /\ SeqStep
  <2>1. e \in EntryType /\ ~OpenRow(e)
    BY <1>2 DEF NoteRow, OpenRow
  <2>2. Len(log') = Len(log) + 1
    BY <1>0, <1>2, <2>1
  <2> QED  BY <1>0, <1>2, <2>1, <2>2, OtherRow DEF OpenStep, SeqStep
<1>3. ASSUME NEW e, MoveRow(e), Writes(e)
      PROVE  OpenStep /\ SeqStep
  <2>1. /\ e \in EntryType /\ Staged /\ log' = Append(log, e)
        /\ row'.state = e.to_state /\ row'.transition_seq = Len(log) + 1
    BY <1>3 DEF MoveRow, Writes
  <2>2. Len(log') = Len(log) + 1
    BY <1>0, <2>1
  <2>3. SeqStep
    BY <1>0, <2>1, <2>2 DEF SeqStep
  <2>4. CASE OpenRow(e)
    <3>1. row.state = "OPENING" /\ e.to_state = "CANDIDATE_OPEN"
      BY <1>3, <2>4 DEF MoveRow, OpenRow, Terminal
    <3>2. OpenReceipts = {}
      BY <3>1 DEF OpenReached, Opened, Terminal
    <3> QED  BY <1>0, <2>1, <2>3, <2>4, <3>1, <3>2, FirstOpenRow DEF OpenStep
  <2>5. CASE ~OpenRow(e)
    <3>1. OpenReceipts' = OpenReceipts
      BY <1>0, <2>1, <2>5, OtherRow
    <3>2. row'.state = "CANDIDATE_OPEN" => row.state = "DRAINING"
      BY <1>3, <2>1, <2>5 DEF MoveRow, OpenRow, Terminal
    <3>3. row'.state = "DRAINING" => row.state \in Opened
      BY <2>1, RowStepFacts
    <3> QED  BY <2>3, <3>1, <3>2, <3>3 DEF OpenStep, Opened
  <2> QED  BY <2>4, <2>5
<1>4. CASE /\ ~Staged
           /\ Writes(Entry("receipt", "stage", "stage", "PREDECESSOR_OPEN", "CANDIDATE_STAGED"))
  <2> DEFINE e == Entry("receipt", "stage", "stage", "PREDECESSOR_OPEN", "CANDIDATE_STAGED")
  <2>1. e \in EntryType /\ ~OpenRow(e) /\ e.to_state = "CANDIDATE_STAGED"
    BY DEF Entry, OpenRow, EntryType, Operation, OperationId, GateState
  <2>2. log' = Append(log, e) /\ row'.state = e.to_state /\ row'.transition_seq = Len(log) + 1
    BY <1>4 DEF Writes
  <2> HIDE DEF e
  <2>3. Len(log') = Len(log) + 1
    BY <1>0, <2>1, <2>2
  <2> QED  BY <1>0, <2>1, <2>2, <2>3, OtherRow DEF OpenStep, SeqStep, Opened
<1>5. ASSUME NEW target \in {"FAILED_SAFE", "SAFETY_UNKNOWN"}, Staged,
             RecoverAgainVerdict(target), ~UNCHANGED db
      PROVE  OpenStep /\ SeqStep
  <2> DEFINE e == Entry("receipt", "open.reconcile.close_all", "open-reconcile-close",
                        "OPENING", "none")
             f == Entry("receipt", "open", "open", row.state, target)
  <2>1. e \in EntryType /\ f \in EntryType /\ ~OpenRow(e) /\ ~OpenRow(f)
    BY <1>0, <1>5 DEF Row, Staged, Entry, EntryType, Operation, OperationId, GateState,
       Terminal, OpenRow
  <2>2. log' = log \o <<e, f>>
    BY <1>5, Zenon DEF RecoverAgainVerdict
  <2>3. row'.state = target /\ row'.transition_seq = Len(log) + 2
    BY <1>0, <1>5, Zenon DEF RecoverAgainVerdict, Row
  <2> HIDE DEF e, f
  <2>4. /\ Len(log') = Len(log) + 2 /\ DOMAIN log' = 1..Len(log) + 2 /\ DOMAIN log = 1..Len(log)
        /\ log'[Len(log) + 1] = e /\ log'[Len(log) + 2] = f
        /\ \A n \in DOMAIN log : log'[n] = log[n]
    BY <1>0, <2>1, <2>2
  <2>5. \A n \in DOMAIN log' : n \in DOMAIN log \/ n = Len(log) + 1 \/ n = Len(log) + 2
    BY <1>0, <2>4
  <2>6. \A n \in DOMAIN log : n \in DOMAIN log'
    BY <1>0, <2>4
  <2>7. OpenReceipts' = OpenReceipts
    BY <2>1, <2>4, <2>5, <2>6, Zenon DEF OpenReceipts, OpenRow
  <2> QED  BY <1>0, <2>3, <2>4, <2>7 DEF OpenStep, SeqStep, Opened
<1> QED  BY <1>1, <1>2, <1>3, <1>4, <1>5 DEF JournalStep

-----------------------------------------------------------------------------
(* Admissions and the open receipt. *)

SeqBound ==
    /\ row.transition_seq <= Len(log)
    /\ \A r \in Requests : admissions[r].transition_seq <= Len(log)

OpenHasReceipt == row.state \in Opened => \E n \in OpenReceipts : n <= row.transition_seq

\* An admission to the candidate carries a sequence number from the open receipt on,
\* one to the predecessor an earlier one.
Fits(a) ==
    \/ a.generation = "cand" /\ a.fence = "cand" /\ \E n \in OpenReceipts : n <= a.transition_seq
    \/ a.generation = "pred" /\ a.fence = "pred" /\ \A n \in OpenReceipts : a.transition_seq < n

OracleInv ==
    /\ SeqBound /\ OpenReached /\ OpenHasReceipt
    /\ \A m, n \in OpenReceipts : m = n
    /\ \A r \in Requests : Admitted(r) => Fits(admissions[r])

\* An admission that fits goes on fitting.
LEMMA StillFits ==
    ASSUME OpenStep, log \in Seq(EntryType), NEW a \in AdmissionType,
           a.transition_seq <= Len(log), Fits(a)
    PROVE  Fits(a)'
<1>1. Len(log) \in Nat /\ a.transition_seq \in Nat
  BY DEF AdmissionType
<1>2. CASE OpenReceipts' = OpenReceipts
  BY <1>2 DEF Fits
<1>3. CASE OpenReceipts = {} /\ OpenReceipts' = {Len(log) + 1}
  <2>1. a.generation = "pred" /\ a.fence = "pred"
    BY <1>3 DEF Fits
  <2>2. \A n \in OpenReceipts' : a.transition_seq < n
    BY <1>1, <1>3
  <2> QED  BY <2>1, <2>2 DEF Fits
<1> QED  BY <1>2, <1>3 DEF OpenStep

\* The open receipt, what precedes it and what follows it.
LEMMA OracleInvStep ==
    ASSUME IInv, OracleInv, OpenStep, SeqStep, DbStep, AdmissionStep
    PROVE  OracleInv'
<1>0. /\ log \in Seq(EntryType) /\ Len(log) \in Nat /\ row.transition_seq \in Nat /\ row \in Row
      /\ admissions \in [Requests -> AdmissionType] /\ log' \in Seq(EntryType) /\ row' \in Row
      /\ Len(log') \in Nat /\ row'.transition_seq \in Nat
      /\ \A r \in Requests : admissions[r].transition_seq \in Nat
  BY DEF IInv, TypeOK, Row, DbStep, AdmissionType
<1>1. row'.transition_seq <= Len(log')
  BY <1>0 DEF OracleInv, SeqBound, SeqStep
<1>2. OpenReached'
  <2> SUFFICES ASSUME OpenReceipts' # {} PROVE row'.state \in Opened \cup Terminal
    BY DEF OpenReached
  <2>1. CASE OpenReceipts' = OpenReceipts
    <3>1. row.state \in Opened \cup Terminal /\ Staged
      BY <2>1 DEF OracleInv, OpenReached, Staged, Opened, Terminal
    <3> QED  BY <3>1, RowStepFacts
  <2> QED  BY <2>1 DEF OpenStep, Opened
<1>3. OpenHasReceipt'
  <2> SUFFICES ASSUME row'.state \in Opened
               PROVE  \E n \in OpenReceipts' : n <= row'.transition_seq
    BY DEF OpenHasReceipt
  <2>1. CASE OpenReceipts' = OpenReceipts /\ row.state \in Opened
    <3>1. PICK n \in OpenReceipts : n <= row.transition_seq
      BY <2>1 DEF OracleInv, OpenHasReceipt
    <3>2. n \in Nat
      BY <1>0 DEF OpenReceipts
    <3>3. n <= row'.transition_seq
      BY <1>0, <3>1, <3>2 DEF SeqStep, OracleInv, SeqBound
    <3> QED  BY <2>1, <3>3
  <2>2. CASE OpenReceipts' = {Len(log) + 1} /\ row'.transition_seq = Len(log) + 1
    BY <1>0, <2>2
  <2> QED  BY <2>1, <2>2 DEF OpenStep
<1>4. \A m, n \in OpenReceipts' : m = n
  BY DEF OracleInv, OpenStep
<1>5. \A r \in Requests : /\ admissions'[r].transition_seq <= Len(log')
                          /\ Admitted(r)' => Fits(admissions[r])'
  <2>1. CASE admissions' = admissions
    <3>1. \A r \in Requests : admissions[r].transition_seq <= Len(log')
      BY <1>0 DEF SeqStep, OracleInv, SeqBound
    <3>2. ASSUME NEW r \in Requests, Admitted(r) PROVE Fits(admissions[r])'
      <4>1. PICK a \in AdmissionType : a = admissions[r]
        BY <1>0
      <4>2. Fits(a)'
        BY <1>0, <3>2, <4>1, StillFits DEF OracleInv, SeqBound
      <4> QED  BY <2>1, <4>1, <4>2 DEF Fits
    <3> QED  BY <2>1, <3>1, <3>2 DEF Admitted
  <2>2. ASSUME NEW q \in Requests, Admits(q), UNCHANGED db
        PROVE  \A r \in Requests : /\ admissions'[r].transition_seq <= Len(log')
                                   /\ Admitted(r)' => Fits(admissions[r])'
    <3>1. OpenReceipts' = OpenReceipts
      BY <2>2 DEF OpenReceipts, db
    <3>2. admissions' = [admissions EXCEPT ![q] =
             [generation |-> route.generation, fence |-> route.fence,
              transition_seq |-> row.transition_seq, finished |-> FALSE]]
      BY <2>2 DEF Admits, AdmitTo
    <3>3. ASSUME NEW r \in Requests, r # q
          PROVE  /\ admissions'[r].transition_seq <= Len(log')
                 /\ Admitted(r)' => Fits(admissions[r])'
      <4>1. admissions'[r] = admissions[r] /\ log' = log
        BY <1>0, <2>2, <3>2, <3>3, Zenon DEF db
      <4> QED  BY <3>1, <4>1, Zenon DEF OracleInv, SeqBound, Fits, Admitted
    <3>4. CASE row.state \in PreOpen /\ route = PredRoute
      <4>1. OpenReceipts = {}
        BY <3>4 DEF OracleInv, OpenReached, PreOpen, Opened, Terminal
      <4>2. route.generation = "pred" /\ route.fence = "pred"
        BY <3>4 DEF PredRoute
      <4>3. Fits(admissions[q])' /\ admissions'[q].transition_seq <= Len(log')
        BY <1>0, <2>2, <3>1, <3>2, <4>1, <4>2, Zenon DEF OracleInv, SeqBound, Fits, db
      <4> QED  BY <3>3, <4>3
    <3>5. CASE row.state \in Opened /\ RouteIsRecorded
      <4>1. route.generation = "cand" /\ route.fence = "cand"
        BY <3>5 DEF RouteIsRecorded, IInv, OpenIsRecorded, Opened
      <4>2. \E n \in OpenReceipts : n <= row.transition_seq
        BY <3>5 DEF OracleInv, OpenHasReceipt
      <4>3. Fits(admissions[q])' /\ admissions'[q].transition_seq <= Len(log')
        BY <1>0, <2>2, <3>1, <3>2, <4>1, <4>2, Zenon DEF OracleInv, SeqBound, Fits, db
      <4> QED  BY <3>3, <4>3
    <3> QED  BY <2>2, <3>4, <3>5 DEF Admits, Opened
  <2>3. ASSUME NEW q \in Requests, Finishes(q), UNCHANGED db
        PROVE  \A r \in Requests : /\ admissions'[r].transition_seq <= Len(log')
                                   /\ Admitted(r)' => Fits(admissions[r])'
    <3>1. OpenReceipts' = OpenReceipts
      BY <2>3 DEF OpenReceipts, db
    <3>2. \A r \in Requests :
             /\ admissions'[r].generation = admissions[r].generation
             /\ admissions'[r].fence = admissions[r].fence
             /\ admissions'[r].transition_seq = admissions[r].transition_seq
             /\ Admitted(r)' => Admitted(r)
      BY <1>0, <2>3 DEF Finishes, AdmissionType, Admitted
    <3> QED  BY <2>3, <3>1, <3>2 DEF OracleInv, SeqBound, Fits, db
  <2> QED  BY <2>1, <2>2, <2>3 DEF AdmissionStep
<1> QED  BY <1>1, <1>2, <1>3, <1>4, <1>5 DEF OracleInv, SeqBound

-----------------------------------------------------------------------------
(* Receipts answer intents, as long as no process dies. *)

\* Row n is no receipt, or the receipt of stage, or it answers an intent before it
\* that had no receipt yet.
Answers(s, n) ==
    s[n].kind = "receipt" /\ s[n].operation # "stage" =>
        \E k \in 1..(n - 1) :
            /\ s[k].kind = "intent" /\ s[k].operation_id = s[n].operation_id
            /\ \A j \in k + 1..n - 1 :
                  s[j].kind = "receipt" => s[j].operation_id # s[n].operation_id

AllAnswer == \A n \in DOMAIN log : Answers(log, n)

\* The oracle then finds no orphan.
LEMMA NoOrphans == ASSUME TypeOK, AllAnswer PROVE OrphanReceipts = {}
<1> SUFFICES ASSUME NEW n \in DOMAIN log, log[n].kind = "receipt",
                    log[n].operation # "stage"
             PROVE  log[n].operation_id \in OraclePending(n - 1)
  BY DEF OrphanReceipts
<1>1. PICK k \in 1..(n - 1) :
         /\ log[k].kind = "intent" /\ log[k].operation_id = log[n].operation_id
         /\ \A j \in k + 1..n - 1 :
               log[j].kind = "receipt" => log[j].operation_id # log[n].operation_id
  BY DEF AllAnswer, Answers
<1>2. \A j \in k + 1..n - 1 : log[j].kind = "receipt" => log[j].operation_id # log[k].operation_id
  BY <1>1
<1> QED  BY <1>1, <1>2, Zenon DEF OraclePending

\* A row that is no receipt, or answers what is pending, keeps it so.
LEMMA AnswerAdded ==
    ASSUME log \in Seq(EntryType), NEW e \in EntryType, log' = Append(log, e), AllAnswer,
           e.kind = "receipt" /\ e.operation # "stage" => PendingLast(e.operation_id)
    PROVE  AllAnswer'
<1>1. /\ Len(log) \in Nat /\ DOMAIN log = 1..Len(log) /\ DOMAIN log' = 1..Len(log) + 1
      /\ log'[Len(log) + 1] = e /\ \A i \in DOMAIN log : log'[i] = log[i]
  OBVIOUS
<1>2. ASSUME NEW n \in DOMAIN log PROVE Answers(log', n)
  <2>1. Answers(log, n)
    BY DEF AllAnswer
  <2>2. /\ \A k \in 1..(n - 1) : log'[k] = log[k]
        /\ \A k \in 1..(n - 1) : \A j \in k + 1..n - 1 : log'[j] = log[j]
        /\ log'[n] = log[n]
    BY <1>1
  <2> QED  BY <2>1, <2>2 DEF Answers
<1>3. Answers(log', Len(log) + 1)
  <2> SUFFICES ASSUME e.kind = "receipt", e.operation # "stage"
               PROVE  \E k \in 1..Len(log) :
                         /\ log'[k].kind = "intent" /\ log'[k].operation_id = e.operation_id
                         /\ \A j \in k + 1..Len(log) :
                               log'[j].kind = "receipt" => log'[j].operation_id # e.operation_id
    BY <1>1 DEF Answers
  <2>1. PICK k \in DOMAIN log :
           /\ log[k].kind = "intent" /\ log[k].operation_id = e.operation_id
           /\ \A j \in DOMAIN log :
                 j > k => ~(log[j].kind = "receipt" /\ log[j].operation_id = e.operation_id)
    BY DEF PendingLast
  <2>2. \A j \in k + 1..Len(log) : j \in DOMAIN log /\ j > k /\ log'[j] = log[j]
    BY <1>1
  <2>3. k \in 1..Len(log) /\ log'[k] = log[k]
    BY <1>1
  <2> QED  BY <2>1, <2>2, <2>3
<1>4. \A n \in DOMAIN log' : n \in DOMAIN log \/ n = Len(log) + 1
  BY <1>1
<1>5. \A n \in DOMAIN log' : Answers(log', n)
  BY <1>2, <1>3, <1>4, Zenon
<1> QED  BY <1>5, Zenon DEF AllAnswer, Answers

FailCloseLabels == {"fail_close.intent", "fail_close.effect", "fail_close.query"}

\* In a life of the process: an open that is undecided is pending, except while
\* fail_close decides it; a recovery close is pending only while it runs; and every
\* receipt answers an intent.
CrashFree ==
    crashes = 0 =>
        /\ row.state = "OPENING" /\ at \notin FailCloseLabels => PendingLast("open")
        /\ PendingEver("open-reconcile-close") => at \in {"recover.effect", "recover.query"}
        /\ AllAnswer

\* fail_close ends the open it was called for.
LEMMA FailCloseEnds ==
    ASSUME TypeOK, at \in FailCloseLabels, Next, ~Crash
    PROVE  at' \in FailCloseLabels \/ row'.state # "OPENING"
<1> USE DEF FailCloseLabels
<1>1. CASE FailClose \/ FailCloseEffect
  BY <1>1 DEF FailClose, FailCloseEffect, Goto
<1>2. CASE FailCloseReceipt
  <2>1. PICK t \in {"FAILED_SAFE", "SAFETY_UNKNOWN"}, cols \in Row,
             value \in {"error", "FAILED_SAFE", "SAFETY_UNKNOWN"} :
           MoveOrRaise(t, "receipt", "fail_close", "fail_close", cols, value)
    BY <1>2, ColumnTypes DEF FailCloseReceipt, FailCloseVerdict, TypeOK
  <2>2. row.state = "OPENING" => CanMove(t)
    BY DEF CanMove, Allowed, GateState, Terminal
  <2> QED  BY <2>1, <2>2, Zenon DEF MoveOrRaise, Move, db, Row
<1>3. CASE Drift \/ Expire \/ Supersede
  BY <1>3 DEF Drift, Expire, Supersede, call
<1> QED
  BY <1>1, <1>2, <1>3, Zenon
  DEF Next, Request, Operate, Traffic, Continue, Environment, Idle,
        Stage, Close, Drain, Open, Rollback, Refused, Reconcile, Observe, CloseEffect,
        CloseReceipt, OpenEffect, OpenReceipt, DrainReceipt, RollbackRestore, RollbackCloseAll,
        RollbackReceipt, RecoverEffect, RecoverReceipt, RecoverVerdict, RecoverAgainEffect,
        RecoverAgainReceipt

\* A recovery close that runs goes on to its receipt.
LEMMA RecoveryEnds ==
    ASSUME TypeOK, at \in {"recover.effect", "recover.query"}, Next, ~Crash
    PROVE  at' \in {"recover.effect", "recover.query"} \/ Logged("receipt", "open-reconcile-close")'
<1>1. CASE RecoverEffect
  BY <1>1 DEF RecoverEffect, Goto
<1>2. CASE RecoverReceipt
  <2> DEFINE e == Entry("receipt", "open.reconcile.close_all", "open-reconcile-close",
                        "OPENING", "none")
  <2>1. log' = Append(log, e) /\ log \in Seq(EntryType)
    BY <1>2 DEF RecoverReceipt, Journal, TypeOK
  <2>2. e.kind = "receipt" /\ e.operation_id = "open-reconcile-close"
    BY DEF Entry
  <2> HIDE DEF e
  <2>3. Len(log) + 1 \in DOMAIN log' /\ log'[Len(log) + 1] = e
    BY <2>1
  <2>4. \E i \in DOMAIN log' : log'[i].kind = "receipt"
                              /\ log'[i].operation_id = "open-reconcile-close"
    BY <2>2, <2>3
  <2> QED  BY <2>4 DEF Logged
<1>3. CASE Drift \/ Expire \/ Supersede
  BY <1>3 DEF Drift, Expire, Supersede, call
<1> QED
  BY <1>1, <1>2, <1>3, Zenon
  DEF Next, Request, Operate, Traffic, Continue, Environment, Idle,
        Stage, Close, Drain, Open, Rollback, Refused, Reconcile, Observe, CloseEffect,
        CloseReceipt, OpenEffect, OpenReceipt, DrainReceipt, RollbackRestore, RollbackCloseAll,
        RollbackReceipt, FailClose, FailCloseEffect, FailCloseReceipt, RecoverVerdict,
        RecoverAgainEffect, RecoverAgainReceipt

\* A recovery close becomes pending only by its intent.
LEMMA RecoveryBegins ==
    ASSUME log \in Seq(EntryType), NEW e \in EntryType, log' = Append(log, e),
           PendingEver("open-reconcile-close")'
    PROVE  \/ PendingEver("open-reconcile-close")
           \/ e.kind = "intent" /\ e.operation_id = "open-reconcile-close"
<1>1. /\ Len(log) \in Nat /\ DOMAIN log = 1..Len(log) /\ DOMAIN log' = 1..Len(log) + 1
      /\ log'[Len(log) + 1] = e /\ \A i \in DOMAIN log : log'[i] = log[i]
  OBVIOUS
<1>2. \A i \in DOMAIN log : i \in DOMAIN log'
  BY <1>1
<1>3. \A i \in DOMAIN log' : i \in DOMAIN log \/ i = Len(log) + 1
  BY <1>1
<1> QED  BY <1>1, <1>2, <1>3 DEF PendingEver, Logged

\* In a life of the process, every step keeps this.
LEMMA CrashFreeStep ==
    ASSUME TypeOK, LabelInv, CrashFree, JournalStep, Next, crashes' = 0
    PROVE  CrashFree'
<1>0. log \in Seq(EntryType) /\ crashes \in Nat /\ row \in Row
  BY DEF TypeOK
<1>1. ~Crash /\ crashes = 0
  <2>1. ~Crash
    BY <1>0 DEF Crash
  <2> QED  BY <1>0, <2>1, Zenon DEF Next, Request, Operate, Traffic, Continue, Environment,
        Stage, Close, Drain, Open, Rollback, Refused, Reconcile, Observe, Finish, CloseEffect,
        CloseReceipt, OpenEffect, OpenReceipt, DrainReceipt, RollbackRestore, RollbackCloseAll,
        RollbackReceipt, FailClose, FailCloseEffect, FailCloseReceipt, RecoverEffect,
        RecoverReceipt, RecoverVerdict, RecoverAgainEffect, RecoverAgainReceipt,
        Drift, Expire, Supersede
<1>2. /\ row.state = "OPENING" /\ at \notin FailCloseLabels => PendingLast("open")
      /\ PendingEver("open-reconcile-close") => at \in {"recover.effect", "recover.query"}
      /\ AllAnswer
  BY <1>1 DEF CrashFree
<1>3. at # "recover.again.query"
  BY <1>2 DEF LabelInv, AgainIsPending
<1>4. ASSUME row'.state = "OPENING", at' \notin FailCloseLabels PROVE at \notin FailCloseLabels
  BY <1>1, <1>4, FailCloseEnds
<1>5. CASE UNCHANGED db
  <2>1. row'.state = "OPENING" /\ at' \notin FailCloseLabels => PendingLast("open")'
    BY <1>2, <1>4, <1>5 DEF db, PendingLast
  <2>2. PendingEver("open-reconcile-close")' => at' \in {"recover.effect", "recover.query"}
    BY <1>1, <1>2, <1>5, RecoveryEnds DEF db, PendingEver, Logged
  <2> QED  BY <1>2, <1>5, <2>1, <2>2 DEF CrashFree, db, AllAnswer
<1>6. ASSUME NEW e, NoteRow(e), log' = Append(log, e), row' = row PROVE CrashFree'
  <2>1. e \in EntryType
    BY <1>6 DEF NoteRow
  <2>2. ASSUME row'.state = "OPENING", at' \notin FailCloseLabels PROVE PendingLast("open")'
    <3>1. e.kind = "receipt" => e.operation_id # "open"
      BY <1>6, <2>2 DEF NoteRow, FailCloseLabels
    <3> QED  BY <1>0, <1>2, <1>4, <1>6, <2>1, <2>2, <3>1, PendingKept
  <2>3. PendingEver("open-reconcile-close")' => at' \in {"recover.effect", "recover.query"}
    <3> SUFFICES ASSUME PendingEver("open-reconcile-close")'
                 PROVE  at' \in {"recover.effect", "recover.query"}
      OBVIOUS
    <3>1. ~Logged("receipt", "open-reconcile-close")'
      BY DEF PendingEver
    <3>2. CASE PendingEver("open-reconcile-close")
      BY <1>1, <1>2, <3>1, <3>2, RecoveryEnds
    <3>3. CASE e.kind = "intent" /\ e.operation_id = "open-reconcile-close"
      BY <1>6, <3>3 DEF NoteRow
    <3> QED  BY <1>0, <1>6, <2>1, <3>2, <3>3, RecoveryBegins
  <2>4. e.kind = "receipt" => PendingLast(e.operation_id)
    <3>1. CASE e.operation_id = "open-reconcile-close" /\ at = "recover.query"
      BY <3>1 DEF LabelInv, LabelOwes, Owes
    <3>2. CASE /\ e.operation_id = "open" /\ row.state = "OPENING"
               /\ at \in {"idle", "recover.verdict"}
      BY <1>2, <3>2 DEF FailCloseLabels
    <3> QED  BY <1>6, <3>1, <3>2 DEF NoteRow
  <2>5. AllAnswer'
    BY <1>0, <1>2, <1>6, <2>1, <2>4, AnswerAdded
  <2> QED  BY <2>2, <2>3, <2>5 DEF CrashFree
<1>7. ASSUME NEW e, MoveRow(e), Writes(e) PROVE CrashFree'
  <2>1. e \in EntryType /\ log' = Append(log, e) /\ row'.state = e.to_state
    BY <1>7 DEF MoveRow, Writes
  <2>2. row'.state = "OPENING" => PendingLast("open")'
    BY <1>0, <1>7, <2>1, PendingNew DEF MoveRow, Terminal
  <2>3. PendingEver("open-reconcile-close")' => at' \in {"recover.effect", "recover.query"}
    <3>1. e.operation_id # "open-reconcile-close"
      BY <1>7 DEF MoveRow
    <3> QED  BY <1>0, <1>1, <1>2, <2>1, <3>1, RecoveryBegins, RecoveryEnds DEF PendingEver
  <2>4. e.kind = "receipt" => PendingLast(e.operation_id)
    <3>1. row.state = "OPENING" /\ at \in {"idle", "recover.verdict"} => PendingLast("open")
      BY <1>2 DEF FailCloseLabels
    <3> QED  BY <1>7, <3>1, Zenon DEF MoveRow
  <2>5. AllAnswer'
    BY <1>0, <1>2, <2>1, <2>4, AnswerAdded
  <2> QED  BY <2>2, <2>3, <2>5 DEF CrashFree
<1>8. CASE /\ ~Staged
           /\ Writes(Entry("receipt", "stage", "stage", "PREDECESSOR_OPEN", "CANDIDATE_STAGED"))
  <2> DEFINE e == Entry("receipt", "stage", "stage", "PREDECESSOR_OPEN", "CANDIDATE_STAGED")
  <2>1. e \in EntryType /\ e.operation = "stage" /\ e.operation_id = "stage"
        /\ e.to_state = "CANDIDATE_STAGED"
    BY DEF Entry, EntryType, Operation, OperationId, GateState
  <2>2. log' = Append(log, e) /\ row'.state = e.to_state
    BY <1>8 DEF Writes
  <2> HIDE DEF e
  <2>3. AllAnswer'
    BY <1>0, <1>2, <2>1, <2>2, AnswerAdded
  <2>4. PendingEver("open-reconcile-close")' => at' \in {"recover.effect", "recover.query"}
    BY <1>0, <1>1, <1>2, <2>1, <2>2, RecoveryBegins, RecoveryEnds DEF PendingEver
  <2> QED  BY <2>1, <2>2, <2>3, <2>4 DEF CrashFree
<1> QED  BY <1>3, <1>5, <1>6, <1>7, <1>8 DEF JournalStep

\* The two graphs differ only where the gate is draining.
LEMMA GraphsAgree ==
    ASSUME NEW s \in GateState, s # "DRAINING"
    PROVE  OracleAllowed[s] = Allowed[s]
BY DEF OracleAllowed, Allowed, GateState, Terminal

\* What the oracle checks, from the invariants above.
LEMMA OracleAgrees ==
    ASSUME IInv, JournalInv, OracleInv, CrashFree
    PROVE  OracleAcceptsAdmissions
<1> SUFFICES ASSUME Staged
             PROVE  /\ ~FinalRouteMismatch
                    /\ \A n \in UnknownTransitions : ReplayState(n - 1) = "DRAINING"
                    /\ crashes = 0 => OrphanReceipts = {}
                    /\ \A r \in Requests : Admitted(r) => ~AdmissionError(admissions[r])
  BY DEF OracleAcceptsAdmissions
<1>0. log \in Seq(EntryType) /\ admissions \in [Requests -> AdmissionType]
  BY DEF IInv, TypeOK
<1>1. ~FinalRouteMismatch
  <2> SUFFICES ASSUME row.state = "CANDIDATE_OPEN"
               PROVE  /\ row.route_generation = "cand" /\ row.route_fence = OpenFence
                      /\ row.observed_candidate = "cand"
    BY DEF FinalRouteMismatch
  <2>1. OpenReceipts # {}
    BY DEF OracleInv, OpenHasReceipt, Opened
  <2> QED  BY <2>1 DEF OpenFence, IInv, OpenIsRecorded
<1>2. ASSUME NEW n \in UnknownTransitions PROVE ReplayState(n - 1) = "DRAINING"
  <2>1. /\ n \in DOMAIN log /\ log[n].to_state \notin {"none", ReplayState(n - 1)}
        /\ log[n].to_state \notin OracleAllowed[ReplayState(n - 1)]
    BY DEF UnknownTransitions
  <2>2. /\ log[n].from_state = ReplayState(n - 1)
        /\ log[n].to_state \in Allowed[log[n].from_state] \cup {log[n].from_state}
    <3>1. ReplayMatchesDurable
      BY GoodJournalMatches DEF IInv
    <3> QED  BY <2>1, <3>1, Zenon DEF ReplayMatchesDurable
  <2>3. log[n].from_state \in GateState
    <3>1. log[n] \in EntryType
      BY <1>0, <2>1
    <3> QED  BY <3>1 DEF EntryType
  <2> QED  BY <2>1, <2>2, <2>3, GraphsAgree
<1>3. crashes = 0 => OrphanReceipts = {}
  BY NoOrphans DEF CrashFree, IInv
<1>4. ASSUME NEW r \in Requests, Admitted(r) PROVE ~AdmissionError(admissions[r])
  <2>1. PICK a \in AdmissionType : a = admissions[r]
    BY <1>0
  <2>2. Fits(a) /\ \A m, n \in OpenReceipts : m = n
    BY <1>4, <2>1 DEF OracleInv
  <2>3. a.transition_seq \in Nat /\ \A n \in OpenReceipts : n \in Nat
    BY <1>0 DEF AdmissionType, OpenReceipts
  <2>4. CASE OpenReceipts = {}
    BY <2>1, <2>2, <2>4 DEF Fits, AdmissionError
  <2>5. CASE OpenReceipts # {}
    <3>1. \E n \in OpenReceipts : \A m \in OpenReceipts : n <= m
      BY <2>2, <2>3, <2>5
    <3>2. FirstOpenSeq \in OpenReceipts
      BY <3>1 DEF FirstOpenSeq
    <3>3. \A n \in OpenReceipts : n = FirstOpenSeq
      BY <2>2, <3>2
    <3>4. CASE a.generation = "cand" /\ a.fence = "cand" /\ FirstOpenSeq <= a.transition_seq
      BY <2>1, <2>3, <2>5, <3>2, <3>4 DEF AdmissionError, OpenFence
    <3>5. CASE a.generation = "pred" /\ a.fence = "pred" /\ a.transition_seq < FirstOpenSeq
      BY <2>1, <2>3, <2>5, <3>2, <3>5 DEF AdmissionError, OpenFence
    <3> QED  BY <2>2, <3>2, <3>3, <3>4, <3>5 DEF Fits
  <2> QED  BY <2>4, <2>5
<1> QED  BY <1>1, <1>2, <1>3, <1>4

\* The invariant of the journal and of the oracle together.
GateInv == IInv /\ LabelInv /\ JournalInv /\ OracleInv /\ CrashFree

\* It holds before the gate is staged.
LEMMA GateInvInit == ASSUME Init PROVE GateInv
<1>1. row = AbsentRow /\ log = <<>> /\ at = "idle" /\ row.state = "absent"
      /\ row.transition_seq = 0 /\ Len(log) = 0
      /\ admissions = [r \in Requests |-> NotAdmitted]
  BY DEF Init, AbsentRow
<1>2. DOMAIN log = {}
  BY <1>1
<1>3. LabelInv
  BY <1>1 DEF LabelInv, LabelOwes, Owes, DrainOwes, OpeningLabels, AgainIsPending
<1>4. JournalInv
  BY <1>1 DEF JournalInv, Staged
<1>5. OpenReceipts = {}
  BY <1>2 DEF OpenReceipts
<1>6. OracleInv
  BY <1>1, <1>5 DEF OracleInv, SeqBound, OpenReached, OpenHasReceipt, Opened, Admitted, NotAdmitted
<1>7. CrashFree
  BY <1>1, <1>2 DEF CrashFree, PendingEver, Logged, AllAnswer
<1> QED  BY <1>3, <1>4, <1>6, <1>7, InitInv DEF GateInv

\* Every step of the gate keeps it.
LEMMA GateInvStep == ASSUME GateInv, Next PROVE GateInv'
<1>1. IInv /\ LabelInv /\ JournalInv /\ OracleInv /\ CrashFree /\ Step
  BY NextIsStep DEF GateInv
<1>2. TypeOK /\ DrainCounts /\ log \in Seq(EntryType)
  BY <1>1 DEF IInv, TypeOK
<1>3. DbStep /\ AdmissionStep /\ CallStep
  BY <1>1, EveryDbStep, EveryAdmissionStep, EveryCallStep
<1>4. IInv'
  BY <1>1, <1>3, InvariantStep
<1>5. JournalStep /\ LabelStep
  BY <1>1, <1>2, EveryJournalStep, EveryLabelStep
<1>6. LabelInv'
  BY <1>1, <1>2, <1>5, LabelInvStep
<1>7. JournalInv'
  BY <1>1, <1>2, <1>3, <1>5, JournalInvStep DEF DbStep
<1>8. OracleInv'
  BY <1>1, <1>3, <1>5, EveryOpenStep, OracleInvStep, Zenon DEF OracleInv
<1>9. CrashFree'
  <2>1. CASE crashes' = 0
    BY <1>1, <1>2, <1>5, <2>1, CrashFreeStep
  <2>2. CASE crashes' # 0
    BY <2>2 DEF CrashFree
  <2> QED  BY <2>1, <2>2
<1> QED  BY <1>4, <1>6, <1>7, <1>8, <1>9 DEF GateInv

\* So does a stuttering step.
LEMMA GateInvStutter == ASSUME GateInv, UNCHANGED vars PROVE GateInv'
BY StutterInv DEF GateInv, LabelInv, LabelOwes, Owes, DrainOwes, OpeningLabels, AgainIsPending,
   JournalInv, OracleInv, SeqBound, OpenReached, OpenHasReceipt, Fits, Admitted, CrashFree,
   AllAnswer, PendingLast, PendingEver, Logged, OpenReceipts, Staged, vars

\* Every reachable state of the gate satisfies the journal's invariant.
THEOREM JournalInvariant == Spec => []GateInv
<1>1. Init => GateInv
  BY GateInvInit
<1>2. GateInv /\ [Next]_vars => GateInv'
  BY GateInvStep, GateInvStutter
<1> QED  BY <1>1, <1>2, PTL DEF Spec

\* Replaying the journal gives the durable state of the gate.
THEOREM ReplayIsDurable == Spec => []ReplayMatchesDurable
<1>1. GateInv => ReplayMatchesDurable
  BY GoodJournalMatches DEF GateInv, IInv
<1> QED  BY <1>1, JournalInvariant, PTL

\* The offline oracle accepts every history of the gate.
THEOREM OracleAcceptsTheGate == Spec => []OracleAcceptsAdmissions
<1>1. GateInv => OracleAcceptsAdmissions
  BY OracleAgrees DEF GateInv
<1> QED  BY <1>1, JournalInvariant, PTL

-----------------------------------------------------------------------------
(* Effects and verdicts. *)

\* Only an effect changes the route, and something else only between the steps of a call.
LEMMA RouteStep ==
    ASSUME Step
    PROVE  route' = route \/ at \in DOMAIN EffectIntent \/ Drift
<1> USE DEF EffectIntent
<1>1. CASE OpenEffect \/ FailCloseEffect \/ RollbackRestore \/ RollbackCloseAll
           \/ RecoverEffect \/ RecoverAgainEffect
  BY <1>1 DEF OpenEffect, FailCloseEffect, RollbackRestore, RollbackCloseAll, RecoverEffect,
     RecoverAgainEffect
<1> QED  BY <1>1, Zenon DEF Step, Traffic, Continue, Stage, Close, Drain, Open, Rollback, Refused,
        Reconcile, Observe, Finish, CloseEffect, CloseReceipt, OpenReceipt, DrainReceipt,
        RollbackReceipt, FailClose, FailCloseReceipt, RecoverReceipt, RecoverVerdict,
        RecoverAgainReceipt, Expire, Supersede, Dies

\* The gate changes the route only with a pending intent of the operation in its
\* journal, so that a process that dies after the effect leaves a trace of it.
THEOREM EffectsHaveIntents == Spec => EffectsAreJournaled
<1>1. GateInv /\ [Next]_vars =>
        [route' # route /\ at' # at =>
            at \in DOMAIN EffectIntent /\ PendingLast(EffectIntent[at])]_vars
  <2> SUFFICES ASSUME GateInv, Next, route' # route, at' # at
               PROVE  at \in DOMAIN EffectIntent /\ PendingLast(EffectIntent[at])
    OBVIOUS
  <2>1. at \in DOMAIN EffectIntent
    BY NextIsStep, RouteStep DEF Drift, call
  <2>2. at \in DOMAIN Owes /\ Owes[at] = EffectIntent[at]
    BY <2>1 DEF Owes, EffectIntent
  <2> QED  BY <2>1, <2>2 DEF GateInv, LabelInv, LabelOwes
<1> QED  BY <1>1, JournalInvariant, PTL DEF Spec, EffectsAreJournaled

\* What the local variable of a call says about the route it has left behind.
Measured ==
    /\ at = "rollback.receipt" =>
          /\ arg = "FAILED_SAFE" => IsClosed(route)
          /\ arg = "RESTORED_STRONG" => route = PredRoute
          /\ arg = "BEHAVIORAL" => route = Restored
    /\ at \in {"recover.query", "recover.verdict"} /\ arg = "ok" => IsClosed(route)

\* As long as nothing else changes the route, it stays as the call measured it.
LEMMA MeasuredStep == ASSUME ~MayDrift, Measured, Step PROVE Measured'
<1> USE DEF Return, Goto
<1>0. IsClosed(ClosedRoute)
  BY DEF IsClosed, ClosedRoute
<1>1. CASE at' \notin {"rollback.receipt", "recover.query", "recover.verdict"}
  BY <1>1 DEF Measured
<1>2. CASE at' = at /\ arg' = arg /\ route' = route
  BY <1>2 DEF Measured, IsClosed
<1>3. CASE RollbackRestore
  BY <1>3 DEF RollbackRestore, Measured
<1>4. CASE RollbackCloseAll
  BY <1>0, <1>4 DEF RollbackCloseAll, CloseAll, Measured, IsClosed
<1>5. CASE RecoverEffect
  BY <1>0, <1>5 DEF RecoverEffect, CloseAll, Measured, IsClosed
<1>6. CASE RecoverReceipt
  BY <1>6 DEF RecoverReceipt, Measured, IsClosed
<1>7. CASE CloseEffect \/ CloseReceipt \/ OpenEffect \/ OpenReceipt \/ DrainReceipt
           \/ FailClose \/ FailCloseEffect \/ RollbackReceipt \/ RecoverVerdict
           \/ RecoverAgainEffect \/ RecoverAgainReceipt \/ FailCloseReceipt
  BY <1>1, <1>7, VerdictReturns, Zenon DEF CloseEffect, CloseReceipt, OpenEffect, OpenReceipt,
     DrainReceipt, FailClose, FailCloseEffect, RollbackReceipt, RecoverVerdict, CancelOpen,
     RecoverAgainEffect, RecoverAgainReceipt, RecoverAgainVerdict, FailCloseReceipt, MoveOrRaise
<1>8. CASE Stage \/ Close \/ Drain \/ Refused \/ Dies
           \/ (\E fits \in BOOLEAN, l \in Leases : Open(fits, l))
           \/ (\E oracle \in BOOLEAN : Rollback(oracle))
           \/ (\E r \in Requests : Finish(r))
           \/ (\E r \in Requests, done \in BOOLEAN : Observe(r, done))
  BY <1>1, <1>8, Zenon DEF Stage, Close, Drain, Refused, Dies, Open, Rollback, Finish, Observe
<1>9. CASE Reconcile
  BY <1>1, <1>9, VerdictReturns, Zenon DEF Reconcile, ReconcileRollback, ReconcileOpen, CancelOpen,
     MoveOrRaise
<1>10. CASE Expire \/ Supersede
  BY <1>2, <1>10 DEF Expire, Supersede, call
<1> QED
  BY <1>3, <1>4, <1>5, <1>6, <1>7, <1>8, <1>9, <1>10, Zenon
  DEF Step, Traffic, Continue, Drift

\* The verdict a step writes is the route it leaves.
Verdict ==
    row' # row =>
        /\ row'.state = "FAILED_SAFE" => IsClosed(route')
        /\ row'.state = "ROLLED_BACK" =>
              \/ route' = PredRoute
              \/ at = "rollback.receipt" /\ arg = "BEHAVIORAL" /\ route' = Restored

\* A transaction's target is the state it moves to.
LEMMA MoveVerdict ==
    ASSUME row \in Row, NEW target, NEW kind, NEW op, NEW id, NEW cols \in Row, NEW value,
           MoveOrRaise(target, kind, op, id, cols, value), route' = route,
           target = "FAILED_SAFE" => IsClosed(route),
           target = "ROLLED_BACK" =>
              \/ route = PredRoute
              \/ at = "rollback.receipt" /\ arg = "BEHAVIORAL" /\ route = Restored
    PROVE  Verdict
<1>1. row' = row \/ row'.state = target
  BY Zenon DEF MoveOrRaise, Move, db, Row
<1> QED  BY <1>1 DEF Verdict, IsClosed

\* Every step's verdict is measured.
LEMMA EveryVerdict == ASSUME TypeOK, ~MayDrift, Measured, Step PROVE Verdict
<1>0. row \in Row /\ AtRoute \in Row /\ Unqueried \in Row
      /\ [AtRoute EXCEPT !.observed_candidate = route.snapshot] \in Row
      /\ [row EXCEPT !.route_generation = "none", !.route_fence = "closed"] \in Row
  BY ColumnTypes DEF TypeOK
<1>1. CASE row' = row
  BY <1>1 DEF Verdict
<1>2. ASSUME NEW raises, FailCloseVerdict(raises), route' = route PROVE Verdict
  BY <1>0, <1>2, MoveVerdict DEF FailCloseVerdict
<1>3. CASE RollbackReceipt
  <2>1. MoveOrRaise(RollbackTarget(arg), "receipt", "rollback", "rollback", AtRoute, arg)
        /\ route' = route
    BY <1>3 DEF RollbackReceipt
  <2>2. /\ RollbackTarget(arg) = "FAILED_SAFE" => IsClosed(route)
        /\ RollbackTarget(arg) = "ROLLED_BACK" =>
              \/ route = PredRoute
              \/ at = "rollback.receipt" /\ arg = "BEHAVIORAL" /\ route = Restored
    BY <1>3 DEF RollbackReceipt, RollbackTarget, Measured, TypeOK, RollbackClass
  <2> QED  BY <1>0, <2>1, <2>2, MoveVerdict
<1>4. CASE ReconcileRollback /\ route' = route
  <2> DEFINE target == CASE route = PredRoute -> "ROLLED_BACK"
                         [] IsClosed(route) -> "FAILED_SAFE"
                         [] OTHER -> "SAFETY_UNKNOWN"
  <2>1. /\ target = "FAILED_SAFE" => IsClosed(route)
        /\ target = "ROLLED_BACK" => route = PredRoute
    OBVIOUS
  <2>2. \/ MoveOrRaise(target, "receipt", "rollback", "rollback", row, target)
        \/ MoveOrRaise("SAFETY_UNKNOWN", "receipt", "rollback", "rollback", row,
                       "SAFETY_UNKNOWN")
    BY <1>4 DEF ReconcileRollback
  <2> HIDE DEF target
  <2> QED  BY <1>0, <1>4, <2>1, <2>2, MoveVerdict
<1>5. CASE ReconcileOpen /\ route' = route
  BY <1>0, <1>1, <1>5, MoveVerdict DEF ReconcileOpen, CancelOpen
<1>6. CASE RecoverVerdict
  BY <1>0, <1>1, <1>6, MoveVerdict DEF RecoverVerdict, CancelOpen, Measured
<1>7. CASE RecoverAgainReceipt
  <2>1. ASSUME NEW target \in {"FAILED_SAFE", "SAFETY_UNKNOWN"}, RecoverAgainVerdict(target),
               target = "FAILED_SAFE" => IsClosed(route), route' = route
        PROVE  Verdict
    BY <1>0, <2>1, Zenon DEF RecoverAgainVerdict, db, Row, Verdict
  <2> QED  BY <1>7, <2>1 DEF RecoverAgainReceipt
<1>8. CASE Reconcile
  BY <1>1, <1>2, <1>4, <1>5, <1>8, Zenon DEF Reconcile, db
<1>9. CASE CloseReceipt \/ OpenReceipt \/ DrainReceipt
  BY <1>0, <1>1, <1>9, MoveVerdict DEF CloseReceipt, OpenReceipt, DrainReceipt, db
<1>10. CASE FailCloseReceipt
  BY <1>2, <1>10 DEF FailCloseReceipt
<1>11. CASE Stage \/ Drain \/ (\E fits \in BOOLEAN, l \in Leases : Open(fits, l))
  <2>1. row' = row \/ row'.state \in {"CANDIDATE_STAGED", "DRAINING", "OPENING"}
    <3>1. ASSUME NEW cols \in Row, NEW target, NEW op,
                 Move(target, "intent", op, op, cols)
          PROVE  row'.state = target
      BY <3>1 DEF Move, Row
    <3>2. [row EXCEPT !.proof = TRUE] \in Row
      BY <1>0, Zenon DEF Row
    <3> QED  BY <1>0, <1>11, <3>1, <3>2 DEF Stage, Drain, Open, db
  <2> QED  BY <2>1 DEF Verdict
<1> QED  BY <1>1, <1>3, <1>6, <1>7, <1>8, <1>9, <1>10, <1>11, Zenon DEF Step, Traffic, Continue,
        Close, Rollback, Refused, Observe, Finish, CloseEffect, OpenEffect, FailClose,
        FailCloseEffect, RollbackRestore, RollbackCloseAll, RecoverEffect, RecoverReceipt,
        RecoverAgainEffect, Drift, Expire, Supersede, Dies, db

\* When nothing but the gate changes the route, its terminal verdicts tell the truth:
\* FAILED_SAFE is reached with all traffic closed, ROLLED_BACK with the predecessor back.
THEOREM VerdictsAreTrue == ~MayDrift => (Spec => VerdictsAreMeasured)
<1> SUFFICES ASSUME ~MayDrift PROVE Spec => VerdictsAreMeasured
  OBVIOUS
<1>1. Init => Measured
  BY DEF Init, Measured
<1>2. TypeOK /\ Measured /\ [Next]_vars => Measured'
  <2>1. ASSUME Measured, Next PROVE Measured'
    BY <2>1, NextIsStep, MeasuredStep
  <2>2. ASSUME Measured, UNCHANGED vars PROVE Measured'
    BY <2>2 DEF vars, Measured, IsClosed
  <2> QED  BY <2>1, <2>2
<1>3. TypeOK /\ Measured /\ [Next]_vars =>
        [row'.state # row.state =>
            /\ row'.state = "FAILED_SAFE" => IsClosed(route')
            /\ row'.state = "ROLLED_BACK" => route' \in {PredRoute, Restored}]_vars
  BY NextIsStep, EveryVerdict DEF Verdict
<1> QED  BY <1>1, <1>2, <1>3, TypeCorrect, PTL DEF Spec, VerdictsAreMeasured

-----------------------------------------------------------------------------
(* What a call of the gate returns.                                          *)

RollbackLabels == {"rollback.restore", "rollback.close_all", "rollback.receipt"}

RecoveryLabels == {"recover.effect", "recover.query", "recover.verdict",
                   "recover.again.effect", "recover.again.query"}

\* What the gate returns when it is not, or not known to be, where it was sent.
Refusals == {"error", "FAILED_SAFE", "SAFETY_UNKNOWN"}

\* fail_close, also when reconcile ends it, returns no state but a safe or an unknown one.
LEMMA VerdictRefuses ==
    ASSUME NEW raises, FailCloseVerdict(raises) PROVE at' = "idle" /\ ret' \in Refusals
BY DEF FailCloseVerdict, MoveOrRaise, Return, Refusals

\* A call that goes on stays in its operation or in the fail_close it calls, and
\* returns what it found.
ContinueStep ==
    /\ at # "idle"
    /\ at \in {"close.effect", "close.query"} =>
          at' \in {"idle", "close.query", "fail_close.intent"}
    /\ at \in {"open.effect", "open.query"} =>
          /\ at' \in {"idle", "open.query", "fail_close.intent"}
          /\ at' = "idle" => ret' = "error" \/ (ret' = "ok" /\ row'.state = "CANDIDATE_OPEN")
    /\ at \in {"drain.count", "observe.finish"} => at' = "idle"
    /\ at \in FailCloseLabels =>
          /\ at' \in FailCloseLabels \cup {"idle"}
          /\ at' = "idle" => ret' \in Refusals
          /\ at' # "idle" => UNCHANGED row
    /\ at \in RollbackLabels =>
          /\ at' \in RollbackLabels \cup {"idle"}
          /\ at' = "idle" => at = "rollback.receipt" /\
                (ret' \in Refusals \/ (row'.state = "ROLLED_BACK" /\ row' # row))
    /\ at \in RecoveryLabels =>
          /\ at' \in RecoveryLabels \cup {"idle", "fail_close.intent"}
          /\ at' = "idle" => ret' \in Refusals

\* Every continuation is such a step.
LEMMA EveryContinueStep == ASSUME IInv, OracleInv, Continue PROVE ContinueStep
<1> USE DEF ContinueStep, FailCloseLabels, RollbackLabels, RecoveryLabels, Refusals, Return, Goto
<1>0. TypeOK /\ row \in Row /\ log \in Seq(EntryType) /\ Len(log) + 1 \in Nat
      /\ row.transition_seq < Len(log) + 1
  BY DEF IInv, TypeOK, OracleInv, SeqBound, Row
<1>1. CASE CloseEffect \/ CloseReceipt
  BY <1>1 DEF CloseEffect, CloseReceipt, MoveOrRaise
<1>2. CASE OpenEffect
  BY <1>2 DEF OpenEffect
<1>3. CASE OpenReceipt
  <2>1. ASSUME NEW cols \in Row,
               MoveOrRaise("CANDIDATE_OPEN", "receipt", "open", "open", cols, "ok")
        PROVE  at' = "idle" /\ (ret' = "error" \/ (ret' = "ok" /\ row'.state = "CANDIDATE_OPEN"))
    BY <2>1, Zenon DEF MoveOrRaise, Move, Row
  <2>2. [AtRoute EXCEPT !.observed_candidate = route.snapshot] \in Row
    BY <1>0, ColumnTypes DEF TypeOK
  <2> QED  BY <1>3, <2>1, <2>2 DEF OpenReceipt
<1>4. CASE DrainReceipt \/ (at = "observe.finish" /\ \E r \in Requests : Finish(r))
  BY <1>4 DEF DrainReceipt, MoveOrRaise, Finish
<1>5. CASE at = "fail_close.intent" /\ FailClose
  BY <1>5 DEF FailClose
<1>6. CASE FailCloseEffect \/ FailCloseReceipt
  BY <1>6, VerdictRefuses DEF FailCloseEffect, FailCloseReceipt, db
<1>7. CASE RollbackRestore \/ RollbackCloseAll
  BY <1>7 DEF RollbackRestore, RollbackCloseAll
<1>8. CASE RollbackReceipt
  <2>1. /\ at = "rollback.receipt" /\ arg \in RollbackClass
        /\ MoveOrRaise(RollbackTarget(arg), "receipt", "rollback", "rollback", AtRoute, arg)
    BY <1>0, <1>8 DEF RollbackReceipt, TypeOK
  <2>2. AtRoute \in Row
    BY <1>0, ColumnTypes DEF TypeOK
  <2>3. ASSUME NEW target, Move(target, "receipt", "rollback", "rollback", AtRoute)
        PROVE  row'.state = target /\ row'.transition_seq = Len(log) + 1
    BY <2>2, <2>3 DEF Move, Row
  <2>4. row'.transition_seq = Len(log) + 1 => row' # row
    BY <1>0
  <2> QED  BY <2>1, <2>3, <2>4 DEF MoveOrRaise, RollbackTarget, RollbackClass
<1>9. CASE RecoverEffect \/ RecoverReceipt \/ RecoverAgainEffect
  BY <1>9 DEF RecoverEffect, RecoverReceipt, RecoverAgainEffect
<1>10. CASE RecoverVerdict
  BY <1>10 DEF RecoverVerdict, CancelOpen, MoveOrRaise
<1>11. CASE RecoverAgainReceipt
  BY <1>11 DEF RecoverAgainReceipt, RecoverAgainVerdict
<1> QED  BY <1>1, <1>2, <1>3, <1>4, <1>5, <1>6, <1>7, <1>8, <1>9, <1>10, <1>11, Zenon DEF Continue

\* open returns ok only from an open gate.
LEMMA OpenReturns ==
    ASSUME NEW fits, NEW l, Open(fits, l)
    PROVE  /\ at = "idle" /\ at' \in {"idle", "open.effect"}
           /\ at' = "idle" => ret' = "error" \/ (ret' = "ok" /\ row'.state = "CANDIDATE_OPEN")
BY DEF Open, Return, Goto, Idle, db

\* reconcile returns the durable state it leaves.
LEMMA ReconcileReturns ==
    ASSUME TypeOK, Reconcile
    PROVE  /\ at = "idle" /\ at' \in {"idle", "fail_close.intent"} \cup RecoveryLabels
           /\ at' = "idle" => ret' \in Refusals \/ ret' = row'.state
           /\ at' = "idle" /\ ret' = "ROLLED_BACK" =>
                 \/ route' = PredRoute
                 \/ ~PendingLast("fail_close") /\ ~PendingLast("rollback")
                    /\ ~PendingEver("open-reconcile-close") /\ UNCHANGED <<row, route>>
<1> USE DEF Return, Goto, RecoveryLabels, Refusals
<1>0. row \in Row /\ at = "idle" /\ route' = route
      /\ [AtRoute EXCEPT !.observed_candidate = route.snapshot] \in Row
  BY ColumnTypes DEF TypeOK, Reconcile, Idle
<1>1. ASSUME NEW target, NEW cols \in Row, NEW kind, NEW op, NEW id,
             MoveOrRaise(target, kind, op, id, cols, target)
      PROVE  at' = "idle" /\ (ret' = "error" \/ (ret' = target /\ row'.state = target))
  BY <1>1, Zenon DEF MoveOrRaise, Move, Row
<1>2. CASE FailCloseVerdict(FALSE)
  BY <1>0, <1>2, VerdictRefuses, Zenon
<1>3. CASE ReconcileRollback
  <2> DEFINE target == CASE route = PredRoute -> "ROLLED_BACK"
                         [] IsClosed(route) -> "FAILED_SAFE"
                         [] OTHER -> "SAFETY_UNKNOWN"
  <2>1. target = "ROLLED_BACK" => route = PredRoute
    OBVIOUS
  <2>2. \/ MoveOrRaise(target, "receipt", "rollback", "rollback", row, target)
        \/ MoveOrRaise("SAFETY_UNKNOWN", "receipt", "rollback", "rollback", row,
                       "SAFETY_UNKNOWN")
    BY <1>3 DEF ReconcileRollback
  <2> HIDE DEF target
  <2> QED  BY <1>0, <1>1, <2>1, <2>2
<1>4. CASE ReconcileOpen
  BY <1>0, <1>1, <1>4 DEF ReconcileOpen, CancelOpen
<1> QED  BY <1>0, <1>2, <1>3, <1>4, Zenon DEF Reconcile, db

\* Only open leads to OPENING.
LEMMA OpeningByOpen ==
    ASSUME IInv, LabelInv, Step, row.state # "OPENING", row'.state = "OPENING"
    PROVE  \E fits \in BOOLEAN, l \in Leases : Open(fits, l)
<1>0. TypeOK /\ row \in Row
  BY DEF IInv, TypeOK
<1>1. row' # row
  OBVIOUS
<1>2. CASE Drain
  BY <1>0, <1>1, <1>2, Zenon DEF Drain, Move, db, Row
<1>3. CASE Stage
  BY <1>1, <1>3 DEF Stage, db
<1>4. ASSUME NEW t, NEW kind, NEW op, NEW id, NEW cols \in Row, NEW value, t # "OPENING",
             MoveOrRaise(t, kind, op, id, cols, value)
      PROVE  FALSE
  BY <1>1, <1>4, Zenon DEF MoveOrRaise, Move, db, Row
<1>5. AtRoute \in Row /\ Unqueried \in Row
      /\ [AtRoute EXCEPT !.observed_candidate = route.snapshot] \in Row
      /\ [row EXCEPT !.route_generation = "none", !.route_fence = "closed"] \in Row
  BY <1>0, ColumnTypes DEF TypeOK
<1>6. ~CloseReceipt /\ ~OpenReceipt /\ ~DrainReceipt
  BY <1>0, <1>1, <1>4, <1>5 DEF CloseReceipt, OpenReceipt, DrainReceipt, db
<1>7. ASSUME NEW raises PROVE ~FailCloseVerdict(raises)
  BY <1>4, <1>5 DEF FailCloseVerdict
<1>8. ~RollbackReceipt
  BY <1>0, <1>4, <1>5 DEF RollbackReceipt, RollbackTarget, RollbackClass, TypeOK
<1>9. ~ReconcileRollback
  BY <1>0, <1>4 DEF ReconcileRollback
<1>10. ~ReconcileOpen /\ ~RecoverVerdict
  BY <1>0, <1>1, <1>4, <1>5 DEF ReconcileOpen, CancelOpen, RecoverVerdict
<1>11. ~RecoverAgainReceipt
  BY <1>0, <1>1, Zenon DEF RecoverAgainReceipt, RecoverAgainVerdict, db, Row
<1>12. ~Reconcile
  BY <1>1, <1>7, <1>9, <1>10, Zenon DEF Reconcile, db
<1> QED
  BY <1>1, <1>2, <1>3, <1>6, <1>7, <1>8, <1>10, <1>11, <1>12, Zenon
  DEF Step, Traffic, Continue,
        Close, Rollback, Refused, Observe, Finish, CloseEffect, OpenEffect, FailClose,
        FailCloseEffect, FailCloseReceipt, RollbackRestore, RollbackCloseAll, RecoverEffect,
        RecoverReceipt, RecoverAgainEffect, Drift, Expire, Supersede, Dies, db

\* Nothing but open's effect routes requests to the candidate.
LEMMA CandidateByOpen ==
    ASSUME TypeOK, Step, at # "open.effect", route.generation # "cand"
    PROVE  route'.generation # "cand"
<1>1. CASE route' = route
  BY <1>1
<1>2. ClosedRoute.generation = "none" /\ PredRoute.generation = "pred"
      /\ Restored.generation = "pred"
  BY DEF ClosedRoute, PredRoute, Restored
<1>3. CASE FailCloseEffect \/ RollbackRestore \/ RollbackCloseAll \/ RecoverEffect
           \/ RecoverAgainEffect
  BY <1>1, <1>2, <1>3, Zenon DEF FailCloseEffect, RollbackRestore, RollbackCloseAll, RecoverEffect,
     RecoverAgainEffect, CloseAll
<1>4. CASE Drift
  BY <1>2, <1>4 DEF Drift, TypeOK, RouteState
<1> QED
  BY <1>1, <1>3, <1>4, Zenon
  DEF Step, Traffic, Continue, Stage, Close, Drain, Open, Rollback,
        Refused, Reconcile, Observe, Finish, CloseEffect, CloseReceipt, OpenEffect, OpenReceipt,
        DrainReceipt, RollbackReceipt, FailClose, FailCloseReceipt, RecoverReceipt,
        RecoverVerdict, RecoverAgainReceipt, Expire, Supersede, Dies
=============================================================================
