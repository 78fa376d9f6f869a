---------------------------- MODULE ExposureGate ----------------------------
(***************************************************************************)
(* ReferenceExposureGate (src/vllm_hust_ext/exposure_gate.py): a durable,  *)
(* single-writer gate that moves request admission from a predecessor to a *)
(* candidate generation.  Its memory is two SQLite tables: gate_state (one *)
(* row) and gate_transition (an append-only journal of intents and         *)
(* receipts).  The traffic it steers is held by an adapter that the        *)
(* database cannot update atomically, so every operation is a sequence of  *)
(*    intent transaction ; adapter effect ; route query ; receipt          *)
(* and the process may die between any two of them.  One action below is   *)
(* one stretch of an operation between two such points; a query and the    *)
(* transaction that records what it saw are one action.                    *)
(*                                                                         *)
(* The gate is one-shot: it is staged for one candidate, whose generation  *)
(* is the predecessor's plus one.  Generations, fences and snapshots are   *)
(* therefore named "pred" and "cand"; "other" is anything else.            *)
(***************************************************************************)
EXTENDS Naturals, Sequences

CONSTANTS
    Requests,           \* request ids that may be admitted
    Leases,             \* LeaseGrant values the authority may issue
    MaxLog,             \* bound: client calls start only below this journal length
    MaxCrashes,         \* bound: number of process deaths
    MayDrift,           \* may something besides the gate change the route?
    BehavioralRestore   \* DeterministicTrafficAdapter.behavioral_restore

ASSUME BoundsAssumption == MaxLog \in Nat /\ MaxCrashes \in Nat
ASSUME FlagsAssumption == MayDrift \in BOOLEAN /\ BehavioralRestore \in BOOLEAN

VARIABLES
    row,         \* the gate_state row; state "absent" before stage
    log,         \* the gate_transition table
    admissions,  \* the admission table, by request id
    route,       \* what the adapter really does with new requests
    grant,       \* LeaseAuthority.current()
    expired,     \* grants whose expires_at has passed
    at,          \* where the call in progress stands; "idle" when there is none
    arg,         \* the local variable the call carries to its next step
    ret,         \* what the last finished call returned, or "error"
    crashes      \* process deaths so far

db == <<row, log>>
lease == <<grant, expired>>
call == <<at, arg, ret>>
vars == <<row, log, admissions, route, grant, expired, at, arg, ret, crashes>>

-----------------------------------------------------------------------------
(* The gate's vocabulary. *)

Terminal == {"ROLLED_BACK", "FAILED_SAFE", "SAFETY_UNKNOWN"}

GateState == {"PREDECESSOR_OPEN", "CANDIDATE_STAGED", "CANDIDATE_CLOSED", "OPENING",
              "CANDIDATE_OPEN", "DRAINING"} \cup Terminal

RollbackClass == {"RESTORED_STRONG", "BEHAVIORAL", "FAILED_SAFE", "SAFETY_UNKNOWN"}

Names == {"pred", "cand", "none", "other"}
Fences == {"pred", "cand", "closed", "unknown", "other"}

RouteState == [generation : Names, fence : Fences, snapshot : Names]

PredRoute == [generation |-> "pred", fence |-> "pred", snapshot |-> "pred"]
CandRoute == [generation |-> "cand", fence |-> "cand", snapshot |-> "cand"]
ClosedRoute == [generation |-> "none", fence |-> "closed", snapshot |-> "none"]

IsClosed(r) == r.generation = "none" /\ r.fence = "closed"

\* Operations of the journal and their operation ids, without the generation.
Operation == {"stage", "close", "open", "open.reconcile", "open.reconcile.close_all",
              "drain", "rollback", "fail_close"}
OperationId == {"stage", "close", "open", "open-reconcile-close", "drain",
                "rollback", "fail_close"}

Entry(kind, op, id, from, to) ==
    [kind |-> kind, operation |-> op, operation_id |-> id,
     from_state |-> from, to_state |-> to]

NotAdmitted == [generation |-> "none", fence |-> "closed", transition_seq |-> 0,
                finished |-> FALSE]

AbsentRow == [state |-> "absent", route_generation |-> "none", route_fence |-> "unknown",
              lease |-> "none", proof |-> FALSE,
              observed_candidate |-> "none", transition_seq |-> 0]

-----------------------------------------------------------------------------
(* _ALLOWED: the state graph every transition is checked against. *)

Allowed ==
    [s \in GateState |->
        CASE s = "PREDECESSOR_OPEN" -> {"CANDIDATE_STAGED", "FAILED_SAFE", "SAFETY_UNKNOWN"}
          [] s = "CANDIDATE_STAGED" -> {"CANDIDATE_CLOSED"} \cup Terminal
          [] s = "CANDIDATE_CLOSED" -> {"OPENING"} \cup Terminal
          [] s = "OPENING" -> {"CANDIDATE_OPEN", "FAILED_SAFE", "SAFETY_UNKNOWN"}
          [] s = "CANDIDATE_OPEN" -> {"DRAINING"} \cup Terminal
          [] s = "DRAINING" -> {"CANDIDATE_OPEN"} \cup Terminal
          [] s \in Terminal -> {}]

\* Faulty: the state graph is not consulted.
CanMoveUnchecked(target) == row.state # "absent"

CanMove(target) == target = row.state \/ target \in Allowed[row.state]

Journal(kind, op, id, from, to) == log' = Append(log, Entry(kind, op, id, from, to))

\* _transition in its transaction; cols is the row with the other columns the
\* same transaction updates.  The revision CAS cannot miss with one writer.
Move(target, kind, op, id, cols) ==
    /\ Journal(kind, op, id, row.state, target)
    /\ row' = [cols EXCEPT !.state = target, !.transition_seq = Len(log) + 1]

Return(value) == at' = "idle" /\ arg' = "none" /\ ret' = value

Goto(label, local) == at' = label /\ arg' = local /\ UNCHANGED ret

\* A GateError out of _transition rolls the transaction back.
MoveOrRaise(target, kind, op, id, cols, value) ==
    \/ /\ CanMove(target)
       /\ Move(target, kind, op, id, cols)
       /\ Return(value)
    \/ /\ ~CanMove(target)
       /\ UNCHANGED db
       /\ Return("error")

Logged(kind, id) ==
    \E i \in DOMAIN log : log[i].kind = kind /\ log[i].operation_id = id

\* The newest intent of the operation is newer than its newest receipt.
PendingLast(id) ==
    \E i \in DOMAIN log :
        /\ log[i].kind = "intent" /\ log[i].operation_id = id
        /\ \A j \in DOMAIN log :
              j > i => ~(log[j].kind = "receipt" /\ log[j].operation_id = id)

\* An intent exists and no receipt of the operation id was ever written.
PendingEver(id) == Logged("intent", id) /\ ~Logged("receipt", id)

LeaseValid(l) == grant = l /\ l \notin expired

AtRoute == [row EXCEPT !.route_generation = route.generation, !.route_fence = route.fence]

-----------------------------------------------------------------------------
Init ==
    /\ row = AbsentRow
    /\ log = <<>>
    /\ admissions = [r \in Requests |-> NotAdmitted]
    /\ route = PredRoute
    /\ grant \in Leases
    /\ expired = {}
    /\ at = "idle" /\ arg = "none" /\ ret = "none"
    /\ crashes = 0

Idle == at = "idle"
Staged == row.state # "absent"

-----------------------------------------------------------------------------
(* stage: one transaction inserts the row as PREDECESSOR_OPEN and moves it. *)

Stage ==
    /\ Idle
    /\ UNCHANGED <<admissions, route, lease, crashes>>
    /\ \/ /\ ~Staged /\ route = PredRoute
          /\ Journal("receipt", "stage", "stage", "PREDECESSOR_OPEN", "CANDIDATE_STAGED")
          /\ row' = [state |-> "CANDIDATE_STAGED", route_generation |-> "pred",
                     route_fence |-> "pred", lease |-> grant, proof |-> FALSE,
                     observed_candidate |-> "none", transition_seq |-> Len(log) + 1]
          /\ Return("ok")
       \/ /\ ~Staged /\ route # PredRoute
          /\ UNCHANGED db /\ Return("error")
       \/ /\ Staged
          /\ UNCHANGED db /\ Return(IF row.route_fence = "pred" THEN "ok" ELSE "error")

-----------------------------------------------------------------------------
(* close: a pending intent is reused; the predecessor must still be routed. *)

Close ==
    /\ Idle /\ Staged
    /\ UNCHANGED <<row, admissions, route, lease, crashes>>
    /\ \/ row.state = "CANDIDATE_CLOSED" /\ UNCHANGED log /\ Return("ok")
       \/ /\ row.state # "CANDIDATE_CLOSED"
          /\ IF PendingEver("close") THEN UNCHANGED log
             ELSE Journal("intent", "close", "close", row.state, "none")
          /\ Goto("close.effect", "none")

\* adapter.close has no effect on the route; it may raise.
CloseEffect ==
    /\ at = "close.effect"
    /\ Goto("close.query", "none") \/ Return("error")
    /\ UNCHANGED <<db, admissions, route, lease, crashes>>

CloseReceipt ==
    /\ at = "close.query"
    /\ UNCHANGED <<admissions, route, lease, crashes>>
    /\ \/ UNCHANGED db /\ Return("error")          \* query_route raised
       \/ /\ route = [PredRoute EXCEPT !.fence = row.route_fence]
          /\ MoveOrRaise("CANDIDATE_CLOSED", "receipt", "close", "close", row, "ok")
       \/ /\ route # [PredRoute EXCEPT !.fence = row.route_fence]
          /\ Journal("receipt", "close", "close", row.state, "none")
          /\ UNCHANGED row
          /\ Goto("fail_close.intent", "raise")

-----------------------------------------------------------------------------
(* open: the proof is checked first; fits says that its generation, plan,   *)
(* candidate digest and evidence coverage are the staged ones.              *)

OpenAccepts(fits, l) == fits /\ l = row.lease /\ LeaseValid(l)

Open(fits, l) ==
    /\ Idle /\ Staged
    /\ UNCHANGED <<admissions, route, lease, crashes>>
    /\ \/ /\ ~OpenAccepts(fits, l) \/ row.state = "OPENING"
          /\ UNCHANGED db /\ Return("error")
       \/ /\ OpenAccepts(fits, l) /\ row.state = "CANDIDATE_OPEN"
          /\ UNCHANGED db
          /\ Return("ok") \/ Return("error")       \* same proof digest, or another
       \/ /\ OpenAccepts(fits, l) /\ row.state \notin {"OPENING", "CANDIDATE_OPEN"}
          /\ \/ /\ CanMove("OPENING")
                /\ Move("OPENING", "intent", "open", "open", [row EXCEPT !.proof = TRUE])
                /\ Goto("open.effect", "none")
             \/ ~CanMove("OPENING") /\ UNCHANGED db /\ Return("error")

\* adapter.open revalidates the grant at the side effect; it may raise before
\* the route changes or after.
OpenEffect ==
    /\ at = "open.effect"
    /\ UNCHANGED <<db, admissions, lease, crashes>>
    /\ \/ UNCHANGED route /\ Return("error")
       \/ /\ LeaseValid(row.lease)
          /\ route' = CandRoute
          /\ Goto("open.query", "none") \/ Return("error")

OpenReceipt ==
    /\ at = "open.query"
    /\ UNCHANGED <<admissions, route, lease, crashes>>
    /\ \/ UNCHANGED db /\ Return("error")          \* query_route raised
       \/ /\ route = CandRoute
          /\ MoveOrRaise("CANDIDATE_OPEN", "receipt", "open", "open",
                         [AtRoute EXCEPT !.observed_candidate = route.snapshot], "ok")
       \/ /\ route # CandRoute
          /\ Journal("receipt", "open", "open", "OPENING", "none")
          /\ UNCHANGED row
          /\ Goto("fail_close.intent", "raise")

-----------------------------------------------------------------------------
(* drain: the intent is a transition; the receipt waits for the predecessor's *)
(* admitted requests.                                                         *)

Unfinished(gen) == {r \in Requests : admissions[r].generation = gen /\ ~admissions[r].finished}

Drain ==
    /\ Idle /\ Staged
    /\ UNCHANGED <<admissions, route, lease, crashes>>
    /\ \/ row.state = "DRAINING" /\ UNCHANGED db /\ Goto("drain.count", "none")
       \/ /\ row.state # "DRAINING" /\ CanMove("DRAINING")
          /\ Move("DRAINING", "intent", "drain", "drain", row)
          /\ Goto("drain.count", "none")
       \/ row.state # "DRAINING" /\ ~CanMove("DRAINING") /\ UNCHANGED db /\ Return("error")

\* Faulty: the receipt does not wait for the unfinished requests.
DrainReceiptEager ==
    /\ at = "drain.count"
    /\ UNCHANGED <<admissions, route, lease, crashes>>
    /\ MoveOrRaise("CANDIDATE_OPEN", "receipt", "drain", "drain", row, "ok")

DrainReceipt ==
    /\ at = "drain.count"
    /\ UNCHANGED <<admissions, route, lease, crashes>>
    /\ \/ Unfinished("pred") # {} /\ UNCHANGED db /\ Return("busy")
       \/ /\ Unfinished("pred") = {}
          /\ MoveOrRaise("CANDIDATE_OPEN", "receipt", "drain", "drain", row, "ok")

-----------------------------------------------------------------------------
(* observe: admit a request on the queried route, or finish it. *)

PreOpen == {"PREDECESSOR_OPEN", "CANDIDATE_STAGED", "CANDIDATE_CLOSED"}

\* Faulty: a gate that has ended goes on admitting.
AdmissionBlockedWhileOpening == {"OPENING"}

AdmissionBlocked == {"OPENING"} \cup Terminal

RouteIsRecorded ==
    /\ route.generation = row.route_generation
    /\ route.fence = row.route_fence
    /\ route.generation = "cand" => route.snapshot = row.observed_candidate

\* Faulty: the predecessor's snapshot digest is not compared.
ContinuityLostByFence ==
    row.state \in PreOpen /\ (route.generation # "pred" \/ route.fence # "pred")

ContinuityLost == row.state \in PreOpen /\ route # PredRoute

\* Faulty: the admission carries the sequence number before the last transition.
AdmitToEarlier(r) ==
    admissions' = [admissions EXCEPT ![r] =
        [generation |-> route.generation, fence |-> route.fence,
         transition_seq |-> row.transition_seq - 1, finished |-> FALSE]]

AdmitTo(r) ==
    admissions' = [admissions EXCEPT ![r] =
        [generation |-> route.generation, fence |-> route.fence,
         transition_seq |-> row.transition_seq, finished |-> FALSE]]

Admitted(r) == admissions[r] # NotAdmitted

\* done: the call carries a result, so the request is finished as well.
Observe(r, done) ==
    /\ Idle /\ Staged /\ ~Admitted(r)
    /\ UNCHANGED <<db, route, lease, crashes>>
    /\ \/ /\ \/ row.state \in AdmissionBlocked
             \/ route.generation = "none" \/ route.fence = "closed"
          /\ UNCHANGED admissions /\ Return("error")
       \/ /\ row.state \notin AdmissionBlocked
          /\ route.generation # "none" /\ route.fence # "closed"
          /\ \/ /\ ContinuityLost
                /\ UNCHANGED admissions /\ Goto("fail_close.intent", "raise")
             \/ /\ ~ContinuityLost /\ ~RouteIsRecorded
                /\ UNCHANGED admissions /\ Return("error")
             \/ /\ ~ContinuityLost /\ RouteIsRecorded
                /\ AdmitTo(r)
                /\ IF done THEN Goto("observe.finish", r) ELSE Return(route.generation)

Finishing(r) == at = "observe.finish" /\ arg = r

\* A result that names both or neither of result and abort, or that precedes
\* the admission, is refused.
Finish(r) ==
    /\ Admitted(r) /\ (Idle \/ Finishing(r))
    /\ UNCHANGED <<db, route, lease, crashes>>
    /\ \/ UNCHANGED admissions /\ Return("error")
       \/ /\ ~admissions[r].finished
          /\ admissions' = [admissions EXCEPT ![r].finished = TRUE]
          /\ Return(admissions[r].generation)

-----------------------------------------------------------------------------
(* fail_close: called by the client, or from close, open, observe and        *)
(* reconcile; then arg says whether that caller raises or returns.           *)

FailClose ==
    /\ \/ Idle /\ Staged /\ Goto("fail_close.effect", "return")
       \/ at = "fail_close.intent" /\ Goto("fail_close.effect", arg)
    /\ Journal("intent", "fail_close", "fail_close", row.state, "none")
    /\ UNCHANGED <<row, admissions, route, lease, crashes>>

CloseAll == route' = ClosedRoute

FailCloseEffect ==
    /\ at = "fail_close.effect"
    /\ CloseAll \/ UNCHANGED route                 \* close_all raised
    /\ Goto("fail_close.query", arg)
    /\ UNCHANGED <<db, admissions, lease, crashes>>

Unqueried == [row EXCEPT !.route_generation = "none", !.route_fence = "unknown"]

\* The end of fail_close, and reconcile's end for one that was interrupted.
FailCloseVerdict(raises) ==
    \/ LET target == IF IsClosed(route) THEN "FAILED_SAFE" ELSE "SAFETY_UNKNOWN"
       IN  MoveOrRaise(target, "receipt", "fail_close", "fail_close", AtRoute,
                       IF raises THEN "error" ELSE target)
    \/ MoveOrRaise("SAFETY_UNKNOWN", "receipt", "fail_close", "fail_close", Unqueried,
                   IF raises THEN "error" ELSE "SAFETY_UNKNOWN")  \* query raised

FailCloseReceipt ==
    /\ at = "fail_close.query"
    /\ FailCloseVerdict(arg = "raise")
    /\ UNCHANGED <<admissions, route, lease, crashes>>

-----------------------------------------------------------------------------
(* rollback: restore the predecessor; failing that, close everything.       *)

\* Faulty: the restore is not announced by an intent.
RollbackUnannounced(oracle) ==
    /\ Idle /\ Staged
    /\ Goto("rollback.restore", IF oracle THEN "equivalent" ELSE "none")
    /\ UNCHANGED <<db, admissions, route, lease, crashes>>

Rollback(oracle) ==
    /\ Idle /\ Staged
    /\ Journal("intent", "rollback", "rollback", row.state, "none")
    /\ Goto("rollback.restore", IF oracle THEN "equivalent" ELSE "none")
    /\ UNCHANGED <<row, admissions, route, lease, crashes>>

Restored ==
    IF BehavioralRestore THEN [PredRoute EXCEPT !.snapshot = "other"] ELSE PredRoute

RollbackRestore ==
    /\ at = "rollback.restore"
    /\ UNCHANGED <<db, admissions, lease, crashes>>
    /\ \/ UNCHANGED route /\ Goto("rollback.close_all", "none")     \* restore raised
       \/ /\ route' = Restored
          /\ \/ Restored = PredRoute /\ Goto("rollback.receipt", "RESTORED_STRONG")
             \/ /\ Restored # PredRoute /\ arg = "equivalent"
                /\ Goto("rollback.receipt", "BEHAVIORAL")
             \/ /\ Restored # PredRoute /\ arg # "equivalent"
                /\ Goto("rollback.close_all", "none")

\* Faulty: the close is assumed to have worked.
RollbackCloseAllAssumed ==
    /\ at = "rollback.close_all"
    /\ CloseAll \/ UNCHANGED route
    /\ Goto("rollback.receipt", "FAILED_SAFE")
    /\ UNCHANGED <<db, admissions, lease, crashes>>

RollbackCloseAll ==
    /\ at = "rollback.close_all"
    /\ CloseAll \/ UNCHANGED route
    /\ Goto("rollback.receipt", IF IsClosed(route') THEN "FAILED_SAFE" ELSE "SAFETY_UNKNOWN")
    /\ UNCHANGED <<db, admissions, lease, crashes>>

RollbackTarget(class) ==
    IF class \in {"RESTORED_STRONG", "BEHAVIORAL"} THEN "ROLLED_BACK" ELSE class

RollbackReceipt ==
    /\ at = "rollback.receipt"
    /\ MoveOrRaise(RollbackTarget(arg), "receipt", "rollback", "rollback", AtRoute, arg)
    /\ UNCHANGED <<admissions, route, lease, crashes>>

-----------------------------------------------------------------------------
(* reconcile: finish what a dead process left, in this order of precedence: *)
(* fail_close, recovery close, rollback, open.                              *)

ReconcileRollback ==
    \/ LET target == CASE route = PredRoute -> "ROLLED_BACK"
                       [] IsClosed(route) -> "FAILED_SAFE"
                       [] OTHER -> "SAFETY_UNKNOWN"
       IN  MoveOrRaise(target, "receipt", "rollback", "rollback", row, target)
    \/ MoveOrRaise("SAFETY_UNKNOWN", "receipt", "rollback", "rollback", row,
                   "SAFETY_UNKNOWN")                                \* query raised

\* The open is given up: its intent gets a cancelled receipt, then fail_close.
CancelOpen ==
    /\ Journal("receipt", "open", "open", "OPENING", "none")
    /\ UNCHANGED row
    /\ Goto("fail_close.intent", "return")

\* Faulty: a failed route query is left to the next reconcile.
ReconcileOpenLater ==
    \/ UNCHANGED db /\ Return("error")
    \/ /\ LeaseValid(row.lease) /\ route = CandRoute
       /\ MoveOrRaise("CANDIDATE_OPEN", "receipt", "open.reconcile", "open",
                      [AtRoute EXCEPT !.observed_candidate = route.snapshot],
                      "CANDIDATE_OPEN")

ReconcileOpen ==
    \/ CancelOpen                     \* the lease is stale, or query_route raised
    \/ /\ LeaseValid(row.lease) /\ route = CandRoute
       /\ MoveOrRaise("CANDIDATE_OPEN", "receipt", "open.reconcile", "open",
                      [AtRoute EXCEPT !.observed_candidate = route.snapshot],
                      "CANDIDATE_OPEN")
    \/ /\ LeaseValid(row.lease) /\ route # CandRoute
       /\ Journal("intent", "open.reconcile.close_all", "open-reconcile-close",
                  "OPENING", "none")
       /\ UNCHANGED row
       /\ Goto("recover.effect", "ok")

Reconcile ==
    /\ Idle /\ Staged
    /\ UNCHANGED <<admissions, route, lease, crashes>>
    /\ IF PendingLast("fail_close") THEN FailCloseVerdict(FALSE)
       ELSE IF PendingEver("open-reconcile-close")
            THEN UNCHANGED db /\ Goto("recover.again.effect", "none")
       ELSE IF PendingLast("rollback") THEN ReconcileRollback
       ELSE IF row.state = "OPENING" THEN ReconcileOpen
       ELSE UNCHANGED db /\ Return(row.state)

\* The first recovery close: arg is "ok" until close_all or the query raises.
RecoverEffect ==
    /\ at = "recover.effect"
    /\ \/ CloseAll /\ Goto("recover.query", "ok")
       \/ UNCHANGED route /\ Goto("recover.query", "failed")
    /\ UNCHANGED <<db, admissions, lease, crashes>>

RecoverReceipt ==
    /\ at = "recover.query"
    /\ Journal("receipt", "open.reconcile.close_all", "open-reconcile-close",
               "OPENING", "none")
    /\ Goto("recover.verdict", arg) \/ Goto("recover.verdict", "failed")
    /\ UNCHANGED <<row, admissions, route, lease, crashes>>

RecoverVerdict ==
    /\ at = "recover.verdict"
    /\ \/ /\ arg = "ok"
          /\ MoveOrRaise("FAILED_SAFE", "receipt", "open", "open",
                         [row EXCEPT !.route_generation = "none", !.route_fence = "closed"],
                         "FAILED_SAFE")
       \/ arg = "failed" /\ CancelOpen
    /\ UNCHANGED <<admissions, route, lease, crashes>>

\* A recovery close found pending: its errors are suppressed, the query decides.
RecoverAgainEffect ==
    /\ at = "recover.again.effect"
    /\ CloseAll \/ UNCHANGED route
    /\ Goto("recover.again.query", "none")
    /\ UNCHANGED <<db, admissions, lease, crashes>>

RecoverAgainVerdict(target) ==
    \/ /\ CanMove(target)
       /\ log' = log \o << Entry("receipt", "open.reconcile.close_all",
                                 "open-reconcile-close", "OPENING", "none"),
                           Entry("receipt", "open", "open", row.state, target) >>
       /\ row' = [row EXCEPT !.state = target, !.transition_seq = Len(log) + 2]
       /\ Return(target)
    \/ ~CanMove(target) /\ UNCHANGED db /\ Return("error")

RecoverAgainReceipt ==
    /\ at = "recover.again.query"
    /\ \/ RecoverAgainVerdict(IF IsClosed(route) THEN "FAILED_SAFE" ELSE "SAFETY_UNKNOWN")
       \/ RecoverAgainVerdict("SAFETY_UNKNOWN")                     \* query raised
    /\ UNCHANGED <<admissions, route, lease, crashes>>

-----------------------------------------------------------------------------
(* Calls refused before they touch anything: no row, a stale generation.    *)

Refused == Idle /\ Return("error") /\ UNCHANGED <<db, admissions, route, lease, crashes>>

-----------------------------------------------------------------------------
(* The gate's surroundings. *)

\* The process dies inside a call and is restarted on the same database.
Crash ==
    /\ at # "idle" /\ crashes < MaxCrashes
    /\ at' = "idle" /\ arg' = "none" /\ ret' = "none"
    /\ crashes' = crashes + 1
    /\ UNCHANGED <<db, admissions, route, lease>>

\* Something other than the gate changes what the scheduler does.
Drift ==
    /\ MayDrift
    /\ route' \in {[route EXCEPT !.snapshot = "other"], PredRoute, ClosedRoute,
                   [generation |-> "other", fence |-> "other", snapshot |-> "other"]}
    /\ UNCHANGED <<db, admissions, lease, call, crashes>>

Expire ==
    /\ grant \notin expired
    /\ expired' = expired \cup {grant}
    /\ UNCHANGED <<db, admissions, route, grant, call, crashes>>

\* A new grant has a higher fencing token, so a superseded one never returns.
Supersede ==
    /\ \E l \in Leases \ expired : l # grant /\ grant' = l
    /\ expired' = expired \cup {grant}
    /\ UNCHANGED <<db, admissions, route, call, crashes>>

Environment == Crash \/ Drift \/ Expire \/ Supersede

-----------------------------------------------------------------------------
(* The rest of a call that has begun. *)
Continue ==
    \/ CloseEffect \/ CloseReceipt
    \/ OpenEffect \/ OpenReceipt
    \/ DrainReceipt
    \/ at = "observe.finish" /\ \E r \in Requests : Finish(r)
    \/ at = "fail_close.intent" /\ FailClose
    \/ FailCloseEffect \/ FailCloseReceipt
    \/ RollbackRestore \/ RollbackCloseAll \/ RollbackReceipt
    \/ RecoverEffect \/ RecoverReceipt \/ RecoverVerdict
    \/ RecoverAgainEffect \/ RecoverAgainReceipt

\* Calls of a client.  MaxLog bounds the journal that operations, which may be
\* called again and again, build up.
Operate ==
    /\ Len(log) < MaxLog
    /\ \/ Stage \/ Close \/ Drain
       \/ Idle /\ FailClose
       \/ \E fits \in BOOLEAN, l \in Leases : Open(fits, l)
       \/ \E oracle \in BOOLEAN : Rollback(oracle)

Traffic ==
    \/ \E r \in Requests, done \in BOOLEAN : Observe(r, done)
    \/ \E r \in Requests : Idle /\ Finish(r)

Request == Operate \/ Traffic \/ Refused

Next == Request \/ Reconcile \/ Continue \/ Environment

Spec == Init /\ [][Next]_vars

\* A call that has begun goes on, and between other calls reconcile gets its
\* turn again and again: the operator retries it while the gate is undecided.
FairSpec == Spec /\ WF_vars(Continue) /\ SF_vars(Reconcile)

-----------------------------------------------------------------------------
(* Properties. *)

Row ==
    [state : GateState \cup {"absent"}, route_generation : Names,
     route_fence : Fences, lease : Leases \cup {"none"}, proof : BOOLEAN,
     observed_candidate : Names, transition_seq : Nat]

EntryType ==
    [kind : {"intent", "receipt"}, operation : Operation, operation_id : OperationId,
     from_state : GateState, to_state : GateState \cup {"none"}]

AdmissionType ==
    [generation : Names, fence : Fences, transition_seq : Nat, finished : BOOLEAN]

Labels == {"idle", "close.effect", "close.query", "open.effect", "open.query",
           "drain.count", "observe.finish", "fail_close.intent", "fail_close.effect",
           "fail_close.query", "rollback.restore", "rollback.close_all",
           "rollback.receipt", "recover.effect", "recover.query", "recover.verdict",
           "recover.again.effect", "recover.again.query"}

\* Every variable has its type; a call is in progress only on a staged gate, and
\* a rollback reaches its receipt with a classification.
TypeOK ==
    /\ row \in Row
    /\ log \in Seq(EntryType)
    /\ admissions \in [Requests -> AdmissionType]
    /\ route \in RouteState
    /\ grant \in Leases /\ expired \subseteq Leases
    /\ at \in Labels
    /\ at # "idle" => Staged
    /\ at = "rollback.receipt" => arg \in RollbackClass
    /\ crashes \in Nat

\* Once drain has written its receipt the predecessor serves nothing, for ever:
\* no predecessor request is unfinished, whatever the route does afterwards.
DrainedForever ==
    Logged("receipt", "drain") => Unfinished("pred") = {}

\* Why it holds: the parts of an inductive invariant.  An open gate has recorded
\* the candidate's route; drain counts only while draining; and after the drain
\* receipt the gate never goes back to a state that admits to the predecessor.
OpenIsRecorded ==
    row.state \in {"CANDIDATE_OPEN", "DRAINING"} =>
        /\ row.route_generation = "cand" /\ row.route_fence = "cand"
        /\ row.observed_candidate = "cand"

DrainCounts == at = "drain.count" => row.state = "DRAINING"

DrainedStaysOpen ==
    Logged("receipt", "drain") => row.state \in {"CANDIDATE_OPEN", "DRAINING"} \cup Terminal

IInv == TypeOK /\ OpenIsRecorded /\ DrainCounts /\ DrainedStaysOpen /\ DrainedForever

\* A request is admitted only to a route that is exactly the predecessor's or
\* exactly the candidate's: one that something else changed after stage, close
\* or open serves nobody (observe's continuity and snapshot checks).
AdmitsOnlyIntactRoutes ==
    [][\A r \in Requests : ~Admitted(r) /\ Admitted(r)' => route \in {PredRoute, CandRoute}]_vars

\* The journal has a pending intent of the very operation whose effect changes
\* the route: a process that dies right after the effect leaves a trace of it.
EffectIntent ==
    [label \in {"open.effect", "fail_close.effect", "rollback.restore", "rollback.close_all",
                "recover.effect", "recover.again.effect"} |->
        CASE label = "open.effect" -> "open"
          [] label = "fail_close.effect" -> "fail_close"
          [] label \in {"rollback.restore", "rollback.close_all"} -> "rollback"
          [] label \in {"recover.effect", "recover.again.effect"} -> "open-reconcile-close"]

EffectsAreJournaled ==
    [][route' # route /\ at' # at =>
          at \in DOMAIN EffectIntent /\ PendingLast(EffectIntent[at])]_vars

\* A terminal verdict is measured: when nothing else touches the route, the gate
\* becomes FAILED_SAFE only while all traffic is closed and ROLLED_BACK only
\* while the predecessor is back: with its own snapshot, or as the adapter restores it
\* when it can only restore its behaviour.  Holds across crashes, retries and adapter
\* errors.
VerdictsAreMeasured ==
    [][row'.state # row.state =>
          /\ row'.state = "FAILED_SAFE" => IsClosed(route')
          /\ row'.state = "ROLLED_BACK" => route' \in {PredRoute, Restored}]_vars

\* What the gate promises, without its journal: see ExposureSwitch.
Phase == CASE row.state \in {"CANDIDATE_OPEN", "DRAINING"} -> "cand"
           [] row.state \in Terminal -> "shut"
           [] OTHER -> "pred"

Served == [r \in Requests |-> admissions[r].generation]

Switch == INSTANCE ExposureSwitch WITH phase <- Phase, served <- Served

\* The gate implements the one-way switch.
ImplementsSwitch == Switch!Spec

\* An interrupted open does not stay undecided: retried reconcile resolves it,
\* unless a rollback was asked for meanwhile (that one is then never finished).
OpeningIsResolved ==
    row.state = "OPENING" ~> row.state # "OPENING" \/ PendingLast("rollback")
=============================================================================
