-------------------------- MODULE GatedActivation ---------------------------
(***************************************************************************)
(* The activation coordinator (ActivationStore) driving the reference      *)
(* exposure gate (ExposureGate) in place of a plain TrafficGate.  The two  *)
(* keep separate durable state in one process: a call of the coordinator   *)
(* that needs the gate starts a gate call, waits until it returns (at is   *)
(* "idle" again) and goes on with what it returned (ret).  The process may *)
(* die anywhere, so that one of the two has recorded what the other has    *)
(* not.  The gate takes one candidate, hence there is one plan.            *)
(***************************************************************************)
EXTENDS ExposureGate

CONSTANTS Plans, PredGeneration, FallbackProven, Procs, Nonces, MaxIncarnation, MaxEpoch

ASSUME OnePlanAssumption == \E p \in Plans : Plans = {p}

VARIABLES generation, manager_epoch, activation, committed, host_receipt, outcome,
          inventory, evidence, pc, cur

A == INSTANCE ActivationStore

store == <<generation, manager_epoch, activation, committed, host_receipt, outcome,
           inventory, evidence>>

gate == <<row, log, admissions, route, grant, expired, at, arg, ret, crashes>>

gated_vars == <<generation, manager_epoch, activation, committed, host_receipt, outcome,
                inventory, evidence, pc, cur, row, log, admissions, route, grant, expired,
                at, arg, ret, crashes>>

GatedInit == A!Init /\ Init

\* The gate call that was started at this label has returned.
Returned(label) == pc = label /\ Idle

Stay == UNCHANGED store /\ A!Done /\ UNCHANGED gate

-----------------------------------------------------------------------------
(* plan: the row is inserted first; a stage that raises takes it out again. *)

PlanStage ==
    /\ pc = "plan.traffic"
    /\ Stage \/ Refused
    /\ IF ret' = "ok" THEN A!Done ELSE A!Goto("plan.undo", cur)
    /\ UNCHANGED store

PlanUndo ==
    /\ pc = "plan.undo" /\ A!Done
    /\ activation' = [activation EXCEPT ![cur] = "absent"]
    /\ UNCHANGED <<generation, manager_epoch, committed, host_receipt, outcome,
                   inventory, evidence, gate>>

\* prepare, after its receipt: gate.close.
PrepareGate ==
    /\ pc = "prepare.traffic"
    /\ \/ Close /\ A!Goto("prepare.closing", cur)
       \/ ~Staged /\ Refused /\ A!Done
    /\ UNCHANGED store

PrepareClosed == Returned("prepare.closing") /\ Stay

-----------------------------------------------------------------------------
(* commit: gate.open with the proof of the evidence and the current grant.  *)

CommitGate ==
    /\ pc = "commit.traffic"
    /\ \/ Open(TRUE, grant) /\ A!Goto("commit.opening", cur)
       \/ ~Staged /\ Refused /\ A!Done
    /\ UNCHANGED store

\* Faulty: an open that raised is taken for one that worked.
CommitOpenedAnyway ==
    /\ Returned("commit.opening")
    /\ A!Goto("commit.receipt", cur)
    /\ UNCHANGED <<store, gate>>

CommitOpened ==
    /\ Returned("commit.opening")
    /\ IF ret = "ok" THEN A!Goto("commit.receipt", cur) ELSE A!Done
    /\ UNCHANGED <<store, gate>>

-----------------------------------------------------------------------------
(* rollback, after the host's receipt: gate.rollback, or gate.fail_close    *)
(* when the host failed; if that raises, gate.fail_close once more.         *)

ConcludeTarget(class) ==
    IF class \in {"error", "SAFETY_UNKNOWN"} THEN "SAFETY_UNKNOWN"
    ELSE IF host_receipt[cur] = "error" \/ class = "FAILED_SAFE" THEN "FAILED_SAFE"
    ELSE "ROLLED_BACK"

RollbackGate ==
    /\ pc = "rollback.traffic"
    /\ \/ host_receipt[cur] = "ok" /\ Rollback(FALSE) /\ A!Goto("rollback.first", cur)
       \/ host_receipt[cur] = "error" /\ FailClose /\ A!Goto("rollback.first", cur)
       \/ ~Staged /\ Refused /\ A!Goto("rollback.second", cur)
    /\ UNCHANGED store

\* Faulty: what the gate reports is not looked at.
RollbackFirstTrusting ==
    /\ Returned("rollback.first")
    /\ A!Conclude(cur, IF host_receipt[cur] = "ok" THEN "ROLLED_BACK" ELSE "FAILED_SAFE")
    /\ UNCHANGED gate

RollbackFirst ==
    /\ Returned("rollback.first")
    /\ \/ ret # "error" /\ A!Conclude(cur, ConcludeTarget(ret)) /\ UNCHANGED gate
       \/ /\ ret = "error" /\ FailClose
          /\ A!Goto("rollback.second", cur) /\ UNCHANGED store

RollbackSecond ==
    /\ Returned("rollback.second")
    /\ A!Conclude(cur, ConcludeTarget(ret))
    /\ UNCHANGED gate

-----------------------------------------------------------------------------
(* recover: every branch asks the gate first; an unstaged gate raises.      *)

Recover(p) ==
    /\ A!Idle /\ A!Planned(p) /\ UNCHANGED store
    /\ \/ /\ activation[p] = "ROLLBACK"
          /\ Reconcile /\ A!Goto("recover.rollback", p)
       \/ /\ activation[p] = "COMMIT_READY"
          /\ Reconcile /\ A!Goto("recover.commit", p)
       \/ /\ activation[p] \in {"PREPARING", "LAUNCHING", "OBSERVING"}
          /\ Rollback(FALSE) /\ A!Goto("recover.restore", p)

RecoverTo(target) ==
    /\ A!Transition(cur, target) /\ A!Done
    /\ UNCHANGED <<generation, manager_epoch, committed, host_receipt, outcome,
                   inventory, evidence, gate>>

\* Faulty: a gate that did not open is left to the next recover.
RecoverCommitLater ==
    /\ Returned("recover.commit")
    /\ IF ret = "CANDIDATE_OPEN" THEN RecoverTo("EFFECTIVE") ELSE Stay

RecoverCommit ==
    /\ Returned("recover.commit")
    /\ \/ ret = "error" /\ Stay
       \/ ret = "CANDIDATE_OPEN" /\ RecoverTo("EFFECTIVE")
       \/ /\ ret = "CANDIDATE_CLOSED"
          /\ Rollback(FALSE) /\ A!Goto("recover.restore", cur) /\ UNCHANGED store
       \/ ret \notin {"error", "CANDIDATE_OPEN", "CANDIDATE_CLOSED"} /\ RecoverTo("RECONCILE")

RecoverRestored ==
    /\ Returned("recover.restore")
    /\ IF ret = "error" THEN Stay ELSE RecoverTo("RECONCILE")

\* The interrupted rollback: without a host receipt the gate is closed; with one
\* the gate's state and the host's outcome decide.
RecoverRollback ==
    /\ Returned("recover.rollback")
    /\ LET host == host_receipt[cur]
           decided == ret \in {"SAFETY_UNKNOWN", "FAILED_SAFE", "ROLLED_BACK"} \/ host = "error"
       IN  \/ ret = "error" /\ Stay
           \/ /\ ret # "error" /\ host # "none" /\ decided
              /\ A!Conclude(cur, ConcludeTarget(ret)) /\ UNCHANGED gate
           \/ /\ ret # "error" /\ (host = "none" \/ ~decided)
              /\ FailClose /\ A!Goto("recover.closing", cur) /\ UNCHANGED store

RecoverClosed ==
    /\ Returned("recover.closing")
    /\ \/ ret = "error" /\ Stay
       \/ ret # "error" /\ A!Conclude(cur, ret) /\ UNCHANGED gate

-----------------------------------------------------------------------------
\* The rest of a call that has begun, in the coordinator or in the gate.
GatedContinue ==
    \/ PlanStage \/ PlanUndo \/ PrepareGate \/ PrepareClosed
    \/ CommitGate \/ CommitOpened
    \/ RollbackGate \/ RollbackFirst \/ RollbackSecond
    \/ RecoverCommit \/ RecoverRestored \/ RecoverRollback \/ RecoverClosed
    \/ Continue /\ UNCHANGED <<store, pc, cur>>
    \/ /\ A!PrepareReceipt(TRUE) \/ A!LaunchReceipt \/ A!CommitReceipt \/ A!LeaseFallback
          \/ A!RollbackHost \/ (pc = "lease.lost" /\ A!Rollback(cur))
       /\ UNCHANGED gate

\* Between calls: requests, and an operator who drains the predecessor.
GateTraffic ==
    /\ A!Idle /\ UNCHANGED <<store, pc, cur>>
    /\ Traffic \/ (Len(log) < MaxLog /\ Drain)

GateEnvironment == (Drift \/ Expire \/ Supersede) /\ UNCHANGED <<store, pc, cur>>

\* The process dies and the store is opened again on both databases.
Restart ==
    /\ A!Boot
    /\ at' = "idle" /\ arg' = "none" /\ ret' = "none"
    /\ UNCHANGED <<row, log, admissions, route, grant, expired, crashes>>

\* Calls of the manager.  MaxLog bounds the gate's journal; recovery of an
\* interrupted commit is exempt, it ends by itself.
Manage ==
    \/ /\ Len(log) < MaxLog /\ Idle /\ UNCHANGED gate
       /\ A!StoreStep \/ \E p \in Plans : A!PlanInsert(p) \/ A!Commit(p, PredGeneration[p])
    \/ \E p \in Plans :
          (Len(log) < MaxLog \/ activation[p] = "COMMIT_READY") /\ Recover(p)

GatedNext == GatedContinue \/ Manage \/ GateTraffic \/ GateEnvironment \/ Restart

GatedSpec == GatedInit /\ [][GatedNext]_gated_vars

\* A call that has begun goes on, and the manager asks again and again, between
\* its other calls, to recover a commit that it finds interrupted.
GatedFairSpec ==
    /\ GatedSpec /\ WF_gated_vars(GatedContinue)
    /\ \A p \in Plans : SF_gated_vars(Recover(p) /\ activation[p] = "COMMIT_READY")

-----------------------------------------------------------------------------
(* Properties. *)

\* The candidate is reachable, or was reached by a request, only after the
\* coordinator's commit claimed the generation: two databases agree on it
\* although no transaction spans them.
ExposedOnlyIfCommitted ==
    \/ route.generation = "cand"
    \/ row.state \in {"OPENING", "CANDIDATE_OPEN", "DRAINING"}
    \/ \E r \in Requests : admissions[r].generation = "cand"
    => \E p \in committed : generation = PredGeneration[p] + 1

\* A plan is reported Effective only while the gate is open for the candidate.
EffectiveIsOpen ==
    \A p \in Plans :
        activation[p] = "EFFECTIVE" => row.state \in {"CANDIDATE_OPEN", "DRAINING"}

\* A plan is reported Rolled Back only when the gate is rolled back too and exactly
\* the predecessor's route serves, whichever of the two was interrupted.
RolledBackIsRestored ==
    \A p \in Plans :
        activation[p] = "ROLLED_BACK" => row.state = "ROLLED_BACK" /\ route = PredRoute

\* An interrupted commit is decided, Effective or Reconcile, if it began on a gate
\* that was ready for it: closed, with no rollback of an earlier recover pending.
CommitIsDecided ==
    \A p \in Plans :
        /\ activation[p] = "COMMIT_READY" /\ pc = "commit.traffic"
        /\ row.state = "CANDIDATE_CLOSED" /\ ~PendingLast("rollback")
        ~> activation[p] # "COMMIT_READY"

\* docs/design/reference-exposure-gate.md: "`FAILED_SAFE` is reported only after an
\* actual route query proves all traffic closed."
FailedSafeIsClosed ==
    [][\A p \in Plans :
          activation[p] # "FAILED_SAFE" /\ activation'[p] = "FAILED_SAFE" =>
              IsClosed(route)]_gated_vars

=============================================================================
