------------------------ MODULE GatedActivationProofs ------------------------
(***************************************************************************)
(* Proofs about the coordinator that drives the exposure gate.  Every step *)
(* of the pair is a step of the gate, so that the gate's own invariants    *)
(* hold; a second invariant relates the label at which the coordinator     *)
(* waits to the call that the gate is in, and the durable states of the    *)
(* two to each other.                                                      *)
(***************************************************************************)
EXTENDS ExposureGateProofs, GatedActivation

-----------------------------------------------------------------------------
(* The coordinator that drives the gate (GatedActivation): what its steps    *)
(* do to its own call and to the plan's state.                               *)

\* The state of the plan a call works on, and the gate's labels while it waits.
CallStates ==
    [label \in {"plan.traffic", "plan.undo", "prepare.host", "prepare.traffic",
                "prepare.closing", "launch.host", "commit.traffic", "commit.opening",
                "commit.receipt", "lease.lost", "rollback.host", "rollback.traffic",
                "rollback.first", "rollback.second", "recover.commit", "recover.rollback",
                "recover.closing", "recover.restore"} |->
        CASE label \in {"plan.traffic", "plan.undo"} -> {"PLANNED"}
          [] label = "prepare.host" -> {"PREPARING"}
          [] label \in {"prepare.traffic", "prepare.closing"} -> {"PREPARED"}
          [] label = "launch.host" -> {"LAUNCHING"}
          [] label \in {"commit.traffic", "commit.opening", "commit.receipt",
                        "recover.commit"} -> {"COMMIT_READY"}
          [] label = "lease.lost" -> {"DEGRADED"}
          [] label = "recover.restore" -> {"PREPARING", "LAUNCHING", "OBSERVING", "COMMIT_READY"}
          [] OTHER -> {"ROLLBACK"}]

GateLabels(label) ==
    CASE label = "idle" -> {"idle", "drain.count", "observe.finish"} \cup FailCloseLabels
      [] label = "prepare.closing" -> {"idle", "close.effect", "close.query"} \cup FailCloseLabels
      [] label = "commit.opening" -> {"idle", "open.effect", "open.query"} \cup FailCloseLabels
      [] label = "rollback.first" -> {"idle"} \cup RollbackLabels \cup FailCloseLabels
      [] label \in {"rollback.second", "recover.closing"} -> {"idle"} \cup FailCloseLabels
      [] label \in {"recover.commit", "recover.rollback"} ->
            {"idle"} \cup FailCloseLabels \cup RecoveryLabels
      [] label = "recover.restore" -> {"idle"} \cup RollbackLabels
      [] OTHER -> {"idle"}

Waits == {"prepare.closing", "commit.opening", "rollback.first", "rollback.second",
          "recover.commit", "recover.rollback", "recover.closing", "recover.restore"}

PlanTyped == activation \in [Plans -> A!State \cup {"absent"}]

CallFits ==
    /\ pc # "idle" =>
           cur \in Plans /\ pc \in DOMAIN CallStates /\ activation[cur] \in CallStates[pc]
    /\ at \in GateLabels(pc)
    /\ pc = "idle" /\ at \in FailCloseLabels => row.state \in PreOpen

\* There is one plan.
LEMMA OnePlan == ASSUME NEW p \in Plans, NEW q \in Plans PROVE p = q
BY OnePlanAssumption

\* A transition of a plan follows the coordinator's graph.
LEMMA TransitionFacts ==
    ASSUME PlanTyped, NEW p \in Plans, NEW t, A!Transition(p, t)
    PROVE  /\ PlanTyped' /\ t \in A!State /\ activation'[p] = t
           /\ t = "EFFECTIVE" => activation[p] = "COMMIT_READY"
           /\ t = "ROLLED_BACK" => activation[p] = "ROLLBACK"
<1>1. activation[p] \in A!State /\ t \in A!Transitions[activation[p]]
      /\ activation' = [activation EXCEPT ![p] = t]
  BY DEF PlanTyped, A!Transition, A!Planned
<1>2. ASSUME NEW s \in A!State, t \in A!Transitions[s]
      PROVE  /\ t \in A!State
             /\ t = "EFFECTIVE" => s = "COMMIT_READY"
             /\ t = "ROLLED_BACK" => s = "ROLLBACK"
  BY <1>2 DEF A!State, A!Transitions
<1> QED  BY <1>1, <1>2 DEF PlanTyped

\* A step of the coordinator alone, while the gate has no call in progress.
CallMoves ==
    /\ pc' # "idle" => /\ cur' \in Plans /\ pc' \in DOMAIN CallStates
                       /\ activation'[cur'] \in CallStates[pc']
    /\ pc' # pc => pc' \notin Waits
    /\ pc' = "commit.receipt" => pc' = pc \/ (pc = "commit.opening" /\ ret = "ok")

Claims ==
    \/ /\ UNCHANGED <<generation, committed>>
       /\ pc' = "commit.traffic" => pc' = pc /\ cur' = cur
    \/ \E p \in Plans : /\ generation' = PredGeneration[p] + 1
                        /\ committed' = committed \cup {p} /\ cur' = p

Settles ==
    \A p \in Plans :
        /\ activation'[p] = "EFFECTIVE" =>
              \/ activation[p] = "EFFECTIVE" \/ pc = "commit.receipt"
              \/ pc = "recover.commit" /\ ret = "CANDIDATE_OPEN"
        /\ activation'[p] = "ROLLED_BACK" =>
              \/ activation[p] = "ROLLED_BACK"
              \/ pc \in {"rollback.first", "rollback.second"} /\ ret \notin Refusals
              \/ pc \in {"recover.rollback", "recover.closing"} /\ ret = "ROLLED_BACK"

CoordinatorStep ==
    UNCHANGED vars /\ at = "idle" /\ PlanTyped' /\ CallMoves /\ Claims /\ Settles

\* A step that starts a call of the gate.
GateStart ==
    /\ UNCHANGED store /\ at = "idle"
    /\ pc' # "idle" => /\ cur' \in Plans /\ pc' \in DOMAIN CallStates
                       /\ activation[cur'] \in CallStates[pc']
    /\ pc = "idle" => \A p \in Plans : activation[p] \notin {"EFFECTIVE", "ROLLED_BACK"}
    /\ \/ (Stage \/ Refused) /\ pc = "plan.traffic" /\ pc' \in {"idle", "plan.undo"}
       \/ Refused /\ pc \in {"prepare.traffic", "commit.traffic"} /\ pc' = "idle"
       \/ Close /\ pc = "prepare.traffic" /\ pc' = "prepare.closing"
       \/ Open(TRUE, grant) /\ pc = "commit.traffic" /\ pc' = "commit.opening"
       \/ Rollback(FALSE) /\ pc = "rollback.traffic" /\ pc' = "rollback.first"
       \/ FailClose /\ pc = "rollback.traffic" /\ pc' = "rollback.first"
       \/ Refused /\ pc = "rollback.traffic" /\ pc' = "rollback.second"
       \/ FailClose /\ pc = "rollback.first" /\ pc' = "rollback.second"
       \/ Reconcile /\ pc = "idle" /\ pc' \in {"recover.rollback", "recover.commit"}
       \/ Rollback(FALSE) /\ pc \in {"idle", "recover.commit"} /\ pc' = "recover.restore"
       \/ FailClose /\ pc = "recover.rollback" /\ pc' = "recover.closing"

\* A step of the gate or of its surroundings alone.
GateAlone ==
    /\ UNCHANGED <<store, pc, cur>>
    /\ \/ Continue \/ Drift \/ Expire \/ Supersede
       \/ pc = "idle" /\ (Traffic \/ Drain)

\* A transition of a plan, with the gate left alone.
LEMMA PlanMoves ==
    ASSUME PlanTyped, UNCHANGED vars, at = "idle", UNCHANGED <<generation, committed>>,
           NEW p \in Plans, NEW t, A!Transition(p, t),
           \/ pc' = "idle"
           \/ /\ pc' \in DOMAIN CallStates \ (Waits \cup {"commit.traffic", "commit.receipt"})
              /\ cur' = p /\ t \in CallStates[pc'],
           t = "EFFECTIVE" =>
              pc = "commit.receipt" \/ (pc = "recover.commit" /\ ret = "CANDIDATE_OPEN"),
           t = "ROLLED_BACK" =>
              \/ pc \in {"rollback.first", "rollback.second"} /\ ret \notin Refusals
              \/ pc \in {"recover.rollback", "recover.closing"} /\ ret = "ROLLED_BACK"
    PROVE  CoordinatorStep
<1>1. PlanTyped' /\ activation'[p] = t
  BY TransitionFacts
<1>2. CallMoves
  BY <1>1 DEF CallMoves, Waits
<1>3. Claims
  BY DEF Claims
<1>4. ASSUME NEW q \in Plans PROVE activation'[q] = t
  BY <1>1, OnePlan
<1>5. Settles
  BY <1>4 DEF Settles
<1> QED  BY <1>1, <1>2, <1>3, <1>5 DEF CoordinatorStep

\* A call that ends or goes on without a transition.
LEMMA PlanStays ==
    ASSUME PlanTyped, UNCHANGED vars, at = "idle",
           UNCHANGED <<generation, committed, activation>>,
           \/ pc' = "idle"
           \/ /\ pc' \in DOMAIN CallStates \ (Waits \cup {"commit.traffic"})
              /\ cur' \in Plans /\ activation[cur'] \in CallStates[pc']
              /\ pc' = "commit.receipt" => pc = "commit.opening" /\ ret = "ok"
           \/ UNCHANGED <<pc, cur>> /\ CallFits
    PROVE  CoordinatorStep
<1>1. PlanTyped'
  BY DEF PlanTyped
<1>2. CallMoves
  BY DEF CallMoves, CallFits, Waits
<1>3. Claims
  BY DEF Claims
<1>4. Settles
  BY Zenon DEF Settles
<1> QED  BY <1>1, <1>2, <1>3, <1>4 DEF CoordinatorStep

\* The coordinator's own steps in a call that has begun.
LEMMA CoordinatorContinues ==
    ASSUME PlanTyped, CallFits,
           \/ PlanUndo \/ PrepareClosed \/ CommitOpened
           \/ /\ A!PrepareReceipt(TRUE) \/ A!LaunchReceipt \/ A!CommitReceipt \/ A!LeaseFallback
                 \/ A!RollbackHost \/ (pc = "lease.lost" /\ A!Rollback(cur))
              /\ UNCHANGED gate
    PROVE  CoordinatorStep
<1> USE DEF A!Goto, A!Done, A!Idle
<1>0. UNCHANGED vars
  BY Zenon DEF PlanUndo, PrepareClosed, CommitOpened, Stay, gate, vars
<1>1. pc # "idle" /\ cur \in Plans /\ at = "idle" /\ activation[cur] \in CallStates[pc]
  BY Zenon DEF PlanUndo, PrepareClosed, CommitOpened, Returned, Idle, A!PrepareReceipt,
     A!LaunchReceipt, A!CommitReceipt, A!LeaseFallback, A!RollbackHost, CallFits, GateLabels
<1>2. CASE PlanUndo
  <2>1. activation' = [activation EXCEPT ![cur] = "absent"] /\ pc' = "idle"
        /\ UNCHANGED <<generation, committed>>
    BY <1>2 DEF PlanUndo
  <2>2. PlanTyped'
    BY <1>1, <2>1 DEF PlanTyped
  <2>3. Settles
    BY <1>1, <2>1, Zenon DEF Settles, PlanTyped
  <2> QED  BY <1>0, <1>1, <2>1, <2>2, <2>3, Zenon DEF CoordinatorStep, CallMoves, Claims, Waits
<1>3. CASE PrepareClosed
  BY <1>0, <1>1, <1>3, PlanStays, Zenon DEF PrepareClosed, Stay, store
<1>4. CASE CommitOpened
  <2>1. activation[cur] = "COMMIT_READY" /\ pc = "commit.opening"
    BY <1>1, <1>4, Zenon DEF CommitOpened, Returned, CallStates
  <2>2. "commit.receipt" \in DOMAIN CallStates \ (Waits \cup {"commit.traffic"})
        /\ "COMMIT_READY" \in CallStates["commit.receipt"]
    BY DEF CallStates, Waits
  <2>3. UNCHANGED <<generation, committed, activation>>
        /\ (pc' = "idle" \/ (ret = "ok" /\ pc' = "commit.receipt" /\ cur' = cur))
    BY <1>4, Zenon DEF CommitOpened, store
  <2> QED  BY <1>0, <1>1, <2>1, <2>2, <2>3, PlanStays, Zenon
<1>5. CASE A!PrepareReceipt(TRUE)
  <2>1. "prepare.traffic" \in DOMAIN CallStates \ (Waits \cup {"commit.traffic", "commit.receipt"})
        /\ "PREPARED" \in CallStates["prepare.traffic"]
    BY DEF CallStates, Waits
  <2> QED  BY <1>0, <1>1, <1>5, <2>1, PlanStays, PlanMoves, Zenon DEF A!PrepareReceipt
<1>6. CASE A!LaunchReceipt
  BY <1>0, <1>1, <1>6, PlanStays, PlanMoves, Zenon DEF A!LaunchReceipt
<1>7. CASE A!CommitReceipt
  BY <1>0, <1>1, <1>7, PlanMoves, Zenon DEF A!CommitReceipt
<1>8. CASE A!LeaseFallback
  BY <1>0, <1>1, <1>8, PlanMoves, Zenon DEF A!LeaseFallback
<1>9. CASE A!RollbackHost
  <2>1. activation[cur] = "ROLLBACK"
    BY <1>1, <1>9 DEF A!RollbackHost, CallStates
  <2>2. "rollback.traffic" \in DOMAIN CallStates \ (Waits \cup {"commit.traffic"})
        /\ "ROLLBACK" \in CallStates["rollback.traffic"]
    BY DEF CallStates, Waits
  <2> QED  BY <1>0, <1>1, <1>9, <2>1, <2>2, PlanStays, Zenon DEF A!RollbackHost
<1>10. CASE A!Rollback(cur)
  <2>1. "rollback.host" \in DOMAIN CallStates \ (Waits \cup {"commit.traffic", "commit.receipt"})
        /\ "ROLLBACK" \in CallStates["rollback.host"]
    BY DEF CallStates, Waits
  <2> QED  BY <1>0, <1>1, <1>10, <2>1, PlanMoves, Zenon DEF A!Rollback
<1> QED  BY <1>2, <1>3, <1>4, <1>5, <1>6, <1>7, <1>8, <1>9, <1>10

\* The calls of the manager that leave the gate alone.
LEMMA ManagerCalls ==
    ASSUME PlanTyped, CallFits, UNCHANGED gate, at = "idle",
           A!StoreStep \/ \E p \in Plans : A!PlanInsert(p) \/ A!Commit(p, PredGeneration[p])
    PROVE  CoordinatorStep
<1> USE DEF A!Goto, A!Done, A!Idle
<1>0. UNCHANGED vars
  BY Zenon DEF gate, vars
<1>1. \A label \in {"prepare.host", "launch.host", "lease.lost", "rollback.host"} :
         label \in DOMAIN CallStates \ (Waits \cup {"commit.traffic", "commit.receipt"})
  BY DEF CallStates, Waits
<1>2. /\ "PREPARING" \in CallStates["prepare.host"] /\ "LAUNCHING" \in CallStates["launch.host"]
      /\ "DEGRADED" \in CallStates["lease.lost"] /\ "ROLLBACK" \in CallStates["rollback.host"]
  BY DEF CallStates
<1>3. ASSUME NEW p \in Plans,
             A!Prepare(p) \/ A!Launch(p) \/ A!ExternalLeaseLost(p) \/ A!Rollback(p)
      PROVE  CoordinatorStep
  BY <1>0, <1>1, <1>2, <1>3, PlanMoves, Zenon
  DEF A!Prepare, A!Launch, A!ExternalLeaseLost, A!Rollback
<1>4. ASSUME NEW p \in Plans, A!ResumeObserving(p) PROVE CoordinatorStep
  BY <1>0, <1>4, PlanMoves, Zenon DEF A!ResumeObserving, A!call
<1>5. CASE UNCHANGED <<generation, committed, activation, pc, cur>>
  BY <1>0, <1>5, PlanStays, Zenon
<1>6. ASSUME NEW p \in Plans, A!PlanInsert(p) PROVE CoordinatorStep
  <2>1. activation' = [activation EXCEPT ![p] = "PLANNED"] /\ pc' = "plan.traffic" /\ cur' = p
        /\ UNCHANGED <<generation, committed>>
    BY <1>6, Zenon DEF A!PlanInsert
  <2>2. PlanTyped' /\ activation'[p] = "PLANNED"
    BY <2>1, Zenon DEF PlanTyped, A!State
  <2>3. \A q \in Plans : activation'[q] = "PLANNED"
    BY <2>2, OnePlan, Zenon
  <2>4. "plan.traffic" \in DOMAIN CallStates /\ "plan.traffic" \notin Waits
        /\ "PLANNED" \in CallStates["plan.traffic"]
    BY DEF CallStates, Waits
  <2> QED  BY <1>0, <2>1, <2>2, <2>3, <2>4, Zenon DEF CoordinatorStep, CallMoves, Claims, Settles
<1>7. ASSUME NEW p \in Plans, A!Commit(p, PredGeneration[p]) PROVE CoordinatorStep
  <2>1. /\ A!Transition(p, "COMMIT_READY") /\ pc' = "commit.traffic" /\ cur' = p
        /\ generation' = PredGeneration[p] + 1 /\ committed' = committed \cup {p}
    BY <1>7 DEF A!Commit, A!GenerationIs
  <2>2. PlanTyped' /\ activation'[p] = "COMMIT_READY"
    BY <2>1, TransitionFacts, Zenon
  <2>3. \A q \in Plans : activation'[q] = "COMMIT_READY"
    BY <2>2, OnePlan, Zenon
  <2>4. "commit.traffic" \in DOMAIN CallStates /\ "commit.traffic" \notin Waits
        /\ "COMMIT_READY" \in CallStates["commit.traffic"]
    BY Zenon DEF CallStates, Waits
  <2>5. Claims
    BY <2>1, Zenon DEF Claims
  <2> QED  BY <1>0, <2>1, <2>2, <2>3, <2>4, <2>5, Zenon DEF CoordinatorStep, CallMoves, Settles
<1>8. CASE A!LaunchReceipt \/ A!LeaseFallback \/ A!RollbackHost
  BY <1>8, CoordinatorContinues, Zenon
<1>9. ASSUME NEW p \in Plans, NEW n \in Nonces, NEW w \in Procs, A!Observe(p, n, w)
      PROVE  CoordinatorStep
  BY <1>5, <1>9, Zenon DEF A!Observe, A!call
<1>10. ASSUME NEW p \in Plans, NEW inv, A!RefreshInventory(p, inv) PROVE CoordinatorStep
  BY <1>5, <1>10, Zenon DEF A!RefreshInventory, A!call
<1>11. ASSUME NEW n \in Nonces, A!ExpireEvidence(n) PROVE CoordinatorStep
  BY <1>5, <1>11, Zenon DEF A!ExpireEvidence, A!call
<1> QED  BY <1>3, <1>4, <1>6, <1>7, <1>8, <1>9, <1>10, <1>11, Zenon DEF A!StoreStep

\* The coordinator's steps on what the gate has returned.
LEMMA CoordinatorDecides ==
    ASSUME PlanTyped, CallFits, UNCHANGED gate,
           RollbackFirst \/ RollbackSecond \/ RecoverCommit \/ RecoverRestored
           \/ RecoverRollback \/ RecoverClosed
    PROVE  CoordinatorStep \/ GateStart
<1>0. UNCHANGED vars
  BY DEF gate, vars
<1>1. /\ pc \in {"rollback.first", "rollback.second", "recover.commit", "recover.restore",
                 "recover.rollback", "recover.closing"}
      /\ cur \in Plans /\ at = "idle" /\ activation[cur] \in CallStates[pc]
  BY Zenon DEF RollbackFirst, RollbackSecond, RecoverCommit, RecoverRestored, RecoverRollback,
     RecoverClosed, Returned, Idle, CallFits
<1>2. CASE Stay
  BY <1>0, <1>1, <1>2, PlanStays, Zenon DEF Stay, store, A!Done
<1>3. ASSUME NEW t, A!Conclude(cur, t), t # "EFFECTIVE",
             t = "ROLLED_BACK" =>
                \/ pc \in {"rollback.first", "rollback.second"} /\ ret \notin Refusals
                \/ pc \in {"recover.rollback", "recover.closing"} /\ ret = "ROLLED_BACK"
      PROVE  CoordinatorStep
  BY <1>0, <1>1, <1>3, PlanMoves, Zenon DEF A!Conclude, A!Done
<1>4. ConcludeTarget(ret) # "EFFECTIVE"
      /\ (ConcludeTarget(ret) = "ROLLED_BACK" =>
             ret \notin Refusals /\ host_receipt[cur] # "error")
  BY Zenon DEF ConcludeTarget, Refusals
<1>5. CASE RollbackFirst /\ A!Conclude(cur, ConcludeTarget(ret))
  BY <1>3, <1>4, <1>5, Zenon DEF RollbackFirst, Returned
<1>6. CASE RollbackSecond
  BY <1>3, <1>4, <1>6, Zenon DEF RollbackSecond, Returned
<1>7. ASSUME NEW t, RecoverTo(t), t # "ROLLED_BACK",
             t = "EFFECTIVE" => pc = "recover.commit" /\ ret = "CANDIDATE_OPEN"
      PROVE  CoordinatorStep
  BY <1>0, <1>1, <1>7, PlanMoves, Zenon DEF RecoverTo, A!Done
<1>8. CASE RecoverRestored
  BY <1>2, <1>7, <1>8, Zenon DEF RecoverRestored
<1>9. CASE RecoverClosed
  <2>1. CASE A!Conclude(cur, ret)
    <3>1. activation[cur] = "ROLLBACK" /\ pc = "recover.closing"
      BY <1>1, <1>9 DEF RecoverClosed, Returned, CallStates
    <3>2. ret # "EFFECTIVE"
      BY <1>1, <2>1, <3>1, TransitionFacts, Zenon DEF A!Conclude
    <3> QED  BY <1>3, <2>1, <3>1, <3>2
  <2> QED  BY <1>2, <1>9, <2>1, Zenon DEF RecoverClosed
<1>10. CASE RecoverRollback /\ ~(FailClose /\ A!Goto("recover.closing", cur))
  <2>1. CASE ret # "error" /\ A!Conclude(cur, ConcludeTarget(ret))
             /\ (ret \in {"SAFETY_UNKNOWN", "FAILED_SAFE", "ROLLED_BACK"}
                 \/ host_receipt[cur] = "error")
    BY <1>3, <1>4, <1>10, <2>1, Zenon DEF RecoverRollback, Returned, Refusals
  <2> QED  BY <1>2, <1>10, <2>1, Zenon DEF RecoverRollback
<1>11. CASE RecoverCommit /\ ~Rollback(FALSE)
  BY <1>2, <1>7, <1>11, Zenon DEF RecoverCommit, Returned
<1>12. ~FailClose
  BY <1>1, Zenon DEF FailClose, Goto, gate
<1>13. ~Rollback(FALSE)
  BY <1>1, Zenon DEF Rollback, Goto, gate
<1> QED  BY <1>5, <1>6, <1>8, <1>9, <1>10, <1>11, <1>12, <1>13 DEF RollbackFirst

\* The steps that start a call of the gate.
LEMMA GateStarts ==
    ASSUME PlanTyped, CallFits,
           \/ PlanStage \/ PrepareGate \/ CommitGate \/ RollbackGate
           \/ \E p \in Plans : Recover(p)
           \/ RollbackFirst /\ FailClose /\ A!Goto("rollback.second", cur) /\ UNCHANGED store
           \/ RecoverCommit /\ Rollback(FALSE) /\ A!Goto("recover.restore", cur) /\ UNCHANGED store
           \/ RecoverRollback /\ FailClose /\ A!Goto("recover.closing", cur) /\ UNCHANGED store
    PROVE  GateStart
<1> USE DEF A!Goto, A!Done, A!Idle
<1>1. UNCHANGED store
  BY Zenon DEF PlanStage, PrepareGate, CommitGate, RollbackGate, Recover
<1>2. at = "idle"
  BY Zenon
  DEF PlanStage, PrepareGate, CommitGate, RollbackGate, Recover, RollbackFirst, RecoverCommit,
     RecoverRollback, Returned, Idle, Reconcile, Rollback, CallFits, GateLabels
<1>3. CASE PlanStage
  <2>1. pc = "plan.traffic" /\ cur \in Plans /\ activation[cur] = "PLANNED"
    BY <1>3 DEF PlanStage, CallFits, CallStates
  <2>2. "plan.undo" \in DOMAIN CallStates /\ "PLANNED" \in CallStates["plan.undo"]
    BY DEF CallStates
  <2> QED  BY <1>1, <1>2, <1>3, <2>1, <2>2, Zenon DEF PlanStage, GateStart
<1>4. CASE PrepareGate
  <2>1. pc = "prepare.traffic" /\ cur \in Plans /\ activation[cur] = "PREPARED"
    BY <1>4, Zenon DEF PrepareGate, CallFits, CallStates
  <2>2. "prepare.closing" \in DOMAIN CallStates /\ "PREPARED" \in CallStates["prepare.closing"]
    BY Zenon DEF CallStates
  <2> QED  BY <1>1, <1>2, <1>4, <2>1, <2>2, Zenon DEF PrepareGate, GateStart
<1>5. CASE CommitGate
  <2>1. pc = "commit.traffic" /\ cur \in Plans /\ activation[cur] = "COMMIT_READY"
    BY <1>5 DEF CommitGate, CallFits, CallStates
  <2>2. "commit.opening" \in DOMAIN CallStates /\ "COMMIT_READY" \in CallStates["commit.opening"]
    BY DEF CallStates
  <2> QED  BY <1>1, <1>2, <1>5, <2>1, <2>2, Zenon DEF CommitGate, GateStart
<1>6. \A label \in {"rollback.first", "rollback.second", "recover.rollback", "recover.closing"} :
         label \in DOMAIN CallStates /\ CallStates[label] = {"ROLLBACK"}
  BY DEF CallStates
<1>7. CASE RollbackGate
  <2>1. pc = "rollback.traffic" /\ cur \in Plans /\ activation[cur] = "ROLLBACK"
    BY <1>7, Zenon DEF RollbackGate, CallFits, CallStates
  <2> QED  BY <1>1, <1>2, <1>6, <1>7, <2>1, Zenon DEF RollbackGate, GateStart
<1>8. CASE RollbackFirst /\ FailClose /\ A!Goto("rollback.second", cur)
  <2>1. pc = "rollback.first" /\ cur \in Plans /\ activation[cur] = "ROLLBACK"
    BY <1>6, <1>8, Zenon DEF RollbackFirst, Returned, CallFits
  <2> QED  BY <1>1, <1>2, <1>6, <1>8, <2>1, Zenon DEF GateStart
<1>9. CASE RecoverRollback /\ FailClose /\ A!Goto("recover.closing", cur)
  <2>1. pc = "recover.rollback" /\ cur \in Plans /\ activation[cur] = "ROLLBACK"
    BY <1>6, <1>9, Zenon DEF RecoverRollback, Returned, CallFits
  <2> QED  BY <1>1, <1>2, <1>6, <1>9, <2>1, Zenon DEF GateStart
<1>10. /\ "recover.restore" \in DOMAIN CallStates /\ "recover.commit" \in DOMAIN CallStates
       /\ {"PREPARING", "LAUNCHING", "OBSERVING", "COMMIT_READY"} \subseteq
             CallStates["recover.restore"]
       /\ CallStates["recover.commit"] = {"COMMIT_READY"}
  BY Zenon DEF CallStates
<1>11. CASE RecoverCommit /\ Rollback(FALSE) /\ A!Goto("recover.restore", cur)
  <2>1. pc = "recover.commit" /\ cur \in Plans /\ activation[cur] = "COMMIT_READY"
    BY <1>10, <1>11, Zenon DEF RecoverCommit, Returned, CallFits
  <2> QED  BY <1>1, <1>2, <1>10, <1>11, <2>1, Zenon DEF GateStart
<1>12. ASSUME NEW p \in Plans, Recover(p) PROVE GateStart
  <2>1. activation[p] \notin {"EFFECTIVE", "ROLLED_BACK"} /\ pc = "idle"
    BY <1>12, Zenon DEF Recover
  <2>2. \A q \in Plans : activation[q] \notin {"EFFECTIVE", "ROLLED_BACK"}
    BY <2>1, OnePlan, Zenon
  <2> QED  BY <1>1, <1>2, <1>6, <1>10, <1>12, <2>1, <2>2, Zenon DEF Recover, GateStart
<1> QED  BY <1>3, <1>4, <1>5, <1>7, <1>8, <1>9, <1>11, <1>12, Zenon

\* Every step is the coordinator's alone, the start of a gate call, the gate's alone, or
\* a restart.
LEMMA EveryGatedStep ==
    ASSUME PlanTyped, CallFits, GatedNext
    PROVE  CoordinatorStep \/ GateStart \/ GateAlone \/ Restart
<1>1. CASE PlanStage \/ PrepareGate \/ CommitGate \/ RollbackGate \/ \E p \in Plans : Recover(p)
  BY <1>1, GateStarts, Zenon
<1>2. CASE \/ PlanUndo \/ PrepareClosed \/ CommitOpened
           \/ /\ A!PrepareReceipt(TRUE) \/ A!LaunchReceipt \/ A!CommitReceipt \/ A!LeaseFallback
                 \/ A!RollbackHost \/ (pc = "lease.lost" /\ A!Rollback(cur))
              /\ UNCHANGED gate
  BY <1>2, CoordinatorContinues, Zenon
<1>3. CASE RollbackFirst
  BY <1>3, CoordinatorDecides, GateStarts, Zenon DEF RollbackFirst
<1>4. CASE RollbackSecond
  BY <1>4, CoordinatorDecides, Zenon DEF RollbackSecond
<1>5. CASE RecoverCommit
  BY <1>5, CoordinatorDecides, GateStarts, Zenon DEF RecoverCommit, RecoverTo, Stay, gate
<1>6. CASE RecoverRestored
  BY <1>6, CoordinatorDecides, Zenon DEF RecoverRestored, RecoverTo, Stay, gate
<1>7. CASE RecoverRollback
  BY <1>7, CoordinatorDecides, GateStarts, Zenon DEF RecoverRollback, Stay
<1>8. CASE RecoverClosed
  BY <1>8, CoordinatorDecides, Zenon DEF RecoverClosed, Stay
<1>9. CASE (Continue /\ UNCHANGED <<store, pc, cur>>) \/ GateTraffic \/ GateEnvironment
  BY <1>9, Zenon DEF GateAlone, GateTraffic, GateEnvironment, A!Idle
<1>10. CASE Manage
  BY <1>1, <1>10, ManagerCalls, Zenon DEF Manage, Idle
<1> QED
  BY <1>1, <1>2, <1>3, <1>4, <1>5, <1>6, <1>7, <1>8, <1>9, <1>10, Zenon
  DEF GatedNext, GatedContinue

\* The gate's part of a step is a step of the gate, or nothing.
LEMMA GatedIsStep ==
    ASSUME TypeOK, CoordinatorStep \/ GateStart \/ GateAlone \/ Restart
    PROVE  Step \/ UNCHANGED vars
<1>1. CASE Restart
  BY <1>1, Zenon DEF Restart, Step, Dies, db, lease
<1>2. CASE GateStart
  BY <1>2, Zenon DEF GateStart, Step, TypeOK
<1>3. CASE GateAlone
  BY <1>3, Zenon DEF GateAlone, Step
<1> QED  BY <1>1, <1>2, <1>3, Zenon DEF CoordinatorStep

-----------------------------------------------------------------------------
(* The invariant of the coordinator and the gate together.                   *)

Claimed ==
    /\ committed \subseteq Plans
    /\ committed # {} => \A p \in Plans : generation = PredGeneration[p] + 1
    /\ pc = "commit.traffic" => cur \in committed

Exposing == {"OPENING", "CANDIDATE_OPEN", "DRAINING"}

Unexposed ==
    committed = {} =>
        /\ route.generation # "cand" /\ row.state \notin Exposing
        /\ \A r \in Requests : admissions[r].generation # "cand"

Returns ==
    at = "idle" =>
        /\ pc = "commit.opening" /\ ret = "ok" => row.state \in Opened
        /\ pc = "recover.commit" /\ ret = "CANDIDATE_OPEN" => row.state \in Opened
        /\ pc \in {"rollback.second", "recover.closing"} => ret \in Refusals

Effective ==
    (\E p \in Plans : activation[p] = "EFFECTIVE") \/ pc = "commit.receipt" =>
        row.state \in Opened

\* No call of the coordinator lets a behaviourally equivalent predecessor pass.
NoBehavioral ==
    /\ at = "rollback.restore" => arg # "equivalent"
    /\ at = "rollback.receipt" => arg # "BEHAVIORAL"

Restores == row.state = "ROLLED_BACK" /\ route = PredRoute

Undone ==
    \/ PendingLast("fail_close") \/ PendingLast("rollback")
    \/ PendingEver("open-reconcile-close")

RestoredInv ==
    /\ row.state = "ROLLED_BACK" /\ route # PredRoute => Undone
    /\ pc = "rollback.first" /\ at = "idle" => ret \in Refusals \/ Restores
    /\ pc = "recover.rollback" /\ at = "idle" /\ ret = "ROLLED_BACK" => Restores
    /\ \A p \in Plans : activation[p] = "ROLLED_BACK" => Restores

\* The labels of the gate fit the label of the coordinator.
LEMMA CallFitsStep ==
    ASSUME IInv, OracleInv, CallFits,
           CoordinatorStep \/ GateStart \/ GateAlone \/ Restart
    PROVE  CallFits'
<1>0. \A label : "idle" \in GateLabels(label)
  BY DEF GateLabels
<1>1. CASE CoordinatorStep
  <2>1. at' = "idle" /\ "idle" \notin FailCloseLabels
    BY <1>1, Zenon DEF CoordinatorStep, vars, FailCloseLabels
  <2> QED  BY <1>0, <1>1, <2>1 DEF CoordinatorStep, CallMoves, CallFits, GateLabels
<1>2. CASE Restart
  BY <1>0, <1>2, Zenon DEF Restart, A!Boot, A!Done, CallFits, FailCloseLabels, GateLabels
<1>3. CASE GateStart
  <2>1. at' \in GateLabels(pc') /\ (pc' = "idle" => at' = "idle")
    <3> USE DEF GateLabels, FailCloseLabels, RollbackLabels, Return, Goto
    <3>1. CASE Stage \/ Refused
      BY <1>3, <3>1, Zenon DEF GateStart, Stage, Refused
    <3>2. CASE Close /\ pc' = "prepare.closing"
      BY <3>2, Zenon DEF Close
    <3>3. CASE Open(TRUE, grant) /\ pc' = "commit.opening"
      BY <3>3, OpenReturns, Zenon
    <3>4. CASE Rollback(FALSE) /\ pc' \in {"rollback.first", "recover.restore"}
      BY <3>4 DEF Rollback
    <3>5. CASE FailClose /\ pc' \in {"rollback.first", "rollback.second", "recover.closing"}
      BY <3>5, Zenon DEF FailClose
    <3>6. CASE Reconcile /\ pc' \in {"recover.rollback", "recover.commit"}
      BY <3>6, ReconcileReturns, Zenon DEF IInv
    <3> QED  BY <1>3, <3>1, <3>2, <3>3, <3>4, <3>5, <3>6, Zenon DEF GateStart
  <2>2. "idle" \notin FailCloseLabels /\ activation' = activation
    BY <1>3, Zenon DEF FailCloseLabels, GateStart, store
  <2> QED  BY <1>3, <2>1, <2>2, Zenon DEF GateStart, CallFits, GateLabels
<1>4. CASE GateAlone
  <2>0. pc' = pc /\ cur' = cur /\ activation' = activation
    BY <1>4, Zenon DEF GateAlone, store
  <2>1. at' \in GateLabels(pc) /\ (pc = "idle" /\ at' \in FailCloseLabels => row'.state \in PreOpen)
    <3>1. CASE Continue
      <4>1. ContinueStep /\ at \in GateLabels(pc)
        BY <3>1, EveryContinueStep, Zenon DEF CallFits
      <4>2. at' \in GateLabels(pc)
        BY <4>1 DEF ContinueStep, GateLabels, FailCloseLabels, RollbackLabels, RecoveryLabels
      <4>3. ASSUME pc = "idle", at' \in FailCloseLabels PROVE row'.state \in PreOpen
        <5>1. at \in FailCloseLabels /\ at' # "idle"
          BY <4>1, <4>3, Zenon DEF ContinueStep, GateLabels, FailCloseLabels
        <5> QED  BY <4>1, <4>3, <5>1, Zenon DEF ContinueStep, CallFits
      <4> QED  BY <4>2, <4>3, Zenon
    <3>2. CASE Drift \/ Expire \/ Supersede
      BY <3>2, Zenon DEF Drift, Expire, Supersede, call, db, CallFits
    <3>3. CASE pc = "idle" /\ Traffic
      BY <3>3, Zenon DEF Traffic, Observe, Finish, ContinuityLost, Return, Goto, GateLabels,
         FailCloseLabels, db
    <3>4. CASE pc = "idle" /\ Drain
      BY <3>4, Zenon DEF Drain, Return, Goto, GateLabels, FailCloseLabels
    <3> QED  BY <1>4, <3>1, <3>2, <3>3, <3>4, Zenon DEF GateAlone
  <2> QED  BY <2>0, <2>1, Zenon DEF CallFits, GateLabels
<1> QED  BY <1>1, <1>2, <1>3, <1>4

\* A commit that reaches the gate has claimed the generation.
LEMMA ClaimedStep ==
    ASSUME Claimed, CoordinatorStep \/ GateStart \/ GateAlone \/ Restart
    PROVE  Claimed' /\ (committed' = {} => committed = {})
<1>1. CASE UNCHANGED <<generation, committed>> /\
           (pc' = "commit.traffic" => pc' = pc /\ cur' = cur)
  BY <1>1, Zenon DEF Claimed
<1>2. ASSUME NEW p \in Plans, generation' = PredGeneration[p] + 1,
             committed' = committed \cup {p}, cur' = p
      PROVE  Claimed' /\ (committed' = {} => committed = {})
  <2>1. \A q \in Plans : q = p
    BY OnePlan
  <2> QED  BY <1>2, <2>1, Zenon DEF Claimed
<1>3. CASE GateStart \/ GateAlone \/ Restart
  BY <1>1, <1>3, Zenon DEF GateStart, GateAlone, Restart, store, A!Boot, A!Done
<1> QED  BY <1>1, <1>2, <1>3, Zenon DEF CoordinatorStep, Claims

\* Without a committed plan nothing exposes the candidate.
LEMMA UnexposedStep ==
    ASSUME IInv, LabelInv, Claimed, Unexposed,
           CoordinatorStep \/ GateStart \/ GateAlone \/ Restart
    PROVE  Unexposed'
<1> SUFFICES ASSUME committed' = {}
             PROVE  /\ route'.generation # "cand" /\ row'.state \notin Exposing
                    /\ \A r \in Requests : admissions'[r].generation # "cand"
  BY Zenon DEF Unexposed
<1>1. /\ committed = {} /\ route.generation # "cand" /\ row.state \notin Exposing
      /\ \A r \in Requests : admissions[r].generation # "cand"
  BY ClaimedStep, Zenon DEF Unexposed
<1>2. CASE UNCHANGED vars
  BY <1>1, <1>2, Zenon DEF vars
<1>3. CASE Step
  <2>0. TypeOK /\ DbStep /\ AdmissionStep
    BY <1>3, EveryDbStep, EveryAdmissionStep, Zenon DEF IInv
  <2>1. at # "open.effect"
    BY <1>1, Zenon DEF LabelInv, OpeningLabels, Exposing
  <2>2. route'.generation # "cand"
    BY <1>1, <1>3, <2>0, <2>1, CandidateByOpen, Zenon
  <2>3. row'.state # "OPENING"
    <3> SUFFICES ASSUME row'.state = "OPENING" PROVE FALSE
      OBVIOUS
    <3>1. PICK fits \in BOOLEAN, l \in Leases : Open(fits, l)
      BY <1>1, <1>3, OpeningByOpen, Zenon DEF Exposing
    <3>2. at = "idle" /\ at' = "open.effect"
      <4>1. row' # row
        BY <1>1, Zenon DEF Exposing
      <4> QED  BY <3>1, <4>1, Zenon DEF Open, db, Idle, Goto
    <3>3. pc = "commit.traffic"
      <4>1. ~Restart /\ ~CoordinatorStep
        BY <3>2, Zenon DEF Restart, CoordinatorStep, vars
      <4>2. ~GateAlone
        <5>1. ~Continue
          BY <3>2, Zenon
          DEF Continue, CloseEffect, CloseReceipt, OpenEffect, OpenReceipt, DrainReceipt,
             FailCloseEffect, FailCloseReceipt, RollbackRestore, RollbackCloseAll,
             RollbackReceipt, RecoverEffect, RecoverReceipt, RecoverVerdict, RecoverAgainEffect,
             RecoverAgainReceipt
        <5>2. ~Traffic /\ ~Drain
          BY <3>2, Zenon DEF Traffic, Observe, Finish, Drain, Return, Goto
        <5>3. ~Drift /\ ~Expire /\ ~Supersede
          BY <3>2, Zenon DEF Drift, Expire, Supersede, call
        <5> QED  BY <5>1, <5>2, <5>3, Zenon DEF GateAlone
      <4>3. ~Stage /\ ~Refused /\ ~Close /\ ~Rollback(FALSE) /\ ~FailClose
        BY <3>2, Zenon DEF Stage, Refused, Close, Rollback, FailClose, Return, Goto
      <4>4. ~Reconcile
        BY <2>0, <3>2, ReconcileReturns, Zenon DEF RecoveryLabels
      <4> QED  BY <4>1, <4>2, <4>3, <4>4, Zenon DEF GateStart
    <3> QED  BY <1>1, <3>3, Zenon DEF Claimed
  <2>4. row'.state \notin Exposing
    <3>1. CASE Staged
      BY <1>1, <2>0, <2>3, <3>1, RowStepFacts, Zenon DEF Exposing, Opened
    <3>2. CASE ~Staged
      BY <1>1, <2>0, <3>2, Zenon DEF DbStep, RowStep, Exposing
    <3> QED  BY <3>1, <3>2, Zenon
  <2>5. ASSUME NEW r \in Requests PROVE admissions'[r].generation # "cand"
    <3>0. admissions \in [Requests -> AdmissionType] /\ admissions[r] \in AdmissionType
      BY <2>0, Zenon DEF TypeOK
    <3>1. CASE admissions' = admissions
      BY <1>1, <3>1, Zenon
    <3>2. ASSUME NEW q \in Requests, AdmitTo(q) PROVE admissions'[r].generation # "cand"
      BY <1>1, <3>0, <3>2, Zenon DEF AdmitTo
    <3>3. ASSUME NEW q \in Requests, Finishes(q) PROVE admissions'[r].generation # "cand"
      BY <1>1, <3>0, <3>3, Zenon DEF Finishes, AdmissionType
    <3> QED  BY <2>0, <3>1, <3>2, <3>3, Zenon DEF AdmissionStep, Admits
  <2> QED  BY <2>2, <2>4, <2>5, Zenon
<1> QED  BY <1>2, <1>3, GatedIsStep, Zenon DEF IInv

\* What the gate has returned to the coordinator goes on being true while it is looked at.
LEMMA ReturnsStep ==
    ASSUME IInv, OracleInv, CallFits, Returns,
           CoordinatorStep \/ GateStart \/ GateAlone \/ Restart
    PROVE  Returns'
<1> SUFFICES ASSUME at' = "idle"
             PROVE  /\ pc' = "commit.opening" /\ ret' = "ok" => row'.state \in Opened
                    /\ pc' = "recover.commit" /\ ret' = "CANDIDATE_OPEN" => row'.state \in Opened
                    /\ pc' \in {"rollback.second", "recover.closing"} => ret' \in Refusals
  BY DEF Returns
<1>1. CASE UNCHANGED <<pc, at, ret, row>>
  BY <1>1 DEF Returns
<1>2. CASE Restart
  BY <1>2, Zenon DEF Restart, A!Boot, A!Done
<1>3. CASE CoordinatorStep
  <2>1. UNCHANGED <<at, ret, row>> /\ (pc' # pc => pc' \notin Waits)
    BY <1>3, Zenon DEF CoordinatorStep, vars, CallMoves
  <2> QED  BY <1>1, <2>1, Zenon DEF Waits
<1>4. CASE GateStart
  <2>1. CASE pc' = "commit.opening"
    <3>1. Open(TRUE, grant)
      BY <1>4, <2>1, Zenon DEF GateStart
    <3> QED  BY <2>1, <3>1, OpenReturns, Zenon DEF Opened
  <2>2. CASE pc' = "recover.commit"
    <3>1. Reconcile
      BY <1>4, <2>2, Zenon DEF GateStart
    <3> QED  BY <2>2, <3>1, ReconcileReturns, Zenon DEF Opened, IInv, Refusals
  <2>3. CASE pc' \in {"rollback.second", "recover.closing"}
    <3>1. Refused \/ FailClose
      BY <1>4, <2>3, Zenon DEF GateStart
    <3>2. ~FailClose
      BY Zenon DEF FailClose, Goto
    <3> QED  BY <2>3, <3>1, <3>2, Zenon DEF Refused, Return, Refusals
  <2> QED  BY <2>1, <2>2, <2>3, Zenon
<1>5. CASE GateAlone
  <2>0. pc' = pc
    BY <1>5, Zenon DEF GateAlone
  <2>1. CASE Continue
    <3>1. ContinueStep /\ at \in GateLabels(pc) /\ at # "idle"
      BY <2>1, EveryContinueStep, Zenon DEF CallFits, ContinueStep
    <3>2. ASSUME at \in FailCloseLabels \cup RecoveryLabels PROVE ret' \in Refusals
      BY <3>1, <3>2, Zenon DEF ContinueStep
    <3>3. CASE pc = "commit.opening"
      <4>1. at \in {"open.effect", "open.query"} \cup FailCloseLabels
        BY <3>1, <3>3 DEF GateLabels
      <4> QED  BY <2>0, <3>1, <3>2, <3>3, <4>1, Zenon DEF ContinueStep, Refusals, Opened
    <3>4. CASE pc \in {"recover.commit", "rollback.second", "recover.closing"}
      <4>1. at \in RecoveryLabels \cup FailCloseLabels
        BY <3>1, <3>4, Zenon DEF GateLabels
      <4> QED  BY <2>0, <3>2, <3>4, <4>1, Zenon DEF Refusals
    <3> QED  BY <2>0, <3>3, <3>4, Zenon
  <2>2. CASE Drift \/ Expire \/ Supersede
    BY <1>1, <2>0, <2>2, Zenon DEF Drift, Expire, Supersede, call, db
  <2>3. CASE pc = "idle"
    BY <2>0, <2>3
  <2> QED  BY <1>5, <2>1, <2>2, <2>3, Zenon DEF GateAlone
<1> QED  BY <1>2, <1>3, <1>4, <1>5

\* A plan with a verdict has no call in progress.
LEMMA NoCall ==
    ASSUME CallFits, NEW p \in Plans, activation[p] \in {"EFFECTIVE", "ROLLED_BACK"}
    PROVE  pc = "idle"
<1> SUFFICES ASSUME pc # "idle" PROVE FALSE
  OBVIOUS
<1>1. cur \in Plans /\ pc \in DOMAIN CallStates /\ activation[cur] \in CallStates[pc]
  BY DEF CallFits
<1>2. \A label \in DOMAIN CallStates :
         "EFFECTIVE" \notin CallStates[label] /\ "ROLLED_BACK" \notin CallStates[label]
  BY DEF CallStates
<1> QED  BY <1>1, <1>2, OnePlan, Zenon

\* Between the coordinator's calls the gate's state moves only by drain and its receipt.
LEMMA AloneStep ==
    ASSUME IInv, CallFits, GateAlone, row.state \in Opened \cup {"ROLLED_BACK"},
           pc = "idle" \/ at = "idle"
    PROVE  /\ row.state \in Opened => row'.state \in Opened
           /\ row.state = "ROLLED_BACK" => row'.state = "ROLLED_BACK"
           /\ ~MayDrift => route' = route
<1>0. row \in Row /\ TypeOK /\ row.state \notin PreOpen
  BY DEF IInv, TypeOK, Opened, PreOpen
<1>1. at \in {"idle", "drain.count", "observe.finish"}
  BY <1>0 DEF CallFits, GateLabels
<1>2. CASE Continue
  <2>1. \/ DrainReceipt
        \/ \E r \in Requests : Finish(r)
    BY <1>1, <1>2, Zenon DEF Continue, CloseEffect, CloseReceipt, OpenEffect, OpenReceipt,
       FailCloseEffect, FailCloseReceipt, RollbackRestore, RollbackCloseAll,
       RollbackReceipt, RecoverEffect, RecoverReceipt, RecoverVerdict, RecoverAgainEffect,
       RecoverAgainReceipt
  <2>2. CASE DrainReceipt
    <3>1. row.state = "DRAINING"
      BY <2>2 DEF DrainReceipt, IInv, DrainCounts
    <3>2. row'.state \in {"DRAINING", "CANDIDATE_OPEN"}
      BY <1>0, <2>2, <3>1, Zenon DEF DrainReceipt, MoveOrRaise, Move, db, Row
    <3> QED  BY <2>2, <3>1, <3>2, Zenon DEF DrainReceipt, Opened
  <2> QED  BY <2>1, <2>2 DEF Finish, db
<1>3. CASE Drift \/ Expire \/ Supersede
  BY <1>3 DEF Drift, Expire, Supersede, db
<1>4. CASE Traffic
  BY <1>4, Zenon DEF Traffic, Observe, Finish, db
<1>5. CASE Drain
  <2>1. row'.state = row.state \/ (row'.state = "DRAINING" /\ CanMove("DRAINING"))
    BY <1>0, <1>5, Zenon DEF Drain, Move, db, Row
  <2>2. row.state = "ROLLED_BACK" => ~CanMove("DRAINING")
    BY DEF CanMove, Allowed, GateState, Terminal
  <2> QED  BY <1>5, <2>1, <2>2, Zenon DEF Drain, Opened
<1> QED  BY <1>2, <1>3, <1>4, <1>5, Zenon DEF GateAlone

\* An effective plan's gate is and stays open.
LEMMA EffectiveStep ==
    ASSUME IInv, PlanTyped, CallFits, Returns, Effective,
           CoordinatorStep \/ GateStart \/ GateAlone \/ Restart
    PROVE  Effective'
<1> SUFFICES ASSUME (\E p \in Plans : activation'[p] = "EFFECTIVE") \/ pc' = "commit.receipt"
             PROVE  row'.state \in Opened
  BY Zenon DEF Effective
<1>1. CASE CoordinatorStep
  <2>1. row' = row /\ at = "idle" /\ CallMoves /\ Settles
    BY <1>1, Zenon DEF CoordinatorStep, vars
  <2>2. ASSUME NEW p \in Plans, activation'[p] = "EFFECTIVE" PROVE row.state \in Opened
    BY <2>1, <2>2, Zenon DEF Settles, Effective, Returns
  <2>3. ASSUME pc' = "commit.receipt" PROVE row.state \in Opened
    BY <2>1, <2>3, Zenon DEF CallMoves, Effective, Returns
  <2> QED  BY <2>1, <2>2, <2>3
<1>2. CASE Restart
  BY <1>2, Zenon DEF Restart, A!Boot, A!Done, Effective
<1>3. CASE GateStart
  <2>1. activation' = activation /\ pc' # "commit.receipt"
    BY <1>3, Zenon DEF GateStart, store
  <2>2. PICK p \in Plans : activation[p] = "EFFECTIVE"
    BY <2>1
  <2> QED  BY <1>3, <2>2, NoCall, Zenon DEF GateStart
<1>4. CASE GateAlone
  <2>1. activation' = activation /\ pc' = pc
    BY <1>4, Zenon DEF GateAlone, store
  <2>2. row.state \in Opened
    BY <2>1, Zenon DEF Effective
  <2>3. pc = "idle" \/ at = "idle"
    <3>1. CASE pc = "commit.receipt"
      BY <3>1, Zenon DEF CallFits, GateLabels
    <3> QED  BY <2>1, <3>1, NoCall
  <2> QED  BY <1>4, <2>2, <2>3, AloneStep
<1> QED  BY <1>1, <1>2, <1>3, <1>4

\* The coordinator never asks for a behaviourally equivalent restore.
LEMMA NoBehavioralStep ==
    ASSUME NoBehavioral, CoordinatorStep \/ GateStart \/ GateAlone \/ Restart, TypeOK
    PROVE  NoBehavioral'
<1> USE DEF Return, Goto
<1>1. CASE at' \notin {"rollback.restore", "rollback.receipt"}
  BY <1>1, Zenon DEF NoBehavioral
<1>2. CASE at' = at /\ arg' = arg
  BY <1>2, Zenon DEF NoBehavioral
<1>3. CASE RollbackRestore
  BY <1>3, Zenon DEF RollbackRestore, NoBehavioral
<1>4. CASE RollbackCloseAll
  BY <1>4, Zenon DEF RollbackCloseAll, NoBehavioral
<1>5. CASE Rollback(FALSE)
  BY <1>5, Zenon DEF Rollback, NoBehavioral
<1>6. CASE CoordinatorStep \/ Restart \/ Drift \/ Expire \/ Supersede
  BY <1>1, <1>2, <1>6, Zenon DEF CoordinatorStep, Restart, Drift, Expire, Supersede, vars, call
<1>7. CASE Stage \/ Refused \/ Close \/ Open(TRUE, grant) \/ FailClose \/ Drain \/ Traffic
  BY <1>1, <1>7, OpenReturns, Zenon
  DEF Stage, Refused, Close, FailClose, Drain, Traffic, Observe, Finish
<1>8. CASE Reconcile
  BY <1>1, <1>8, ReconcileReturns, Zenon DEF RecoveryLabels
<1>9. CASE Continue
  <2>1. CASE CloseEffect \/ CloseReceipt \/ OpenEffect \/ OpenReceipt \/ DrainReceipt
             \/ FailClose \/ FailCloseEffect \/ RollbackReceipt \/ RecoverVerdict
             \/ RecoverEffect \/ RecoverReceipt
             \/ RecoverAgainEffect \/ RecoverAgainReceipt \/ FailCloseReceipt
    BY <1>1, <2>1, VerdictReturns, Zenon DEF CloseEffect, CloseReceipt, OpenEffect, OpenReceipt,
       DrainReceipt, FailClose, FailCloseEffect, RollbackReceipt, RecoverVerdict, CancelOpen,
       RecoverEffect, RecoverReceipt,
       RecoverAgainEffect, RecoverAgainReceipt, RecoverAgainVerdict, FailCloseReceipt, MoveOrRaise
  <2>2. CASE \E r \in Requests : Finish(r)
    BY <1>1, <2>2, Zenon DEF Finish
  <2> QED  BY <1>3, <1>4, <1>9, <2>1, <2>2, Zenon DEF Continue
<1> QED  BY <1>5, <1>6, <1>7, <1>8, <1>9, Zenon DEF GateStart, GateAlone

\* A recovery close that was never confirmed stays so until its receipt.
LEMMA PendingEverKept ==
    ASSUME log \in Seq(EntryType), NEW e \in EntryType, log' = Append(log, e),
           NEW id, PendingEver(id), e.kind = "receipt" => e.operation_id # id
    PROVE  PendingEver(id)'
<1>1. PICK i \in DOMAIN log : log[i].kind = "intent" /\ log[i].operation_id = id
  BY DEF PendingEver, Logged
<1>2. i \in DOMAIN log' /\ log'[i] = log[i]
  OBVIOUS
<1>3. ASSUME NEW j \in DOMAIN log', log'[j].kind = "receipt", log'[j].operation_id = id
      PROVE  FALSE
  <2>1. CASE j \in DOMAIN log
    <3>1. log'[j] = log[j]
      BY <2>1
    <3> QED  BY <1>3, <2>1, <3>1 DEF PendingEver, Logged
  <2>2. CASE j \notin DOMAIN log
    <3>1. log'[j] = e
      BY <2>2
    <3> QED  BY <1>3, <3>1, Zenon
  <2> QED  BY <2>1, <2>2
<1> QED  BY <1>1, <1>2, <1>3 DEF PendingEver, Logged

\* A rolled-back gate that writes to its journal without moving leaves what is undone undone.
LEMMA UndoneKept ==
    ASSUME TypeOK, SeqBound, JournalStep, row' = row, row.state = "ROLLED_BACK", Undone
    PROVE  Undone'
<1>0. /\ log \in Seq(EntryType) /\ Len(log) \in Nat /\ row.transition_seq \in Nat
      /\ row.transition_seq <= Len(log) /\ row \in Row
  BY DEF TypeOK, Row, SeqBound
<1>1. CASE UNCHANGED db
  BY <1>1 DEF db, Undone, PendingLast, PendingEver, Logged
<1>2. ASSUME NEW e, NoteRow(e), log' = Append(log, e) PROVE Undone'
  <2>1. /\ e \in EntryType
        /\ e.kind = "receipt" =>
              e.operation_id \notin {"fail_close", "rollback", "open-reconcile-close"}
    BY <1>2, Zenon DEF NoteRow
  <2> QED  BY <1>0, <1>2, <2>1, PendingKept, PendingEverKept, Zenon DEF Undone
<1>3. row'.transition_seq = row.transition_seq /\ row.transition_seq # Len(log) + 1
      /\ row.transition_seq # Len(log) + 2
  BY <1>0
<1>4. ASSUME NEW target, RecoverAgainVerdict(target) PROVE UNCHANGED db
  BY <1>0, <1>3, <1>4, Zenon DEF RecoverAgainVerdict, Row
<1> QED  BY <1>1, <1>2, <1>3, <1>4, Zenon DEF JournalStep, Writes

\* A gate that is rolled back routes to the predecessor, or an intent says why not.
LEMMA UndoneStep ==
    ASSUME ~MayDrift, IInv, LabelInv, OracleInv, Measured, NoBehavioral, Step,
           row.state = "ROLLED_BACK" /\ route # PredRoute => Undone,
           row'.state = "ROLLED_BACK", route' # PredRoute
    PROVE  Undone'
<1>0. TypeOK /\ DrainCounts /\ SeqBound
  BY Zenon DEF IInv, OracleInv
<1>1. row' = row
  BY <1>0, EveryVerdict, Zenon DEF Verdict, NoBehavioral
<1>2. JournalStep
  BY <1>0, EveryJournalStep, Zenon
<1>3. CASE route' = route
  BY <1>0, <1>1, <1>2, <1>3, UndoneKept, Zenon
<1>4. CASE route' # route
  <2>1. at \in DOMAIN EffectIntent
    BY <1>4, RouteStep, Zenon DEF Drift
  <2>2. at \in {"fail_close.effect", "rollback.restore", "rollback.close_all",
                "recover.again.effect"}
    BY <1>1, <2>1, Zenon DEF EffectIntent, LabelInv, OpeningLabels
  <2>3. Undone
    <3>1. at \in DOMAIN Owes /\ Owes[at] \in {"fail_close", "rollback", "open-reconcile-close"}
      BY <2>2, Zenon DEF Owes
    <3>2. CASE at = "recover.again.effect"
      BY <3>2, Zenon DEF LabelInv, AgainIsPending, Undone
    <3>3. CASE at # "recover.again.effect"
      <4>1. Owes[at] \in {"fail_close", "rollback"}
        BY <2>2, <3>3, Zenon DEF Owes
      <4> QED  BY <3>1, <4>1, Zenon DEF LabelInv, LabelOwes, Undone
    <3> QED  BY <3>2, <3>3, Zenon
  <2> QED  BY <1>0, <1>1, <1>2, <2>3, UndoneKept, Zenon
<1> QED  BY <1>3, <1>4

\* A rolled-back plan's gate has restored exactly the predecessor.
LEMMA RestoredStep ==
    ASSUME ~MayDrift, IInv, LabelInv, OracleInv, Measured, NoBehavioral, CallFits, Returns,
           RestoredInv, CoordinatorStep \/ GateStart \/ GateAlone \/ Restart
    PROVE  RestoredInv'
<1>0. TypeOK
  BY Zenon DEF IInv
<1>1. row'.state = "ROLLED_BACK" /\ route' # PredRoute => Undone'
  <2>1. CASE Step
    BY <2>1, UndoneStep, Zenon DEF RestoredInv
  <2>2. CASE UNCHANGED vars
    BY <2>2 DEF vars, RestoredInv, Undone, PendingLast, PendingEver, Logged
  <2> QED  BY <1>0, <2>1, <2>2, GatedIsStep, Zenon
<1>2. CASE CoordinatorStep
  <2>1. UNCHANGED <<row, route, at, ret>> /\ at = "idle" /\ CallMoves /\ Settles
    BY <1>2, Zenon DEF CoordinatorStep, vars
  <2>2. pc' # pc => pc' \notin {"rollback.first", "recover.rollback"}
    BY <2>1, Zenon DEF CallMoves, Waits
  <2>3. ASSUME NEW p \in Plans, activation'[p] = "ROLLED_BACK" PROVE Restores
    <3>1. CASE activation[p] = "ROLLED_BACK"
      BY <3>1, Zenon DEF RestoredInv
    <3>2. CASE pc \in {"rollback.first", "rollback.second"} /\ ret \notin Refusals
      BY <2>1, <3>2, Zenon DEF RestoredInv, Returns
    <3>3. CASE pc \in {"recover.rollback", "recover.closing"} /\ ret = "ROLLED_BACK"
      BY <2>1, <3>3, Zenon DEF RestoredInv, Returns, Refusals
    <3> QED  BY <2>1, <2>3, <3>1, <3>2, <3>3, Zenon DEF Settles
  <2>4. Restores <=> Restores'
    BY <2>1, Zenon DEF Restores
  <2> QED  BY <1>1, <2>1, <2>2, <2>3, <2>4, Zenon DEF RestoredInv
<1>3. CASE Restart
  <2>1. UNCHANGED <<row, route, activation>> /\ pc' = "idle"
    BY <1>3, Zenon DEF Restart, A!Boot, A!Done
  <2> QED  BY <1>1, <2>1, Zenon DEF RestoredInv, Restores
<1>4. CASE GateStart
  <2>1. ASSUME NEW p \in Plans, activation'[p] = "ROLLED_BACK" PROVE FALSE
    <3>1. activation[p] = "ROLLED_BACK"
      BY <1>4, <2>1, Zenon DEF GateStart, store
    <3> QED  BY <1>4, <3>1, NoCall, Zenon DEF GateStart
  <2>2. ASSUME pc' = "rollback.first" PROVE at' # "idle"
    BY <1>4, <2>2, Zenon DEF GateStart, Rollback, FailClose, Goto
  <2>3. ASSUME pc' = "recover.rollback", at' = "idle", ret' = "ROLLED_BACK" PROVE Restores'
    <3>1. Reconcile
      BY <1>4, <2>3, Zenon DEF GateStart
    <3>2. /\ row'.state = "ROLLED_BACK"
          /\ route' = PredRoute \/ (~Undone /\ UNCHANGED <<row, route>>)
      BY <1>0, <2>3, <3>1, ReconcileReturns, Zenon DEF Refusals, Undone
    <3> QED  BY <3>2, Zenon DEF RestoredInv, Restores
  <2> QED  BY <1>1, <2>1, <2>2, <2>3, Zenon DEF RestoredInv
<1>5. CASE GateAlone
  <2>0. pc' = pc /\ activation' = activation
    BY <1>5, Zenon DEF GateAlone, store
  <2>1. ASSUME NEW p \in Plans, activation[p] = "ROLLED_BACK" PROVE Restores'
    <3>1. pc = "idle" /\ Restores
      BY <2>1, NoCall, Zenon DEF RestoredInv
    <3> QED  BY <1>5, <3>1, AloneStep, Zenon DEF Restores
  <2>2. CASE Continue
    <3>1. ContinueStep /\ at \in GateLabels(pc)
      BY <2>2, EveryContinueStep, Zenon DEF CallFits
    <3>2. ASSUME pc = "rollback.first", at' = "idle" PROVE ret' \in Refusals \/ Restores'
      <4>1. at \in RollbackLabels \cup FailCloseLabels
        BY <3>1, <3>2, Zenon DEF GateLabels, ContinueStep
      <4>2. CASE at \in FailCloseLabels
        BY <3>1, <3>2, <4>2, Zenon DEF ContinueStep
      <4>3. CASE at \in RollbackLabels
        <5>1. ret' \in Refusals \/ (row'.state = "ROLLED_BACK" /\ row' # row)
          BY <3>1, <3>2, <4>3, Zenon DEF ContinueStep
        <5>2. Verdict
          BY <1>0, <2>2, EveryVerdict, Zenon DEF Step
        <5> QED  BY <5>1, <5>2, Zenon DEF Verdict, NoBehavioral, Restores
      <4> QED  BY <4>1, <4>2, <4>3, Zenon
    <3>3. ASSUME pc = "recover.rollback", at' = "idle" PROVE ret' # "ROLLED_BACK"
      <4>1. at \in RecoveryLabels \cup FailCloseLabels
        BY <3>1, <3>3, Zenon DEF GateLabels, ContinueStep
      <4> QED  BY <3>1, <3>3, <4>1, Zenon DEF ContinueStep, Refusals
    <3> QED  BY <1>1, <2>0, <2>1, <3>2, <3>3, Zenon DEF RestoredInv
  <2>3. CASE Drift \/ Expire \/ Supersede
    <3>1. UNCHANGED <<row, route, at, ret>>
      BY <2>3, Zenon DEF Drift, Expire, Supersede, call, db
    <3> QED  BY <1>1, <2>0, <2>1, <3>1, Zenon DEF RestoredInv, Restores
  <2>4. CASE pc = "idle"
    BY <1>1, <2>0, <2>1, <2>4, Zenon DEF RestoredInv
  <2> QED  BY <1>5, <2>2, <2>3, <2>4, Zenon DEF GateAlone
<1> QED  BY <1>2, <1>3, <1>4, <1>5, Zenon

-----------------------------------------------------------------------------
(* The coordinator and the gate. *)

\* The gate's part of the invariant.
DrivenGate == IInv /\ LabelInv /\ OracleInv /\ (~MayDrift => Measured)

\* Whoever drives the gate, its own invariants hold.
LEMMA DrivenGateStep ==
    ASSUME DrivenGate, Step \/ UNCHANGED vars PROVE DrivenGate'
<1>0. IInv /\ LabelInv /\ OracleInv /\ TypeOK /\ DrainCounts
  BY Zenon DEF DrivenGate, IInv
<1>1. CASE Step
  <2>1. DbStep /\ AdmissionStep /\ CallStep
    BY <1>0, <1>1, EveryDbStep, EveryAdmissionStep, EveryCallStep, Zenon
  <2>2. JournalStep /\ LabelStep
    BY <1>0, <1>1, EveryJournalStep, EveryLabelStep, Zenon
  <2>3. IInv' /\ LabelInv'
    BY <1>0, <2>1, <2>2, InvariantStep, LabelInvStep, Zenon
  <2>4. OracleInv'
    BY <1>0, <1>1, <2>1, <2>2, EveryOpenStep, OracleInvStep, Zenon DEF OracleInv
  <2>5. ~MayDrift => Measured'
    BY <1>1, MeasuredStep, Zenon DEF DrivenGate
  <2> QED  BY <2>3, <2>4, <2>5, Zenon DEF DrivenGate
<1>2. CASE UNCHANGED vars
  BY <1>0, <1>2, StutterInv DEF DrivenGate, LabelInv, LabelOwes, Owes, DrainOwes, OpeningLabels,
     AgainIsPending, OracleInv, SeqBound, OpenReached, OpenHasReceipt, Fits, Admitted,
     PendingLast, PendingEver, Logged, OpenReceipts, Measured, IsClosed, vars
<1> QED  BY <1>1, <1>2

GatedInv ==
    /\ DrivenGate /\ PlanTyped /\ CallFits /\ Claimed /\ Unexposed /\ Returns /\ Effective
    /\ NoBehavioral
    /\ ~MayDrift => RestoredInv

\* It holds before the first call.
LEMMA GatedInvInit == ASSUME GatedInit PROVE GatedInv
<1>1. Init /\ A!Init
  BY Zenon DEF GatedInit
<1>2. /\ at = "idle" /\ row = AbsentRow /\ row.state = "absent" /\ route = PredRoute
      /\ admissions = [r \in Requests |-> NotAdmitted] /\ ret = "none"
  BY <1>1, Zenon DEF Init, AbsentRow
<1>3. /\ pc = "idle" /\ committed = {} /\ activation = [p \in Plans |-> "absent"]
  BY <1>1, Zenon DEF A!Init
<1>4. DrivenGate
  BY <1>1, <1>2, GateInvInit, Zenon DEF GateInv, DrivenGate, Measured
<1>5. PlanTyped /\ Claimed /\ Returns /\ Effective /\ NoBehavioral
  BY <1>2, <1>3, Zenon DEF PlanTyped, Claimed, Returns, Effective, NoBehavioral
<1>6. CallFits
  BY <1>2, <1>3, Zenon DEF CallFits, GateLabels, FailCloseLabels
<1>7. Unexposed
  BY <1>2, Zenon DEF Unexposed, Exposing, PredRoute, NotAdmitted
<1>8. RestoredInv
  BY <1>2, <1>3, Zenon DEF RestoredInv
<1> QED  BY <1>4, <1>5, <1>6, <1>7, <1>8, Zenon DEF GatedInv

\* Every step of the two keeps it.
LEMMA GatedInvStep == ASSUME GatedInv, GatedNext PROVE GatedInv'
<1>1. /\ DrivenGate /\ PlanTyped /\ CallFits /\ Claimed /\ Unexposed /\ Returns /\ Effective
      /\ NoBehavioral /\ IInv /\ LabelInv /\ OracleInv /\ TypeOK
  BY Zenon DEF GatedInv, DrivenGate, IInv
<1>2. CoordinatorStep \/ GateStart \/ GateAlone \/ Restart
  BY <1>1, EveryGatedStep, Zenon
<1>3. DrivenGate'
  BY <1>1, <1>2, GatedIsStep, DrivenGateStep, Zenon
<1>4. PlanTyped'
  BY <1>1, <1>2, Zenon DEF CoordinatorStep, GateStart, GateAlone, Restart, A!Boot, store, PlanTyped
<1>5. CallFits' /\ Claimed' /\ Unexposed' /\ Returns' /\ Effective' /\ NoBehavioral'
  BY Zenon, <1>1, <1>2, CallFitsStep, ClaimedStep, UnexposedStep, ReturnsStep, EffectiveStep,
     NoBehavioralStep
<1>6. ~MayDrift => RestoredInv'
  BY <1>1, <1>2, RestoredStep, Zenon DEF GatedInv, DrivenGate
<1> QED  BY <1>3, <1>4, <1>5, <1>6, Zenon DEF GatedInv

\* So does a stuttering step.
LEMMA GatedInvStutter == ASSUME GatedInv, UNCHANGED gated_vars PROVE GatedInv'
<1>1. UNCHANGED vars
  BY Zenon DEF gated_vars, vars
<1>2. DrivenGate'
  BY <1>1, DrivenGateStep, Zenon DEF GatedInv
<1>3. /\ (PlanTyped /\ CallFits /\ Claimed /\ Unexposed /\ Returns /\ Effective /\ NoBehavioral)'
      /\ ~MayDrift => RestoredInv'
  BY DEF gated_vars, GatedInv, PlanTyped, CallFits, GateLabels, Claimed, Unexposed, Returns,
     Effective, NoBehavioral, RestoredInv, Restores, Undone, PendingLast, PendingEver, Logged
<1> QED  BY <1>2, <1>3, Zenon DEF GatedInv

\* Every reachable state of the coordinator and the gate satisfies the invariant.
THEOREM GatedInvariant == GatedSpec => []GatedInv
<1>1. GatedInit => GatedInv
  BY GatedInvInit, Zenon
<1>2. GatedInv /\ [GatedNext]_gated_vars => GatedInv'
  BY GatedInvStep, GatedInvStutter, Zenon
<1> QED  BY <1>1, <1>2, PTL DEF GatedSpec

\* The candidate is exposed only after the coordinator's commit claimed the generation.
THEOREM ExposureNeedsCommit == GatedSpec => []ExposedOnlyIfCommitted
<1>1. GatedInv => ExposedOnlyIfCommitted
  <2> SUFFICES ASSUME GatedInv,
                      \/ route.generation = "cand"
                      \/ row.state \in {"OPENING", "CANDIDATE_OPEN", "DRAINING"}
                      \/ \E r \in Requests : admissions[r].generation = "cand"
               PROVE  \E p \in committed : generation = PredGeneration[p] + 1
    BY Zenon DEF ExposedOnlyIfCommitted
  <2>1. committed # {}
    BY Zenon DEF GatedInv, Unexposed, Exposing
  <2> QED  BY <2>1, Zenon DEF GatedInv, Claimed
<1> QED  BY <1>1, GatedInvariant, PTL

\* A plan is Effective only while the gate is open for the candidate.
THEOREM EffectiveMeansOpen == GatedSpec => []EffectiveIsOpen
<1>1. GatedInv => EffectiveIsOpen
  BY DEF GatedInv, Effective, EffectiveIsOpen, Opened
<1> QED  BY <1>1, GatedInvariant, PTL

\* When nothing but the gate changes the route, a plan is Rolled Back only with the
\* gate rolled back and exactly the predecessor's route serving.
THEOREM RolledBackMeansRestored == ~MayDrift => (GatedSpec => []RolledBackIsRestored)
<1> SUFFICES ASSUME ~MayDrift PROVE GatedSpec => []RolledBackIsRestored
  OBVIOUS
<1>1. GatedInv => RolledBackIsRestored
  BY Zenon DEF GatedInv, RestoredInv, Restores, RolledBackIsRestored
<1> QED  BY <1>1, GatedInvariant, PTL
=============================================================================
