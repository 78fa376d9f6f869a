---------------------------- MODULE Coordinator -----------------------------
(***************************************************************************)
(* ActivationCoordinator (src/vllm_hust_ext/durable_coordinator.py) with   *)
(* the plain TrafficGate: hold_predecessor, activate and restore set which *)
(* plan new traffic goes to, and nothing about the gate is durable.        *)
(* Several plans share one store and compete for its generation.           *)
(***************************************************************************)
EXTENDS ActivationStore

CONSTANTS
    PredPlan,    \* [Plans -> Plans \cup {Base}]: plan.predecessor.plan_id
    Base         \* what serves before any plan

ASSUME PredecessorAssumption ==
    PredPlan \in [Plans -> Plans \cup {Base}] /\ Base \notin Plans

VARIABLE
    traffic      \* FakeTrafficGate.active_plan_id

vars == <<generation, manager_epoch, activation, committed, host_receipt, outcome,
          inventory, evidence, pc, cur, traffic>>

CoordinatorInit == Init /\ traffic = Base

-----------------------------------------------------------------------------
\* An operator names as predecessor what is there to go back to.
Plan(p) ==
    /\ PredPlan[p] \in committed \cup {Base}
    /\ PlanInsert(p)
    /\ UNCHANGED traffic

\* Faulty: traffic is given to the plan before it is committed.
PlanTrafficEarly ==
    /\ pc = "plan.traffic" /\ Done
    /\ traffic' = cur
    /\ UNCHANGED store

PlanTraffic ==
    /\ pc = "plan.traffic" /\ Done
    /\ traffic' = PredPlan[cur]                    \* hold_predecessor
    /\ UNCHANGED store

CommitTraffic ==
    /\ pc = "commit.traffic"
    /\ traffic' = cur                              \* activate
    /\ Goto("commit.receipt", cur)
    /\ UNCHANGED store

\* A host that failed to roll back leaves the traffic alone: Failed Safe.
RollbackTraffic ==
    /\ pc = "rollback.traffic"
    /\ \/ /\ host_receipt[cur] = "ok"
          /\ traffic' = PredPlan[cur]              \* restore
          /\ Goto("rollback.receipt", cur)
          /\ UNCHANGED store
       \/ /\ host_receipt[cur] = "error"
          /\ Conclude(cur, "FAILED_SAFE")
          /\ UNCHANGED traffic

RollbackReceipt ==
    /\ pc = "rollback.receipt"
    /\ Conclude(cur, "ROLLED_BACK")
    /\ UNCHANGED traffic

-----------------------------------------------------------------------------
(* recover: an interrupted rollback is given up; what was on its way to     *)
(* Effective goes back to its predecessor, then to Reconcile.               *)

Interrupted == {"PREPARING", "LAUNCHING", "COMMIT_READY", "ROLLBACK"}

Recover(p) ==
    /\ Idle /\ UNCHANGED traffic
    /\ \/ /\ activation[p] = "ROLLBACK"
          /\ Transition(p, "FAILED_SAFE")
          /\ UNCHANGED <<generation, manager_epoch, committed, host_receipt, outcome,
                         inventory, evidence, call>>
       \/ /\ activation[p] \in {"PREPARING", "LAUNCHING", "COMMIT_READY", "OBSERVING"}
          /\ Goto("recover.traffic", p)
          /\ UNCHANGED store

\* Faulty: the predecessor's traffic is not restored.
RecoverTrafficKept ==
    /\ pc = "recover.traffic"
    /\ Goto("recover.receipt", cur)
    /\ UNCHANGED <<store, traffic>>

RecoverTraffic ==
    /\ pc = "recover.traffic"
    /\ traffic' = PredPlan[cur]                    \* restore
    /\ Goto("recover.receipt", cur)
    /\ UNCHANGED store

\* Faulty: a plan that had reached CommitReady is left there.
RecoverReceiptPartial ==
    /\ pc = "recover.receipt" /\ Done
    /\ IF activation[cur] = "COMMIT_READY" THEN UNCHANGED activation
       ELSE Transition(cur, "RECONCILE")
    /\ UNCHANGED <<generation, manager_epoch, committed, host_receipt, outcome, inventory,
                   evidence, traffic>>

RecoverReceipt ==
    /\ pc = "recover.receipt" /\ Done
    /\ Transition(cur, "RECONCILE")
    /\ UNCHANGED <<generation, manager_epoch, committed, host_receipt, outcome, inventory,
                   evidence, traffic>>

-----------------------------------------------------------------------------
\* The rest of a call that has begun.
Continue ==
    \/ PlanTraffic \/ CommitTraffic \/ RollbackTraffic \/ RollbackReceipt
    \/ RecoverTraffic \/ RecoverReceipt
    \/ /\ PrepareReceipt(FALSE) \/ LaunchReceipt \/ CommitReceipt \/ LeaseFallback
          \/ RollbackHost \/ (pc = "lease.lost" /\ Rollback(cur))
       /\ UNCHANGED traffic

Restart == Boot /\ UNCHANGED traffic

Next ==
    \/ Continue \/ Restart
    \/ \E p \in Plans : Plan(p) \/ Recover(p)
    \/ \E p \in Plans, expected \in 0..generation : Commit(p, expected) /\ UNCHANGED traffic
    \/ StoreStep /\ UNCHANGED traffic

Spec == CoordinatorInit /\ [][Next]_vars

\* A call that has begun goes on, and the manager asks to recover every plan that
\* it finds interrupted, again and again between its other calls.
FairSpec ==
    /\ Spec /\ WF_vars(Continue)
    /\ \A p \in Plans : SF_vars(Recover(p) /\ activation[p] \in Interrupted)

-----------------------------------------------------------------------------
(* Properties. *)

Labels == {"idle", "plan.traffic", "prepare.host", "launch.host", "commit.traffic",
           "commit.receipt", "lease.lost", "rollback.host", "rollback.traffic",
           "rollback.receipt", "recover.traffic", "recover.receipt"}

EvidenceRow ==
    [plan : Plans \cup {"none"}, proc : Procs \cup {"none"}, incarnation : Incarnation,
     manager_epoch : Nat, valid : BOOLEAN, expired : BOOLEAN]

\* Every variable has its type, and a call in progress is about a planned plan.
TypeOK ==
    /\ generation \in Nat /\ manager_epoch \in Nat
    /\ activation \in [Plans -> State \cup {"absent"}]
    /\ committed \subseteq Plans
    /\ host_receipt \in [Plans -> {"none", "ok", "error"}]
    /\ outcome \in [Plans -> {"none", "success", "failure"}]
    /\ inventory \in [Plans -> [Procs -> Incarnation]]
    /\ evidence \in [Nonces -> EvidenceRow]
    /\ traffic \in Plans \cup {Base}
    /\ pc \in Labels
    /\ IF pc = "idle" THEN cur = "none" ELSE cur \in Plans /\ Planned(cur)

\* A generation is claimed once: two plans prepared on the same predecessor
\* generation never both get a commit entry, in whatever order their commits,
\* crashes, recoveries and retries fall; a claimed generation lies behind.
CommitsAreUnique ==
    /\ \A p \in committed : PredGeneration[p] < generation
    /\ \A p, q \in committed : PredGeneration[p] = PredGeneration[q] => p = q

\* Valid evidence is about the incarnation the inventory holds now and was
\* accepted by the manager that runs now: neither a restart nor a refreshed
\* inventory leaves old evidence usable for a commit.
ValidIsCurrent ==
    \A n \in Nonces : evidence[n].valid =>
        /\ evidence[n].manager_epoch = manager_epoch
        /\ evidence[n].plan \in Plans /\ evidence[n].proc \in Procs
        /\ evidence[n].incarnation = inventory[evidence[n].plan][evidence[n].proc]

\* New traffic goes to a plan only after that plan's commit claimed a generation.
TrafficFollowsCommit == traffic \in committed \cup {Base}

\* Evidence that was accepted once is never accepted again: an invalidated row
\* does not become valid, and no row changes what it is about.
NoReplay ==
    [][\A n \in Nonces : evidence[n] # NoEvidence =>
          /\ evidence'[n].valid => evidence[n].valid
          /\ evidence'[n].plan = evidence[n].plan
          /\ evidence'[n].proc = evidence[n].proc
          /\ evidence'[n].incarnation = evidence[n].incarnation
          /\ evidence'[n].manager_epoch = evidence[n].manager_epoch]_vars

\* Recovery restores the predecessor's traffic before it reports Reconcile, and
\* rollback before it reports Rolled Back.
GoesBack(p) ==
    \/ /\ activation[p] \in {"PREPARING", "LAUNCHING", "OBSERVING", "COMMIT_READY"}
       /\ activation'[p] = "RECONCILE"
    \/ activation[p] = "ROLLBACK" /\ activation'[p] = "ROLLED_BACK"

PredecessorIsBack ==
    [][\A p \in Plans : GoesBack(p) => traffic' = PredPlan[p]]_vars

\* Why these hold: the parts of an inductive invariant.  A plan's predecessor was
\* committed when it was planned; evidence exists only after launch; and the
\* label of a call says what its earlier steps have done.
PredecessorsCommitted ==
    \A p \in Plans : Planned(p) => PredPlan[p] \in committed \cup {Base}

BeforeEvidence == {"absent", "PLANNED", "PREPARING", "PREPARED", "LAUNCHING"}

EvidenceAfterLaunch ==
    \A n \in Nonces :
        /\ evidence[n].valid => evidence[n].plan \in Plans
        /\ evidence[n].plan \in Plans =>
              activation[evidence[n].plan] \notin BeforeEvidence

CallsHaveBegun ==
    /\ pc = "commit.traffic" => cur \in committed
    /\ pc = "launch.host" => activation[cur] = "LAUNCHING"
    /\ pc = "lease.lost" => activation[cur] = "DEGRADED"
    /\ pc \in {"rollback.receipt", "recover.receipt"} => traffic = PredPlan[cur]

IInv ==
    /\ TypeOK /\ CommitsAreUnique /\ ValidIsCurrent /\ TrafficFollowsCommit
    /\ PredecessorsCommitted /\ EvidenceAfterLaunch /\ CallsHaveBegun

\* A plan whose call was cut short does not stay in between for ever.
InterruptionsEnd ==
    \A p \in Plans : activation[p] \in Interrupted ~> activation[p] \notin Interrupted

\* docs/design/durable-coordinator.md: "The manager must refresh process inventory
\* and re-observe fresh evidence before returning to `Observing` and attempting a
\* commit."  A plan that recovery sent back to Observing, and that no other plan
\* overtook, finds the generation it was planned for.
RetryFindsGeneration ==
    \A p \in Plans :
        activation[p] = "OBSERVING" /\ committed \subseteq {p} =>
            generation = PredGeneration[p]

=============================================================================
