------------------------- MODULE CoordinatorProofs --------------------------
(***************************************************************************)
(* Proofs about the coordinator with a plain traffic gate, for any plans,  *)
(* processes, nonces and bounds.  IInv is inductive; each of its parts is  *)
(* disturbed by few actions, and the frame lemmas below say which.         *)
(***************************************************************************)
EXTENDS Coordinator, TLAPS

\* Every step in one list: the continuations, then the calls, then the clock.
Steps ==
    \/ PlanTraffic \/ CommitTraffic \/ RollbackTraffic \/ RollbackReceipt
    \/ RecoverTraffic \/ RecoverReceipt
    \/ /\ UNCHANGED traffic
       /\ \/ PrepareReceipt(FALSE) \/ LaunchReceipt \/ CommitReceipt
          \/ LeaseFallback \/ RollbackHost \/ Boot
          \/ \E n \in Nonces : ExpireEvidence(n)
    \/ \E p \in Plans :
          \/ Plan(p) \/ Recover(p)
          \/ /\ UNCHANGED traffic
             /\ \/ Prepare(p) \/ Launch(p) \/ ExternalLeaseLost(p) \/ Rollback(p)
                \/ ResumeObserving(p)
                \/ \E expected \in Nat : Commit(p, expected)
                \/ \E n \in Nonces, w \in Procs : Observe(p, n, w)
                \/ \E inv \in [Procs -> Incarnation] : RefreshInventory(p, inv)

\* Next is this list.
LEMMA NextIsSteps ==
    ASSUME TypeOK, Next
    PROVE  Steps
<1>1. CASE Continue
  <2>1. CASE pc = "lease.lost" /\ Rollback(cur) /\ UNCHANGED traffic
    <3>1. cur \in Plans
      BY <2>1 DEF TypeOK
    <3> QED  BY <2>1, <3>1 DEF Steps
  <2> QED  BY <1>1, <2>1 DEF Continue, Steps
<1>2. CASE Restart
  BY <1>2 DEF Restart, Steps
<1>3. CASE \E p \in Plans : Plan(p) \/ Recover(p)
  BY <1>3 DEF Steps
<1>4. CASE \E p \in Plans, expected \in 0..generation : Commit(p, expected) /\ UNCHANGED traffic
  <2>1. 0..generation \subseteq Nat
    OBVIOUS
  <2> QED  BY <1>4, <2>1 DEF Steps
<1>5. CASE StoreStep /\ UNCHANGED traffic
  BY <1>5 DEF StoreStep, Steps
<1> QED  BY <1>1, <1>2, <1>3, <1>4, <1>5 DEF Next

-----------------------------------------------------------------------------
(* Frames. *)

\* Only Commit touches the generation and the commit entries.
MetaStep ==
    \/ UNCHANGED <<generation, committed>>
    \/ \E p \in Plans : /\ PredGeneration[p] = generation
                        /\ generation' = generation + 1
                        /\ committed' = committed \cup {p}

\* A plan's state changes along the graph, one plan at a time.
MoveStep ==
    \/ UNCHANGED activation
    \/ \E p \in Plans : /\ activation[p] = "absent"
                        /\ PredPlan[p] \in committed \cup {Base}
                        /\ activation' = [activation EXCEPT ![p] = "PLANNED"]
    \/ \E p \in Plans : /\ activation[p] # "absent"
                        /\ \E s \in State :
                              /\ s \in Transitions[activation[p]]
                              /\ activation' = [activation EXCEPT ![p] = s]

\* The generation and the commit entries change in Commit only.
LEMMA EveryMetaStep ==
    ASSUME Steps
    PROVE  MetaStep
BY DEF Steps, MetaStep, store, call, PlanTraffic, CommitTraffic, RollbackTraffic,
       RollbackReceipt, RecoverTraffic, RecoverReceipt, PrepareReceipt, LaunchReceipt,
       CommitReceipt, LeaseFallback, RollbackHost, Boot, ExpireEvidence, Plan, PlanInsert,
       Recover, Prepare, Launch, ExternalLeaseLost, Rollback, ResumeObserving, Commit,
       GenerationIs, Observe, RefreshInventory, Conclude

\* The targets of the state graph are states.
LEMMA TransitionFacts ==
    /\ \A s \in State : Transitions[s] \subseteq State \ {"PLANNED"}
    /\ \A s \in State \ BeforeEvidence : Transitions[s] \cap BeforeEvidence = {}
BY DEF Transitions, State, BeforeEvidence

\* _transition moves one planned plan along the graph.
LEMMA TransitionMoves ==
    ASSUME TypeOK, NEW p \in Plans, NEW s, Transition(p, s)
    PROVE  MoveStep /\ s \in State
BY TransitionFacts DEF TypeOK, Transition, Planned, MoveStep

\* Every change of a plan's state follows the graph.
LEMMA EveryMoveStep ==
    ASSUME TypeOK, Steps
    PROVE  MoveStep
<1> USE TransitionMoves
<1>1. CASE pc # "idle" /\ (RollbackTraffic \/ RollbackReceipt \/ RecoverReceipt
           \/ PrepareReceipt(FALSE) \/ LaunchReceipt \/ CommitReceipt \/ LeaseFallback)
  <2>1. cur \in Plans
    BY <1>1 DEF TypeOK
  <2> QED  BY <1>1, <2>1 DEF RollbackTraffic, RollbackReceipt, RecoverReceipt, PrepareReceipt,
                 LaunchReceipt, CommitReceipt, LeaseFallback, Conclude, store, MoveStep
<1>2. CASE PlanTraffic \/ CommitTraffic \/ RecoverTraffic \/ RollbackHost \/ Boot
           \/ \E n \in Nonces : ExpireEvidence(n)
  BY <1>2 DEF PlanTraffic, CommitTraffic, RecoverTraffic, RollbackHost, Boot, ExpireEvidence,
              store, MoveStep
<1>3. ASSUME NEW p \in Plans, Plan(p)
      PROVE  MoveStep
  BY <1>3 DEF Plan, PlanInsert, Planned, MoveStep
<1>4. ASSUME NEW p \in Plans,
             Recover(p) \/ Prepare(p) \/ Launch(p) \/ ExternalLeaseLost(p) \/ Rollback(p)
             \/ ResumeObserving(p) \/ \E expected \in Nat : Commit(p, expected)
      PROVE  MoveStep
  BY <1>4 DEF Recover, Prepare, Launch, ExternalLeaseLost, Rollback, ResumeObserving, Commit,
              store, MoveStep
<1>5. ASSUME NEW p \in Plans,
             \/ \E n \in Nonces, w \in Procs : Observe(p, n, w)
             \/ \E inv \in [Procs -> Incarnation] : RefreshInventory(p, inv)
      PROVE  MoveStep
  BY <1>5 DEF Observe, RefreshInventory, MoveStep
<1> QED  BY <1>1, <1>2, <1>3, <1>4, <1>5 DEF Steps, RollbackTraffic, RollbackReceipt,
            RecoverReceipt, PrepareReceipt, LaunchReceipt, CommitReceipt, LeaseFallback

\* Evidence and inventory change together or apart, in one of these ways.
EvidenceStep ==
    \/ UNCHANGED <<evidence, inventory, manager_epoch>>
    \/ /\ UNCHANGED <<inventory, manager_epoch>>                       \* observe
       /\ \E p \in Plans, n \in Nonces, w \in Procs :
             /\ evidence[n] = NoEvidence
             /\ activation[p] \in {"OBSERVING", "RECONCILE"} /\ UNCHANGED activation
             /\ evidence' = [evidence EXCEPT ![n] =
                   [plan |-> p, proc |-> w, incarnation |-> inventory[p][w],
                    manager_epoch |-> manager_epoch, valid |-> TRUE, expired |-> FALSE]]
    \/ /\ UNCHANGED <<inventory, manager_epoch>>                       \* the clock
       /\ \E n \in Nonces : evidence' = [evidence EXCEPT ![n].expired = TRUE]
    \/ /\ UNCHANGED manager_epoch                                     \* refresh
       /\ \E p \in Plans, inv \in [Procs -> Incarnation] :
             /\ inventory' = [inventory EXCEPT ![p] = inv]
             /\ evidence' = Invalidated(OfPlan(p))
    \/ /\ UNCHANGED <<manager_epoch, evidence>>                        \* launch
       /\ \E p \in Plans, inv \in [Procs -> Incarnation] :
             /\ activation[p] = "LAUNCHING"
             /\ inventory' = [inventory EXCEPT ![p] = inv]
    \/ /\ UNCHANGED inventory                                         \* boot
       /\ manager_epoch' = manager_epoch + 1
       /\ evidence' = Invalidated(Nonces)

\* Only observe, refresh, launch, boot and the clock touch the evidence and what
\* it is about.
LEMMA EveryEvidenceStep ==
    ASSUME TypeOK, CallsHaveBegun, Steps
    PROVE  EvidenceStep
<1>1. CASE PlanTraffic \/ CommitTraffic \/ RollbackTraffic \/ RollbackReceipt
           \/ RecoverTraffic \/ RecoverReceipt \/ PrepareReceipt(FALSE) \/ CommitReceipt
           \/ LeaseFallback \/ RollbackHost
  BY <1>1 DEF PlanTraffic, CommitTraffic, RollbackTraffic, RollbackReceipt, RecoverTraffic,
              RecoverReceipt, PrepareReceipt, CommitReceipt, LeaseFallback, RollbackHost,
              Conclude, store, EvidenceStep
<1>2. CASE LaunchReceipt
  <2>1. cur \in Plans /\ activation[cur] = "LAUNCHING"
    BY <1>2 DEF LaunchReceipt, TypeOK, CallsHaveBegun
  <2> QED  BY <1>2, <2>1 DEF LaunchReceipt, EvidenceStep
<1>3. CASE Boot \/ \E n \in Nonces : ExpireEvidence(n)
  <2>1. CASE Boot
    BY <2>1 DEF Boot, EvidenceStep
  <2>2. ASSUME NEW n \in Nonces, ExpireEvidence(n)
        PROVE  EvidenceStep
    BY <2>2, Zenon DEF ExpireEvidence, EvidenceStep
  <2> QED  BY <1>3, <2>1, <2>2
<1>4. ASSUME NEW p \in Plans,
             Plan(p) \/ Recover(p) \/ Prepare(p) \/ Launch(p) \/ ExternalLeaseLost(p)
             \/ Rollback(p) \/ ResumeObserving(p) \/ \E expected \in Nat : Commit(p, expected)
      PROVE  EvidenceStep
  BY <1>4 DEF Plan, PlanInsert, Recover, Prepare, Launch, ExternalLeaseLost, Rollback,
              ResumeObserving, Commit, store, EvidenceStep
<1>5. ASSUME NEW p \in Plans, \E n \in Nonces, w \in Procs : Observe(p, n, w)
      PROVE  EvidenceStep
  <2>1. PICK n \in Nonces, w \in Procs : Observe(p, n, w)
    BY <1>5
  <2> QED  BY <2>1, Zenon DEF Observe, NonceIsNew, Observable, EvidenceStep
<1>6. ASSUME NEW p \in Plans, \E inv \in [Procs -> Incarnation] : RefreshInventory(p, inv)
      PROVE  EvidenceStep
  BY <1>6 DEF RefreshInventory, EvidenceStep
<1> QED  BY <1>1, <1>2, <1>3, <1>4, <1>5, <1>6 DEF Steps

\* What every step does to the call in progress, the receipts and the traffic.
CallStep ==
    /\ host_receipt' \in [Plans -> {"none", "ok", "error"}]
    /\ outcome' \in [Plans -> {"none", "success", "failure"}]
    /\ pc' \in Labels
    /\ IF pc' = "idle" THEN cur' = "none" \/ UNCHANGED <<pc, cur>>
       ELSE cur' \in Plans /\ activation'[cur'] # "absent"
    /\ \/ UNCHANGED traffic
       \/ cur \in Plans /\ Planned(cur) /\ traffic' = PredPlan[cur]
       \/ pc = "commit.traffic" /\ traffic' = cur
    /\ pc' = "commit.traffic" => UNCHANGED <<pc, cur>> \/ cur' \in committed'
    /\ pc' = "launch.host" =>
          UNCHANGED <<pc, cur, activation>> \/ activation'[cur'] = "LAUNCHING"
    /\ pc' = "lease.lost" =>
          UNCHANGED <<pc, cur, activation>> \/ activation'[cur'] = "DEGRADED"
    /\ pc' \in {"rollback.receipt", "recover.receipt"} =>
          UNCHANGED <<pc, cur, traffic>> \/ traffic' = PredPlan[cur']

\* A step that leaves the call alone, and one that moves a plan's own call on.
LEMMA QuietCall ==
    ASSUME TypeOK,
           UNCHANGED <<pc, cur, activation, committed, host_receipt, outcome, traffic>>
    PROVE  CallStep
BY DEF TypeOK, CallStep, Planned

\* Steps of a call, one label after the other.
LEMMA EveryCallStep ==
    ASSUME TypeOK, Steps
    PROVE  CallStep
<1> USE DEF TypeOK, CallStep, Labels, Planned, Done, Goto
<1> DEFINE D == activation' \in [Plans -> State \cup {"absent"}]
<1>0. D
  BY EveryMoveStep DEF MoveStep, State
<1>1. CASE PlanTraffic
  BY <1>1, <1>0 DEF PlanTraffic, store
<1>2. CASE CommitTraffic
  BY <1>2, <1>0 DEF CommitTraffic, store
<1>3. CASE RollbackTraffic
  BY <1>3, <1>0 DEF RollbackTraffic, Conclude, store
<1>4. CASE RollbackReceipt
  BY <1>4, <1>0 DEF RollbackReceipt, Conclude
<1>5. CASE RecoverTraffic
  BY <1>5, <1>0 DEF RecoverTraffic, store
<1>6. CASE RecoverReceipt
  BY <1>6, <1>0 DEF RecoverReceipt
<1>7. CASE PrepareReceipt(FALSE) /\ UNCHANGED traffic
  BY <1>7, <1>0 DEF PrepareReceipt
<1>8. CASE (LaunchReceipt \/ CommitReceipt \/ LeaseFallback \/ Boot) /\ UNCHANGED traffic
  BY <1>8, <1>0 DEF LaunchReceipt, CommitReceipt, LeaseFallback, Boot
<1>9. CASE RollbackHost /\ UNCHANGED traffic
  BY <1>9, <1>0 DEF RollbackHost
<1>10. ASSUME NEW n \in Nonces, ExpireEvidence(n), UNCHANGED traffic
       PROVE  CallStep
  BY <1>10, QuietCall DEF ExpireEvidence, call
<1>11. ASSUME NEW p \in Plans, Plan(p)
       PROVE  CallStep
  BY <1>11, <1>0 DEF Plan, PlanInsert
<1>12. ASSUME NEW p \in Plans, Recover(p)
       PROVE  CallStep
  BY <1>12, <1>0 DEF Recover, store, call, Idle
<1>13. ASSUME NEW p \in Plans, Prepare(p) \/ Launch(p) \/ ExternalLeaseLost(p) \/ Rollback(p),
              UNCHANGED traffic
       PROVE  CallStep
  BY <1>13, <1>0 DEF Prepare, Launch, ExternalLeaseLost, Rollback, Transition
<1>14. ASSUME NEW p \in Plans, NEW expected \in Nat, Commit(p, expected), UNCHANGED traffic
       PROVE  CallStep
  BY <1>14, <1>0 DEF Commit, Transition
<1>15. ASSUME NEW p \in Plans, ResumeObserving(p), UNCHANGED traffic
       PROVE  CallStep
  BY <1>15, <1>0 DEF ResumeObserving, call, Idle
<1>16. ASSUME NEW p \in Plans, UNCHANGED traffic,
              \/ \E n \in Nonces, w \in Procs : Observe(p, n, w)
              \/ \E inv \in [Procs -> Incarnation] : RefreshInventory(p, inv)
       PROVE  CallStep
  BY <1>16, QuietCall DEF Observe, RefreshInventory, call
<1> HIDE DEF TypeOK, CallStep, Labels, Planned, Done, Goto
<1> QED  BY <1>1, <1>2, <1>3, <1>4, <1>5, <1>6, <1>7, <1>8, <1>9, <1>10, <1>11, <1>12,
            <1>13, <1>14, <1>15, <1>16 DEF Steps

-----------------------------------------------------------------------------
(* The inductive invariant. *)

\* The initial state has no plan, no evidence and no call.
LEMMA InitInv == CoordinatorInit => IInv
<1> SUFFICES ASSUME CoordinatorInit
             PROVE  IInv
  OBVIOUS
<1> USE DEF CoordinatorInit, Init
<1>1. NoEvidence \in EvidenceRow /\ NoEvidence.plan \notin Plans /\ ~NoEvidence.valid
  BY StoreAssumption DEF NoEvidence, EvidenceRow, Incarnation
<1>2. 0 \in Incarnation
  BY StoreAssumption DEF Incarnation
<1>3. TypeOK
  BY <1>1, <1>2 DEF TypeOK, Labels
<1>4. CommitsAreUnique /\ TrafficFollowsCommit /\ PredecessorsCommitted /\ CallsHaveBegun
  BY DEF CommitsAreUnique, TrafficFollowsCommit, PredecessorsCommitted, CallsHaveBegun, Planned
<1>5. ValidIsCurrent /\ EvidenceAfterLaunch
  BY <1>1 DEF ValidIsCurrent, EvidenceAfterLaunch
<1> QED  BY <1>3, <1>4, <1>5 DEF IInv

\* Invalidating rows keeps their type and what they are about.
LEMMA InvalidatedFacts ==
    ASSUME evidence \in [Nonces -> EvidenceRow], NEW ns
    PROVE  /\ Invalidated(ns) \in [Nonces -> EvidenceRow]
           /\ \A n \in Nonces :
                 /\ Invalidated(ns)[n].plan = evidence[n].plan
                 /\ Invalidated(ns)[n].proc = evidence[n].proc
                 /\ Invalidated(ns)[n].incarnation = evidence[n].incarnation
                 /\ Invalidated(ns)[n].manager_epoch = evidence[n].manager_epoch
                 /\ Invalidated(ns)[n].valid => evidence[n].valid /\ n \notin ns
BY DEF Invalidated, EvidenceRow

\* Each part of the invariant is kept by the frame of the state it is about.
LEMMA StepInv ==
    ASSUME IInv, Next
    PROVE  IInv'
<1> USE DEF IInv
<1>s. Steps
  BY NextIsSteps
<1>1. MetaStep
  BY <1>s, EveryMetaStep
<1>2. MoveStep
  BY <1>s, EveryMoveStep
<1>3. EvidenceStep
  BY <1>s, EveryEvidenceStep
<1>4. CallStep
  BY <1>s, EveryCallStep
<1>5. CommitsAreUnique'
  BY <1>1, StoreAssumption DEF MetaStep, CommitsAreUnique, TypeOK
<1>6. committed \subseteq committed' /\ committed' \subseteq Plans /\ generation' \in Nat
  BY <1>1 DEF MetaStep, TypeOK
<1>7. activation' \in [Plans -> State \cup {"absent"}]
  BY <1>2 DEF MoveStep, TypeOK, State
<1>8. /\ evidence' \in [Nonces -> EvidenceRow]
      /\ inventory' \in [Plans -> [Procs -> Incarnation]]
      /\ manager_epoch' \in Nat
  <2>1. evidence \in [Nonces -> EvidenceRow] /\ inventory \in [Plans -> [Procs -> Incarnation]]
        /\ manager_epoch \in Nat
    BY DEF TypeOK
  <2>2. ASSUME NEW p \in Plans, NEW w \in Procs
        PROVE  [plan |-> p, proc |-> w, incarnation |-> inventory[p][w],
                manager_epoch |-> manager_epoch, valid |-> TRUE, expired |-> FALSE] \in EvidenceRow
    BY <2>1 DEF EvidenceRow
  <2>3. ASSUME NEW n \in Nonces, evidence' = [evidence EXCEPT ![n].expired = TRUE]
        PROVE  evidence' \in [Nonces -> EvidenceRow]
    <3>1. evidence[n] \in EvidenceRow
      BY <2>1
    <3>2. [evidence[n] EXCEPT !.expired = TRUE] \in EvidenceRow
      BY <3>1 DEF EvidenceRow
    <3> QED  BY <2>1, <2>3, <3>2
  <2> QED  BY <1>3, <2>1, <2>2, <2>3, InvalidatedFacts DEF EvidenceStep
<1>9. traffic' \in committed' \cup {Base}
  BY <1>4, <1>6 DEF CallStep, TrafficFollowsCommit, PredecessorsCommitted, CallsHaveBegun
<1>10. TypeOK'
  BY <1>4, <1>6, <1>7, <1>8, <1>9 DEF TypeOK, CallStep, Planned
<1>11. PredecessorsCommitted'
  BY <1>2, <1>6 DEF MoveStep, PredecessorsCommitted, Planned, TypeOK
<1>12. CallsHaveBegun'
  BY <1>4, <1>6 DEF CallStep, CallsHaveBegun
<1>13. \A q \in Plans : activation[q] \notin BeforeEvidence => activation'[q] \notin BeforeEvidence
  BY <1>2, TransitionFacts DEF MoveStep, TypeOK, BeforeEvidence
<1> DEFINE Goal(n) ==
          /\ evidence'[n].valid =>
                /\ evidence'[n].plan \in Plans /\ evidence'[n].proc \in Procs
                /\ evidence'[n].manager_epoch = manager_epoch'
                /\ evidence'[n].incarnation = inventory'[evidence'[n].plan][evidence'[n].proc]
          /\ evidence'[n].plan \in Plans =>
                activation'[evidence'[n].plan] \notin BeforeEvidence
<1>14. ASSUME NEW n \in Nonces
       PROVE  Goal(n)
  <2> USE DEF TypeOK, ValidIsCurrent, EvidenceAfterLaunch
  <2>1. CASE UNCHANGED <<evidence, inventory, manager_epoch>>
    BY <2>1, <1>13
  <2>2. ASSUME UNCHANGED <<inventory, manager_epoch>>,
               NEW p \in Plans, NEW m \in Nonces, NEW w \in Procs,
               activation[p] \in {"OBSERVING", "RECONCILE"}, UNCHANGED activation,
               evidence' = [evidence EXCEPT ![m] =
                   [plan |-> p, proc |-> w, incarnation |-> inventory[p][w],
                    manager_epoch |-> manager_epoch, valid |-> TRUE, expired |-> FALSE]]
        PROVE  Goal(n)
    BY <2>2 DEF BeforeEvidence
  <2>3. ASSUME UNCHANGED <<inventory, manager_epoch>>,
               NEW m \in Nonces, evidence' = [evidence EXCEPT ![m].expired = TRUE]
        PROVE  Goal(n)
    <3>1. /\ evidence'[n].plan = evidence[n].plan /\ evidence'[n].proc = evidence[n].proc
          /\ evidence'[n].valid = evidence[n].valid
          /\ evidence'[n].manager_epoch = evidence[n].manager_epoch
          /\ evidence'[n].incarnation = evidence[n].incarnation
      BY <2>3 DEF EvidenceRow
    <3> QED  BY <2>3, <3>1, <1>13
  <2>4. ASSUME UNCHANGED manager_epoch, NEW p \in Plans, NEW inv \in [Procs -> Incarnation],
               inventory' = [inventory EXCEPT ![p] = inv], evidence' = Invalidated(OfPlan(p))
        PROVE  Goal(n)
    <3>1. evidence'[n].valid => evidence[n].plan # p
      BY <2>4, InvalidatedFacts DEF OfPlan
    <3> QED  BY <2>4, <3>1, <1>13, InvalidatedFacts
  <2>5. ASSUME UNCHANGED <<manager_epoch, evidence>>, NEW p \in Plans,
               NEW inv \in [Procs -> Incarnation],
               activation[p] = "LAUNCHING", inventory' = [inventory EXCEPT ![p] = inv]
        PROVE  Goal(n)
    <3>1. evidence[n].plan # p
      BY <2>5 DEF BeforeEvidence
    <3> QED  BY <2>5, <3>1, <1>13
  <2>6. CASE UNCHANGED inventory /\ evidence' = Invalidated(Nonces)
    BY <2>6, <1>13, InvalidatedFacts
  <2> HIDE DEF TypeOK, ValidIsCurrent, EvidenceAfterLaunch, Goal
  <2> QED  BY <1>3, <2>1, <2>2, <2>3, <2>4, <2>5, <2>6 DEF EvidenceStep
<1>15. ValidIsCurrent' /\ EvidenceAfterLaunch'
  BY <1>14 DEF ValidIsCurrent, EvidenceAfterLaunch
<1> QED  BY <1>5, <1>9, <1>10, <1>11, <1>12, <1>15 DEF TrafficFollowsCommit

\* A stuttering step keeps it.
LEMMA StutterInv ==
    ASSUME IInv, UNCHANGED vars
    PROVE  IInv'
BY DEF vars, IInv, TypeOK, CommitsAreUnique, ValidIsCurrent, TrafficFollowsCommit,
       PredecessorsCommitted, EvidenceAfterLaunch, CallsHaveBegun, Planned

\* The coordinator keeps its inductive invariant, for every set of plans and every
\* number of restarts.
THEOREM CoordinatorInvariant == Spec => []IInv
<1>1. IInv /\ [Next]_vars => IInv'
  BY StepInv, StutterInv
<1> QED  BY InitInv, <1>1, PTL DEF Spec

\* Two plans never commit on the same predecessor generation (commit's CAS).
THEOREM UniqueCommits == Spec => []CommitsAreUnique
<1>1. IInv => CommitsAreUnique
  BY DEF IInv
<1> QED  BY CoordinatorInvariant, <1>1, PTL

\* Valid evidence is about the current incarnations and the current manager
\* (boot, refresh_inventory, observe).
THEOREM EvidenceIsCurrent == Spec => []ValidIsCurrent
<1>1. IInv => ValidIsCurrent
  BY DEF IInv
<1> QED  BY CoordinatorInvariant, <1>1, PTL

\* Traffic is never on a plan that did not commit (plan, commit, recover, rollback).
THEOREM TrafficOnlyAfterCommit == Spec => []TrafficFollowsCommit
<1>1. IInv => TrafficFollowsCommit
  BY DEF IInv
<1> QED  BY CoordinatorInvariant, <1>1, PTL

-----------------------------------------------------------------------------
(* Action properties. *)

\* A step that is not the receipt of a recovery or a rollback sends no plan back.
LEMMA OthersDoNotGoBack ==
    ASSUME TypeOK, CallsHaveBegun, Steps, NEW q \in Plans, GoesBack(q)
    PROVE  (RecoverReceipt \/ RollbackReceipt) /\ cur = q
<1> USE DEF TypeOK, GoesBack
<1>1. CASE pc # "idle" /\ (RecoverReceipt \/ RollbackReceipt)
  <2>1. cur \in Plans
    BY <1>1
  <2> QED  BY <1>1, <2>1 DEF RecoverReceipt, RollbackReceipt, Conclude, Transition
<1>2. ~(PlanTraffic \/ CommitTraffic \/ RecoverTraffic \/ RollbackHost \/ Boot)
  BY DEF PlanTraffic, CommitTraffic, RecoverTraffic, RollbackHost, Boot, store
<1>3. ~\E n \in Nonces : ExpireEvidence(n)
  BY DEF ExpireEvidence
<1>4. ~(RollbackTraffic \/ PrepareReceipt(FALSE) \/ LaunchReceipt \/ CommitReceipt)
  BY DEF RollbackTraffic, PrepareReceipt, LaunchReceipt, CommitReceipt, Conclude,
         Transition, store
<1>5. ~LeaseFallback
  BY DEF LeaseFallback, Transition, CallsHaveBegun
<1>6. ASSUME NEW p \in Plans
      PROVE  ~(Plan(p) \/ Recover(p) \/ Prepare(p) \/ Launch(p) \/ ExternalLeaseLost(p)
               \/ Rollback(p) \/ ResumeObserving(p))
  BY DEF Plan, PlanInsert, Recover, Prepare, Launch, ExternalLeaseLost, Rollback,
         ResumeObserving, Transition, store
<1>7. ASSUME NEW p \in Plans
      PROVE  ~\E expected \in Nat : Commit(p, expected)
  BY DEF Commit, Transition
<1>8. ASSUME NEW p \in Plans
      PROVE  /\ ~\E n \in Nonces, w \in Procs : Observe(p, n, w)
             /\ ~\E inv \in [Procs -> Incarnation] : RefreshInventory(p, inv)
  BY DEF Observe, RefreshInventory
<1> HIDE DEF TypeOK, GoesBack
<1> QED  BY <1>1, <1>2, <1>3, <1>4, <1>5, <1>6, <1>7, <1>8
         DEF Steps, RecoverReceipt, RollbackReceipt

\* Recovery and rollback report only after the predecessor has its traffic back.
THEOREM PredecessorRestored == Spec => PredecessorIsBack
<1>1. ASSUME IInv, [Next]_vars, NEW q \in Plans, GoesBack(q)
      PROVE  traffic' = PredPlan[q]
  <2>1. CASE Next
    <3>1. (RecoverReceipt \/ RollbackReceipt) /\ cur = q
      BY <1>1, <2>1, NextIsSteps, OthersDoNotGoBack DEF IInv
    <3> QED  BY <1>1, <3>1 DEF IInv, CallsHaveBegun, RecoverReceipt, RollbackReceipt
  <2>2. CASE UNCHANGED vars
    BY <1>1, <2>2 DEF vars, GoesBack
  <2> QED  BY <1>1, <2>1, <2>2
<1>2. IInv /\ [Next]_vars => [\A p \in Plans : GoesBack(p) => traffic' = PredPlan[p]]_vars
  BY <1>1
<1> QED  BY CoordinatorInvariant, <1>2, PTL DEF Spec, PredecessorIsBack

\* Accepted evidence is never accepted again (observe's unique nonces; boot and
\* refresh_inventory only ever invalidate).
THEOREM EvidenceIsNotReplayed == Spec => NoReplay
<1> DEFINE Kept(n) ==
          /\ evidence'[n].valid => evidence[n].valid
          /\ evidence'[n].plan = evidence[n].plan
          /\ evidence'[n].proc = evidence[n].proc
          /\ evidence'[n].incarnation = evidence[n].incarnation
          /\ evidence'[n].manager_epoch = evidence[n].manager_epoch
<1>1. ASSUME IInv, Next, NEW n \in Nonces, evidence[n] # NoEvidence
      PROVE  Kept(n)
  <2>1. EvidenceStep
    BY <1>1, NextIsSteps, EveryEvidenceStep DEF IInv
  <2>2. evidence \in [Nonces -> EvidenceRow]
    BY <1>1 DEF IInv, TypeOK
  <2>3. ASSUME NEW m \in Nonces, evidence' = [evidence EXCEPT ![m].expired = TRUE]
        PROVE  Kept(n)
    BY <2>2, <2>3 DEF EvidenceRow
  <2>4. ASSUME NEW ns, evidence' = Invalidated(ns)
        PROVE  Kept(n)
    BY <2>2, <2>4, InvalidatedFacts
  <2>5. ASSUME NEW m \in Nonces, NEW e, evidence[m] = NoEvidence,
               evidence' = [evidence EXCEPT ![m] = e]
        PROVE  Kept(n)
    BY <1>1, <2>2, <2>5
  <2>6. CASE UNCHANGED evidence
    BY <2>6
  <2> HIDE DEF Kept
  <2> QED  BY <2>1, <2>3, <2>4, <2>5, <2>6 DEF EvidenceStep
<1>2. IInv /\ [Next]_vars => [\A n \in Nonces : evidence[n] # NoEvidence => Kept(n)]_vars
  BY <1>1
<1> QED  BY CoordinatorInvariant, <1>2, PTL DEF Spec, NoReplay
=============================================================================
