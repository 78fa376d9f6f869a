-------------------------- MODULE ActivationStore ---------------------------
(***************************************************************************)
(* The SQLite store of the activation coordinator and the coordinator's    *)
(* own steps on it (src/vllm_hust_ext/durable_coordinator.py).  A call is  *)
(* a sequence of transactions and adapter effects; pc names the next one.  *)
(* Steps that reach the traffic gate are not here: a composing module says *)
(* what happens at the labels "*.traffic", for the plain TrafficGate       *)
(* (Coordinator) or for the reference exposure gate (GatedActivation).     *)
(*                                                                         *)
(* An obligation of a plan with its role and ordinal is one required       *)
(* process in Procs.  A process incarnation (start id and epoch) is a      *)
(* positive number; 0 is a process the host did not report.  A refused     *)
(* call changes nothing and is not an action.  One manager at a time works *)
(* on a store: opening it again is Boot.                                   *)
(***************************************************************************)
EXTENDS Naturals

CONSTANTS
    Plans,           \* plan ids
    PredGeneration,  \* [Plans -> Nat]: plan.predecessor.generation
    FallbackProven,  \* [Plans -> BOOLEAN]: plan.fallback_proven
    Procs,           \* processes the obligations require evidence of
    Nonces,          \* attestation nonces
    MaxIncarnation,  \* bound: incarnations of a process
    MaxEpoch         \* bound: manager epochs, one more than restarts

ASSUME StoreAssumption ==
    /\ PredGeneration \in [Plans -> Nat]
    /\ FallbackProven \in [Plans -> BOOLEAN]
    /\ Procs # {}
    /\ MaxIncarnation \in Nat /\ MaxEpoch \in Nat
    /\ "none" \notin Plans

VARIABLES
    generation,     \* meta.generation
    manager_epoch,  \* meta.manager_epoch, and the manager's copy of it
    activation,     \* activation.state of each plan, "absent" without a row
    committed,      \* plans with a commit entry in the journal's WAL
    host_receipt,   \* the newest rollback.host receipt of each plan
    outcome,        \* the rollback_outcome row of each plan
    inventory,      \* incarnation of each plan's processes
    evidence,       \* the evidence table, by nonce
    pc, cur         \* the call in progress: its next step and its plan

store == <<generation, manager_epoch, activation, committed, host_receipt, outcome,
           inventory, evidence>>
call == <<pc, cur>>

State == {"PLANNED", "PREPARING", "PREPARED", "LAUNCHING", "OBSERVING", "COMMIT_READY",
          "EFFECTIVE", "DEGRADED", "RECONCILE", "ROLLBACK", "ROLLED_BACK",
          "FAILED_SAFE", "SAFETY_UNKNOWN"}

Incarnation == 0..MaxIncarnation

NoEvidence == [plan |-> "none", proc |-> "none", incarnation |-> 0, manager_epoch |-> 0,
               valid |-> FALSE, expired |-> FALSE]

\* TRANSITIONS, without Intent: a plan's row is inserted as Planned.
Transitions ==
    [s \in State |->
        CASE s = "PLANNED" -> {"PREPARING"}
          [] s = "PREPARING" -> {"PREPARED", "RECONCILE"}
          [] s = "PREPARED" -> {"LAUNCHING", "ROLLBACK"}
          [] s = "LAUNCHING" -> {"OBSERVING", "RECONCILE"}
          [] s = "OBSERVING" -> {"COMMIT_READY", "DEGRADED", "RECONCILE", "ROLLBACK"}
          [] s = "COMMIT_READY" -> {"EFFECTIVE", "RECONCILE", "FAILED_SAFE"}
          [] s = "EFFECTIVE" -> {"DEGRADED", "ROLLBACK"}
          [] s = "DEGRADED" -> {"RECONCILE", "ROLLBACK"}
          [] s = "RECONCILE" -> {"OBSERVING", "ROLLBACK", "FAILED_SAFE"}
          [] s = "ROLLBACK" -> {"ROLLED_BACK", "FAILED_SAFE", "SAFETY_UNKNOWN"}
          [] s \in {"ROLLED_BACK", "FAILED_SAFE", "SAFETY_UNKNOWN"} -> {}]

Idle == pc = "idle"
Done == pc' = "idle" /\ cur' = "none"
Goto(label, p) == pc' = label /\ cur' = p
Planned(p) == activation[p] # "absent"

\* _transition
Transition(p, target) ==
    /\ Planned(p) /\ target \in Transitions[activation[p]]
    /\ activation' = [activation EXCEPT ![p] = target]

Init ==
    /\ generation = 0 /\ manager_epoch = 1
    /\ activation = [p \in Plans |-> "absent"]
    /\ committed = {}
    /\ host_receipt = [p \in Plans |-> "none"]
    /\ outcome = [p \in Plans |-> "none"]
    /\ inventory = [p \in Plans |-> [w \in Procs |-> 0]]
    /\ evidence = [n \in Nonces |-> NoEvidence]
    /\ pc = "idle" /\ cur = "none"

-----------------------------------------------------------------------------
(* plan, prepare and launch. *)

\* The row is inserted; a plan id that is there already is refused.
PlanInsert(p) ==
    /\ Idle /\ ~Planned(p)
    /\ activation' = [activation EXCEPT ![p] = "PLANNED"]
    /\ Goto("plan.traffic", p)
    /\ UNCHANGED <<generation, manager_epoch, committed, host_receipt, outcome,
                   inventory, evidence>>

Prepare(p) ==
    /\ Idle /\ Transition(p, "PREPARING")
    /\ Goto("prepare.host", p)
    /\ UNCHANGED <<generation, manager_epoch, committed, host_receipt, outcome,
                   inventory, evidence>>

\* host.prepare, which may raise, and its receipt; an exposure gate is then closed.
PrepareReceipt(gated) ==
    /\ pc = "prepare.host"
    /\ \/ UNCHANGED activation /\ Done
       \/ /\ Transition(cur, "PREPARED")
          /\ IF gated THEN Goto("prepare.traffic", cur) ELSE Done
    /\ UNCHANGED <<generation, manager_epoch, committed, host_receipt, outcome,
                   inventory, evidence>>

Launch(p) ==
    /\ Idle /\ Transition(p, "LAUNCHING")
    /\ Goto("launch.host", p)
    /\ UNCHANGED <<generation, manager_epoch, committed, host_receipt, outcome,
                   inventory, evidence>>

\* host.launch, which may raise; the receipt's transaction replaces the inventory.
LaunchReceipt ==
    /\ pc = "launch.host" /\ Done
    /\ \/ UNCHANGED <<activation, inventory>>
       \/ /\ Transition(cur, "OBSERVING")
          /\ \E inv \in [Procs -> Incarnation] :
                inventory' = [inventory EXCEPT ![cur] = inv]
    /\ UNCHANGED <<generation, manager_epoch, committed, host_receipt, outcome, evidence>>

-----------------------------------------------------------------------------
(* Evidence. *)

Observable(p) == activation[p] \in {"OBSERVING", "RECONCILE"}

\* Faulty: a nonce may be used again.
NonceIsNewUnchecked(n) == TRUE

NonceIsNew(n) == evidence[n] = NoEvidence

\* observe: an attestation of the incarnation in the inventory; any other one is
\* STALE_EVIDENCE, a known nonce REPLAYED_NONCE.
Observe(p, n, w) ==
    /\ Idle /\ Observable(p) /\ NonceIsNew(n)
    /\ inventory[p][w] # 0
    /\ evidence' = [evidence EXCEPT ![n] =
          [plan |-> p, proc |-> w, incarnation |-> inventory[p][w],
           manager_epoch |-> manager_epoch, valid |-> TRUE, expired |-> FALSE]]
    /\ UNCHANGED <<generation, manager_epoch, activation, committed, host_receipt,
                   outcome, inventory, call>>

Invalidated(ns) ==
    [n \in Nonces |-> IF n \in ns THEN [evidence[n] EXCEPT !.valid = FALSE] ELSE evidence[n]]

OfPlan(p) == {n \in Nonces : evidence[n].plan = p}

\* Faulty: the evidence of the processes that were replaced stays valid.
RefreshInventoryOnly(p, inv) ==
    /\ Idle /\ Observable(p)
    /\ inventory' = [inventory EXCEPT ![p] = inv]
    /\ UNCHANGED <<generation, manager_epoch, activation, committed, host_receipt,
                   outcome, evidence, call>>

RefreshInventory(p, inv) ==
    /\ Idle /\ Observable(p)
    /\ inventory' = [inventory EXCEPT ![p] = inv]
    /\ evidence' = Invalidated(OfPlan(p))
    /\ UNCHANGED <<generation, manager_epoch, activation, committed, host_receipt,
                   outcome, call>>

\* The clock passes an attestation's expires_at.
ExpireEvidence(n) ==
    /\ evidence[n] # NoEvidence /\ ~evidence[n].expired
    /\ evidence' = [evidence EXCEPT ![n].expired = TRUE]
    /\ UNCHANGED <<generation, manager_epoch, activation, committed, host_receipt,
                   outcome, inventory, call>>

Covers(n, p, w) ==
    LET e == evidence[n]
    IN  /\ e.plan = p /\ e.proc = w
        /\ e.valid /\ e.manager_epoch = manager_epoch /\ ~e.expired
        /\ e.incarnation = inventory[p][w]

EvidenceComplete(p) ==
    \A w \in Procs : inventory[p][w] # 0 /\ \E n \in Nonces : Covers(n, p, w)

-----------------------------------------------------------------------------
(* commit: the transaction that claims the generation, and the receipt.     *)

\* Faulty: the plan's own predecessor generation is not compared.
GenerationIsExpectedOnly(p, expected) == generation = expected

\* The conditional update of meta, and the plan's own predecessor generation.
GenerationIs(p, expected) == generation = expected /\ PredGeneration[p] = expected

\* Faulty: the generation is compared but not claimed.
CommitWithoutClaim(p, expected) ==
    /\ Idle /\ EvidenceComplete(p)
    /\ Transition(p, "COMMIT_READY")
    /\ GenerationIs(p, expected)
    /\ committed' = committed \cup {p}
    /\ Goto("commit.traffic", p)
    /\ UNCHANGED <<generation, manager_epoch, host_receipt, outcome, inventory, evidence>>

\* A CAS miss rolls the whole transaction back.
Commit(p, expected) ==
    /\ Idle /\ EvidenceComplete(p)
    /\ Transition(p, "COMMIT_READY")
    /\ GenerationIs(p, expected)
    /\ generation' = generation + 1
    /\ committed' = committed \cup {p}
    /\ Goto("commit.traffic", p)
    /\ UNCHANGED <<manager_epoch, host_receipt, outcome, inventory, evidence>>

CommitReceipt ==
    /\ pc = "commit.receipt" /\ Done
    /\ Transition(cur, "EFFECTIVE")
    /\ UNCHANGED <<generation, manager_epoch, committed, host_receipt, outcome,
                   inventory, evidence>>

-----------------------------------------------------------------------------
(* external_lease_lost, on its own or from a commit that finds the lease    *)
(* invalid; rollback up to the traffic.                                     *)

ExternalLeaseLost(p) ==
    /\ Idle /\ Transition(p, "DEGRADED")
    /\ Goto("lease.lost", p)
    /\ UNCHANGED <<generation, manager_epoch, committed, host_receipt, outcome,
                   inventory, evidence>>

LeaseFallback ==
    /\ pc = "lease.lost" /\ FallbackProven[cur]
    /\ Transition(cur, "RECONCILE") /\ Done
    /\ UNCHANGED <<generation, manager_epoch, committed, host_receipt, outcome,
                   inventory, evidence>>

Rollback(p) ==
    /\ Idle \/ (pc = "lease.lost" /\ cur = p /\ ~FallbackProven[p])
    /\ Transition(p, "ROLLBACK")
    /\ Goto("rollback.host", p)
    /\ UNCHANGED <<generation, manager_epoch, committed, host_receipt, outcome,
                   inventory, evidence>>

RollbackHost ==
    /\ pc = "rollback.host"
    /\ \E result \in {"ok", "error"} :
          host_receipt' = [host_receipt EXCEPT ![cur] = result]
    /\ Goto("rollback.traffic", cur)
    /\ UNCHANGED <<generation, manager_epoch, activation, committed, outcome,
                   inventory, evidence>>

\* Nothing but the state graph is consulted.
ResumeObserving(p) ==
    /\ Idle /\ Transition(p, "OBSERVING")
    /\ UNCHANGED <<generation, manager_epoch, committed, host_receipt, outcome, inventory,
                   evidence, call>>

\* The end of a rollback: one transaction with the rollback_outcome row.
Conclude(p, target) ==
    /\ Transition(p, target)
    /\ outcome' = [outcome EXCEPT ![p] =
          IF target = "ROLLED_BACK" THEN "success" ELSE "failure"]
    /\ Done
    /\ UNCHANGED <<generation, manager_epoch, committed, host_receipt, inventory, evidence>>

-----------------------------------------------------------------------------
(* The manager dies, in a call or between two, and the store is opened again. *)

Boot ==
    /\ manager_epoch < MaxEpoch
    /\ manager_epoch' = manager_epoch + 1
    /\ evidence' = Invalidated(Nonces)
    /\ Done
    /\ UNCHANGED <<generation, activation, committed, host_receipt, outcome, inventory>>

-----------------------------------------------------------------------------
\* Steps that need no traffic gate.
StoreStep ==
    \/ \E p \in Plans :
          \/ Prepare(p) \/ Launch(p)
          \/ ExternalLeaseLost(p) \/ Rollback(p) \/ ResumeObserving(p)
          \/ \E n \in Nonces, w \in Procs : Observe(p, n, w)
          \/ \E inv \in [Procs -> Incarnation] : RefreshInventory(p, inv)
    \/ \E n \in Nonces : ExpireEvidence(n)
    \/ LaunchReceipt \/ LeaseFallback \/ RollbackHost
=============================================================================
