---------------------------- MODULE TraceOracle -----------------------------
(***************************************************************************)
(* evaluate_trace (src/vllm_hust_ext/exposure_gate.py): an offline oracle   *)
(* that reads the gate's tables and does not call the gate.  It replays    *)
(* the journal with a state graph of its own, pairs intents with receipts  *)
(* and checks every admission.  Here its checks are predicates on the      *)
(* gate's state, so that the gate and its oracle can be compared.          *)
(***************************************************************************)
EXTENDS ExposureGate

\* The oracle's own copy of the state graph; it has no rows for terminal states.
OracleAllowed ==
    [s \in GateState |->
        CASE s = "PREDECESSOR_OPEN" -> {"CANDIDATE_STAGED", "FAILED_SAFE", "SAFETY_UNKNOWN"}
          [] s = "CANDIDATE_STAGED" -> {"CANDIDATE_CLOSED"} \cup Terminal
          [] s = "CANDIDATE_CLOSED" -> {"OPENING"} \cup Terminal
          [] s = "OPENING" -> {"CANDIDATE_OPEN", "FAILED_SAFE", "SAFETY_UNKNOWN"}
          [] s = "CANDIDATE_OPEN" -> {"DRAINING"} \cup Terminal
          [] s = "DRAINING" -> {"CANDIDATE_OPEN"}
          [] s \in Terminal -> {}]

\* replay_state after the first n rows.
Moves(n) == {i \in 1..n : log[i].to_state # "none"}

ReplayState(n) ==
    IF Moves(n) = {} THEN "PREDECESSOR_OPEN"
    ELSE log[CHOOSE i \in Moves(n) : \A j \in Moves(n) : j <= i].to_state

UnknownTransitions ==
    {n \in DOMAIN log :
        /\ log[n].to_state \notin {"none", ReplayState(n - 1)}
        /\ log[n].to_state \notin OracleAllowed[ReplayState(n - 1)]}

\* pending after the first n rows: the operation ids of intents with no receipt since.
OraclePending(n) ==
    {log[i].operation_id : i \in
        {k \in 1..n : /\ log[k].kind = "intent"
                      /\ \A j \in k + 1..n :
                            log[j].kind = "receipt" =>
                                log[j].operation_id # log[k].operation_id}}

OrphanReceipts ==
    {n \in DOMAIN log :
        /\ log[n].kind = "receipt" /\ log[n].operation # "stage"
        /\ log[n].operation_id \notin OraclePending(n - 1)}

OpenReceipts ==
    {n \in DOMAIN log :
        /\ log[n].kind = "receipt" /\ log[n].to_state = "CANDIDATE_OPEN"
        /\ log[n].operation \in {"open", "open.reconcile", "open.reconcile.close_all"}}

FirstOpenSeq == CHOOSE n \in OpenReceipts : \A m \in OpenReceipts : n <= m

\* The fence of an open receipt is the one the open intent announced.
OpenFence == IF OpenReceipts = {} THEN "none" ELSE "cand"

FinalRouteMismatch ==
    /\ row.state = "CANDIDATE_OPEN"
    /\ \/ row.route_generation # "cand" \/ row.route_fence # OpenFence
       \/ row.observed_candidate # "cand"

AdmissionError(a) ==
    \/ /\ a.generation = "cand"
       /\ OpenReceipts = {} \/ a.transition_seq < FirstOpenSeq
    \/ /\ a.generation = "pred" /\ OpenReceipts # {}
       /\ a.transition_seq >= FirstOpenSeq
    \/ a.generation \notin {"pred", "cand"}
    \/ a.generation = "cand" /\ a.fence # OpenFence
    \/ a.generation = "pred" /\ a.fence # "pred"

-----------------------------------------------------------------------------
(* Properties. *)

\* Replaying the journal gives the durable state, and every row that moves the
\* state starts where the rows before it lead to and follows the gate's graph,
\* whatever was interrupted and retried.
ReplayMatchesDurable ==
    Staged =>
        /\ ReplayState(Len(log)) = row.state
        /\ \A n \in DOMAIN log : log[n].to_state # "none" =>
              /\ log[n].from_state = ReplayState(n - 1)
              /\ log[n].to_state \in Allowed[log[n].from_state] \cup {log[n].from_state}

\* The oracle finds nothing wrong with the admissions and the final route of any
\* history of the gate: no candidate admission before the open receipt, no
\* predecessor admission after it, no unknown generation or fence.  In the journal it
\* objects only to a rollback that began while draining, for which its graph has no row;
\* a receipt without an intent it finds only where a process has died.
OracleAcceptsAdmissions ==
    Staged =>
        /\ ~FinalRouteMismatch
        /\ \A n \in UnknownTransitions : ReplayState(n - 1) = "DRAINING"
        /\ crashes = 0 => OrphanReceipts = {}
        /\ \A r \in Requests : Admitted(r) => ~AdmissionError(admissions[r])
=============================================================================
