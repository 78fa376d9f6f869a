----------------------------- MODULE Supervision -----------------------------
(***************************************************************************)
(* The two ways in which the manager owns a process tree: supervise        *)
(* ("run", process_supervisor.py) and launch_managed ("formal-run",        *)
(* manager_controller.py).  Signals arrive between any two steps of the    *)
(* manager; the child and its descendants fork, exit and ignore polite     *)
(* signals as they like, and die of SIGKILL some time after it was sent.   *)
(***************************************************************************)
EXTENDS Naturals, Sequences

CONSTANTS
    Workers,     \* processes that the child may fork into its group
    MaxSignals   \* signals that the manager receives

Child == "child"

ASSUME MaxSignalsAssumption == MaxSignals \in Nat

ASSUME WorkersAssumption == Child \notin Workers

VARIABLES
    entry,       \* "run" or "formal-run"
    pc,          \* where the manager stands
    known,       \* Popen has returned the child
    received,    \* the signals received
    escalated,   \* the wait loop has sent SIGKILL
    grace,       \* the grace period: "idle", "running" or "over"
    limit,       \* the deadline of _cleanup_survivors, likewise
    life,        \* "unborn", "alive", "zombie" or "gone", by process
    mark,        \* the strongest signal sent to a process: "none", "term", "kill"
    cause,       \* how the child ended: "none", "own" or "signal"
    result       \* "none", "exit" (the child's own code) or "signal" (128 + signum)

supervision_vars ==
    <<entry, pc, known, received, escalated, grace, limit, life, mark, cause, result>>

Members == Workers \cup {Child}

Ended == {"done", "raised", "died"}

SupervisionInit ==
    /\ entry \in {"run", "formal-run"} /\ pc = "popen" /\ known = FALSE /\ received = <<>>
    /\ escalated = FALSE /\ grace = "idle" /\ limit = "idle"
    /\ life = [m \in Members |-> "unborn"] /\ mark = [m \in Members |-> "none"]
    /\ cause = "none" /\ result = "none"

-----------------------------------------------------------------------------
(* The process group. *)

tree == <<life, mark, cause>>

Exists == \E m \in Members : life[m] \in {"alive", "zombie"}

Marked(level) ==
    [m \in Members |-> IF life[m] = "alive" /\ mark[m] # "kill" THEN level ELSE mark[m]]

SignalTree(level) == mark' = Marked(level)

\* A descendant that ends is reaped by its parent or by init, the child by the manager.
MemberExits(m) ==
    /\ life[m] = "alive"
    /\ life' = [life EXCEPT ![m] = IF m = Child THEN "zombie" ELSE "gone"]
    /\ IF m # Child THEN UNCHANGED cause
       ELSE cause' = (IF mark[m] = "none" THEN "own" ELSE "signal")
    /\ UNCHANGED <<entry, pc, known, received, escalated, grace, limit, mark, result>>

Fork(w) ==
    /\ life[w] = "unborn" /\ \E m \in Members : life[m] = "alive" /\ mark[m] # "kill"
    /\ life' = [life EXCEPT ![w] = "alive"]
    /\ UNCHANGED <<entry, pc, known, received, escalated, grace, limit, mark, cause, result>>

\* The kernel's child.wait, which every path ends with.
Reap(label) ==
    /\ life[Child] = "zombie"
    /\ life' = [life EXCEPT ![Child] = "gone"] /\ pc' = label
    /\ UNCHANGED <<mark, cause>>

-----------------------------------------------------------------------------
(* Starting the child. *)

\* formal-run refuses a plan, an environment or a target; Popen fails.
RefuseLaunch ==
    /\ pc = "popen" /\ pc' = "raised"
    /\ UNCHANGED <<entry, known, received, escalated, grace, limit, tree, result>>

Popen ==
    /\ pc = "popen" /\ pc' = "started" /\ life' = [life EXCEPT ![Child] = "alive"]
    /\ UNCHANGED <<entry, known, received, escalated, grace, limit, mark, cause, result>>

\* formal-run installs its handlers only now.
PopenReturns ==
    /\ pc = "started" /\ known' = TRUE
    /\ pc' = (IF entry = "run" THEN "replay" ELSE "formal.wait")
    /\ UNCHANGED <<entry, received, escalated, grace, limit, tree, result>>

\* Signals that came while there was no child to forward them to.
Replay ==
    /\ pc = "replay" /\ pc' = "wait"
    /\ IF received # <<>> THEN SignalTree("term") ELSE UNCHANGED mark
    /\ UNCHANGED <<entry, known, received, escalated, grace, limit, life, cause, result>>

-----------------------------------------------------------------------------
(* supervise *)

Forward ==
    /\ received' = Append(received, "term")
    /\ grace' = (IF received = <<>> THEN "running" ELSE grace)
    /\ IF known THEN SignalTree(IF received # <<>> THEN "kill" ELSE "term") ELSE UNCHANGED mark
    /\ UNCHANGED <<entry, pc, known, escalated, limit, life, cause, result>>

WaitReap ==
    /\ pc = "wait" /\ Reap("survivors")
    /\ limit' = (IF received # <<>> THEN grace ELSE "running")
    /\ UNCHANGED <<entry, known, received, escalated, grace, result>>

\* Faulty: the wrong branch of the test whether a signal was received.
WaitTimeoutIdle ==
    /\ pc = "wait" /\ life[Child] # "zombie"
    /\ received = <<>> /\ ~escalated /\ grace = "over"
    /\ SignalTree("kill") /\ escalated' = TRUE
    /\ UNCHANGED <<entry, pc, known, received, grace, limit, life, cause, result>>

WaitTimeout ==
    /\ pc = "wait" /\ life[Child] # "zombie"
    /\ received # <<>> /\ ~escalated /\ grace = "over"
    /\ SignalTree("kill") /\ escalated' = TRUE
    /\ UNCHANGED <<entry, pc, known, received, grace, limit, life, cause, result>>

\* Faulty: descendants are left alone when the child ended by itself.
SurvivorsIfSignalled ==
    /\ pc = "survivors"
    /\ IF Exists /\ received # <<>> THEN SignalTree("term") /\ pc' = "drain"
       ELSE UNCHANGED mark /\ pc' = "return"
    /\ UNCHANGED <<entry, known, received, escalated, grace, limit, life, cause, result>>

Survivors ==
    /\ pc = "survivors"
    /\ IF Exists THEN SignalTree("term") /\ pc' = "drain" ELSE UNCHANGED mark /\ pc' = "return"
    /\ UNCHANGED <<entry, known, received, escalated, grace, limit, life, cause, result>>

Drain ==
    /\ pc = "drain" /\ (~Exists \/ limit = "over") /\ pc' = "return"
    /\ IF Exists THEN SignalTree("kill") ELSE UNCHANGED mark
    /\ UNCHANGED <<entry, known, received, escalated, grace, limit, life, cause, result>>

Return ==
    /\ pc = "return" /\ pc' = "done"
    /\ result' = (IF received # <<>> THEN "signal" ELSE "exit")
    /\ UNCHANGED <<entry, known, received, escalated, grace, limit, tree>>

-----------------------------------------------------------------------------
(* launch_managed *)

\* SIGINT and SIGTERM raise _ManagedTermination in process.wait; raised again, it leaves
\* the except clause and the function.
Interrupt ==
    /\ received' = Append(received, "term")
    /\ pc' = (CASE pc = "formal.wait" -> "formal.term"
                [] pc \in {"formal.term", "formal.grace", "formal.kill"} -> "raised"
                [] OTHER -> "died")
    /\ UNCHANGED <<entry, known, escalated, grace, limit, tree, result>>

\* SIGHUP, and any signal before the handlers are in place, ends the manager.
Die ==
    /\ pc' = "died" /\ received' = Append(received, "hup")
    /\ UNCHANGED <<entry, known, escalated, grace, limit, tree, result>>

FormalWait ==
    /\ pc = "formal.wait" /\ Reap("done") /\ result' = "exit"
    /\ UNCHANGED <<entry, known, received, escalated, grace, limit>>

FormalTerminate ==
    /\ pc = "formal.term" /\ life[Child] # "zombie"
    /\ SignalTree("term") /\ grace' = "running" /\ pc' = "formal.grace"
    /\ UNCHANGED <<entry, known, received, escalated, limit, life, cause, result>>

FormalKill ==
    /\ pc = "formal.grace" /\ life[Child] # "zombie" /\ grace = "over"
    /\ SignalTree("kill") /\ pc' = "formal.kill"
    /\ UNCHANGED <<entry, known, received, escalated, grace, limit, life, cause, result>>

FormalReap ==
    /\ pc \in {"formal.term", "formal.grace", "formal.kill"} /\ Reap("done")
    /\ result' = "signal"
    /\ UNCHANGED <<entry, known, received, escalated, grace, limit>>

-----------------------------------------------------------------------------
Signal ==
    /\ Len(received) < MaxSignals /\ pc \notin Ended
    /\ \/ entry = "run" /\ Forward
       \/ entry = "formal-run" /\ (Interrupt \/ Die)

GraceEnds ==
    /\ grace = "running" /\ grace' = "over"
    /\ UNCHANGED <<entry, pc, known, received, escalated, limit, tree, result>>

LimitEnds ==
    /\ limit = "running" /\ limit' = "over"
    /\ UNCHANGED <<entry, pc, known, received, escalated, grace, tree, result>>

Manage ==
    \/ Popen \/ PopenReturns \/ Replay
    \/ WaitReap \/ WaitTimeout \/ Survivors \/ Drain \/ Return
    \/ FormalWait \/ FormalTerminate \/ FormalKill \/ FormalReap

SupervisionNext ==
    \/ Manage \/ RefuseLaunch \/ Signal \/ GraceEnds \/ LimitEnds
    \/ \E m \in Members : MemberExits(m)
    \/ \E w \in Workers : Fork(w)

SupervisionSpec == SupervisionInit /\ [][SupervisionNext]_supervision_vars

\* The manager's code goes on, clocks advance, and the kernel delivers SIGKILL.
SupervisionFairSpec ==
    /\ SupervisionSpec /\ WF_supervision_vars(Manage)
    /\ WF_supervision_vars(GraceEnds) /\ WF_supervision_vars(LimitEnds)
    /\ \A m \in Members : WF_supervision_vars(MemberExits(m) /\ mark[m] = "kill")

-----------------------------------------------------------------------------
(* Properties. *)

\* The variables have their types, and the handlers know the child once Popen returned.
SupervisionTypeOK ==
    /\ entry \in {"run", "formal-run"} /\ known \in BOOLEAN /\ escalated \in BOOLEAN
    /\ pc \in {"popen", "started", "replay", "wait", "survivors", "drain", "return",
               "formal.wait", "formal.term", "formal.grace", "formal.kill"} \cup Ended
    /\ pc \notin {"popen", "started"} \cup Ended => known
    /\ received \in Seq({"term", "hup"}) /\ Len(received) <= MaxSignals
    /\ grace \in {"idle", "running", "over"} /\ limit \in {"idle", "running", "over"}
    /\ life \in [Members -> {"unborn", "alive", "zombie", "gone"}]
    /\ mark \in [Members -> {"none", "term", "kill"}]
    /\ cause \in {"none", "own", "signal"} /\ result \in {"none", "exit", "signal"}

\* "The direct child is always reaped, and surviving descendants are terminated before the
\* Manager returns": when supervise returns, whatever still runs has been sent SIGKILL and
\* can start nothing new.  launch_managed reaps its child when it returns.
TreeIsEnded ==
    pc = "done" =>
        /\ life[Child] = "gone"
        /\ entry = "run" => \A w \in Workers : life[w] = "alive" => mark[w] = "kill"

\* The code of the child is passed on only if the child ended by itself; otherwise the
\* manager reports the signal.
ExitIsItsOwn == result = "exit" => cause = "own"

\* No process of a group stays once supervise was signalled, whatever it ignores and
\* whenever it was forked.
SignalledTreeEnds ==
    entry = "run" /\ received # <<>> ~>
        pc \in Ended /\ \A m \in Members : life[m] \in {"unborn", "gone"}

=============================================================================
