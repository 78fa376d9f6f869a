---------------------------- MODULE LifecycleRun ----------------------------
(***************************************************************************)
(* One formal-real start of the false-effective experiment                 *)
(* (experiments/false_effective/runner.py): the runner drives the system   *)
(* under test (SUT) through five phases and, for each that the SUT         *)
(* acknowledges, has an independent source process establish the fact      *)
(* (formal_lifecycle_source.py).  The runner takes the source's receipt    *)
(* from a datagram socket, commits it over the source's stdin, and lets    *)
(* the source end.  Everything may time out, end or print at any moment.   *)
(*                                                                         *)
(* The fault of the third phase is the quarantine transaction of           *)
(* Quarantine; here it is one of four states.  What HTTP and the journals  *)
(* answer is a choice of the source to succeed or to fail.                 *)
(***************************************************************************)
EXTENDS Naturals, Sequences, FiniteSets

CONSTANTS
    MaxNoise,    \* lines that the SUT prints on its own
    MaxStray     \* datagrams beyond the source's receipt

ASSUME BoundsAssumption == MaxNoise \in Nat /\ MaxStray \in Nat

Phases == 1..5
Ready == 1
Workload == 2
Fault == 3
Capture == 4
Shutdown == 5

VARIABLES
    pc, phase,   \* where the runner stands
    sut,         \* "none", "alive", or how it ended: "exit", "term", "failed"
    inbox,       \* instructions that the SUT has not answered
    out, buf,    \* lines in its stdout pipe, and those the runner's reader has taken in
    held,        \* a descendant of the SUT has its stdout open
    noise,       \* lines printed on its own
    src,         \* the source: "none", "started", "working", "bound", "waiting", "committing",
                 \* or how it ended: "ok", "failed"
    chan,        \* datagrams not received
    own,         \* receipts that the source of a phase sent itself
    stray,       \* other datagrams sent
    commit,      \* the runner has written its commit
    fault,       \* "none", "prepared", "applied", "finalized"
    observer,    \* "none", "alive", "ok", "failed", "timeout"
    acked, collected, premature,
    answered,    \* phases that the SUT answered
    sight,       \* what held when the source of a phase sent its receipt
    status       \* "none", "complete", "failed"

runner == <<pc, phase, acked, collected, premature, status>>
service == <<sut, inbox, out, buf, held, noise, answered>>
source == <<src, chan, own, stray, commit, fault, sight>>
vars == <<runner, service, source, observer>>

Init ==
    /\ pc = "launch" /\ phase = Ready /\ sut = "none" /\ inbox = <<>> /\ out = <<>> /\ buf = <<>>
    /\ held = FALSE /\ noise = 0 /\ src = "none" /\ chan = <<>> /\ own = [k \in Phases |-> 0]
    /\ stray = 0 /\ commit = FALSE /\ fault = "none" /\ observer = "none" /\ acked = {}
    /\ collected = {} /\ premature = FALSE /\ answered = {} /\ status = "none"
    /\ sight = [k \in Phases |-> [sut |-> "none", fault |-> "none"]]

SourceEnded == src \in {"ok", "failed"}

-----------------------------------------------------------------------------
(* The system under test. *)

SutAnswers ==
    /\ sut = "alive" /\ inbox # <<>>
    /\ inbox' = Tail(inbox) /\ out' = Append(out, Head(inbox))
    /\ answered' = answered \cup {Head(inbox)}
    /\ UNCHANGED <<runner, source, observer, sut, buf, held, noise>>

SutPrints ==
    /\ sut = "alive" /\ noise < MaxNoise /\ noise' = noise + 1 /\ out' = Append(out, 0)
    /\ UNCHANGED <<runner, source, observer, sut, inbox, buf, held, answered>>

SutForks ==
    /\ sut = "alive" /\ ~held /\ held' = TRUE
    /\ UNCHANGED <<runner, source, observer, sut, inbox, out, buf, noise, answered>>

SutExits(how) ==
    /\ sut = "alive" /\ sut' = how /\ inbox' = <<>>
    /\ UNCHANGED <<runner, source, observer, out, buf, held, noise, answered>>

DescendantExits ==
    /\ held /\ held' = FALSE
    /\ UNCHANGED <<runner, source, observer, sut, inbox, out, buf, noise, answered>>

-----------------------------------------------------------------------------
(* formal_lifecycle_source.main *)

\* Nothing is done before the request, which the runner writes once it has the identity.
SourceReads ==
    /\ src = "started" /\ pc # "identify" /\ src' = "working"
    /\ UNCHANGED <<runner, service, observer, chan, own, stray, commit, fault, sight>>

\* The shutdown source binds the identity of the SUT, then waits for it to end.
SourceBinds ==
    /\ src = "working" /\ phase = Shutdown /\ sut = "alive" /\ src' = "bound"
    /\ UNCHANGED <<runner, service, observer, chan, own, stray, commit, fault, sight>>

ServiceAnswers == phase \in {Ready, Workload} /\ src = "working" /\ sut = "alive"

JournalsAnswer == phase \in {Fault, Capture} /\ src = "working"

ServiceIsGone == phase = Shutdown /\ src = "bound" /\ sut # "alive"

SourceSends ==
    /\ ServiceAnswers \/ JournalsAnswer \/ ServiceIsGone
    /\ src' = "waiting" /\ chan' = Append(chan, "own")
    /\ own' = [own EXCEPT ![phase] = @ + 1]
    /\ fault' = (IF phase = Fault THEN "prepared" ELSE fault)
    /\ sight' = [sight EXCEPT ![phase] = [sut |-> sut, fault |-> fault']]
    /\ UNCHANGED <<runner, service, observer, stray, commit>>

SourceCommits ==
    /\ src = "waiting" /\ commit /\ src' = "committing"
    /\ UNCHANGED <<runner, service, observer, chan, own, stray, commit, fault, sight>>

SourceActs ==
    /\ src = "committing" /\ phase = Fault /\ fault = "prepared" /\ fault' = "applied"
    /\ UNCHANGED <<runner, service, observer, src, chan, own, stray, commit, sight>>

SourceExits ==
    /\ src = "committing" /\ (phase = Fault => fault = "applied") /\ src' = "ok"
    /\ UNCHANGED <<runner, service, observer, chan, own, stray, commit, fault, sight>>

\* A failure releases what was prepared and restores what was applied.
SourceFails ==
    /\ src \notin {"none", "ok", "failed"} /\ src' = "failed"
    /\ fault' = (IF phase = Fault THEN "none" ELSE fault)
    /\ UNCHANGED <<runner, service, observer, chan, own, stray, commit, sight>>

SourceDies ==
    /\ src \notin {"none", "ok", "failed"} /\ src' = "failed"
    /\ UNCHANGED <<runner, service, observer, chan, own, stray, commit, fault, sight>>

\* A registered command may send again, or leave the descriptor to a child that does.
Stray(kind) ==
    /\ stray < MaxStray /\ src \notin {"none", "ok", "failed"}
    /\ stray' = stray + 1 /\ chan' = Append(chan, kind)
    /\ own' = (IF kind = "own" THEN [own EXCEPT ![phase] = @ + 1] ELSE own)
    /\ UNCHANGED <<runner, service, observer, src, commit, fault, sight>>

-----------------------------------------------------------------------------
(* _run_start_impl: launch and drive *)

Launch ==
    /\ pc = "launch" /\ pc' = "drive" /\ sut' = "alive" /\ observer' = "alive"
    /\ UNCHANGED <<phase, acked, collected, premature, status, source, inbox, out, buf, held,
                   noise, answered>>

\* A process cannot be started, or ended before its identity could be read.
LaunchFails ==
    /\ pc = "launch" /\ pc' = "cleanup" /\ sut' \in {"none", "alive", "failed"}
    /\ observer' \in (IF sut' = "alive" THEN {"none", "alive", "failed"} ELSE {"none"})
    /\ UNCHANGED <<phase, acked, collected, premature, status, source, inbox, out, buf, held,
                   noise, answered>>

Drive ==
    /\ pc = "drive" /\ pc' = "ack"
    /\ inbox' = (IF sut = "alive" THEN Append(inbox, phase) ELSE inbox)
    /\ UNCHANGED <<phase, acked, collected, premature, status, source, observer, sut, out, buf,
                   held, noise, answered>>

Readable == out # <<>> \/ (sut # "alive" /\ ~held)

NoLine == 0

\* Faulty: takes any line for an acknowledgement.
CausalAnyLine(line) == line # NoLine

\* The challenge in the acknowledgement is that of this phase.
Causal(line) == line = phase

Acknowledge(line) ==
    /\ IF Causal(line) THEN acked' = acked \cup {phase} /\ pc' = "source"
       ELSE UNCHANGED acked /\ pc' = "next"
    /\ UNCHANGED <<phase, collected, premature, status, source, observer, sut, inbox, held,
                   noise, answered>>

\* select looks at the pipe; readline returns the oldest line the reader holds, and takes in
\* all of the pipe only if it holds none.
ReadLine ==
    /\ pc = "ack" /\ Readable
    /\ LET buffered == buf # <<>>
           lines == IF buffered THEN buf ELSE out
       IN  /\ out' = (IF buffered THEN out ELSE <<>>)
           /\ IF lines = <<>> THEN buf' = <<>> /\ Acknowledge(NoLine)
              ELSE buf' = Tail(lines) /\ Acknowledge(Head(lines))

ReadTimeout == pc = "ack" /\ ~Readable /\ Acknowledge(NoLine) /\ UNCHANGED <<out, buf>>

-----------------------------------------------------------------------------
(* run_lifecycle_fact_source *)

\* Whatever ends the collection kills the source's group.
EndSource(label) ==
    /\ pc' = label /\ src' = "none" /\ chan' = <<>> /\ commit' = FALSE
    /\ UNCHANGED <<phase, acked, premature, status, service, observer, own, stray, sight>>

NoFact == EndSource("next") /\ UNCHANGED <<collected, fault>>

StartSource ==
    /\ pc = "source" /\ pc' = "identify" /\ src' = "started"
    /\ UNCHANGED <<phase, acked, collected, premature, status, service, observer, chan, own,
                   stray, commit, fault, sight>>

StartFails == pc = "source" /\ NoFact

\* A source that ends before its identity was read, or runs another executable, is a
\* RuntimeError, which drive passes on.
Identify ==
    /\ pc = "identify"
    /\ \/ EndSource("cleanup") /\ UNCHANGED <<collected, fault>>
       \/ /\ ~SourceEnded /\ pc' = "receipt"
          /\ UNCHANGED <<phase, acked, collected, premature, status, service, source, observer>>

Receive ==
    /\ pc = "receipt" /\ (chan # <<>> \/ SourceEnded)
    /\ IF SourceEnded \/ Head(chan) # "own" THEN NoFact
       ELSE /\ chan' = Tail(chan) /\ pc' = "recheck"
            /\ UNCHANGED <<phase, acked, collected, premature, status, service, observer, src,
                           own, stray, commit, fault, sight>>

\* The identity again, no second datagram, and the receipt bound to the request.
Recheck ==
    /\ pc = "recheck"
    /\ IF SourceEnded \/ chan # <<>> THEN NoFact
       ELSE /\ pc' = "commit"
            /\ UNCHANGED <<phase, acked, collected, premature, status, service, source, observer>>

ReceiptIsInvalid == pc = "recheck" /\ NoFact

Commit ==
    /\ pc = "commit"
    /\ IF SourceEnded THEN NoFact
       ELSE /\ commit' = TRUE /\ pc' = "settle"
            /\ UNCHANGED <<phase, acked, collected, premature, status, service, observer, src,
                           chan, own, stray, fault, sight>>

\* Faulty: does not look for further datagrams.
SettleOnce ==
    /\ pc = "settle" /\ SourceEnded
    /\ IF src # "ok" THEN NoFact
       ELSE /\ pc' = "finalize"
            /\ UNCHANGED <<phase, acked, collected, premature, status, service, source, observer>>

Settle ==
    /\ pc = "settle" /\ (chan # <<>> \/ SourceEnded)
    /\ IF chan # <<>> \/ src # "ok" THEN NoFact
       ELSE /\ pc' = "finalize"
            /\ UNCHANGED <<phase, acked, collected, premature, status, service, source, observer>>

\* The runner finalizes the fault's transaction; the other facts need no more.
Collect ==
    /\ pc = "finalize" /\ EndSource("next") /\ collected' = collected \cup {phase}
    /\ fault' = (IF phase = Fault THEN "finalized" ELSE fault)

\* Output on stdout, a receipt that is refused, or a transaction that cannot be finalized.
FinalizeFails == pc = "finalize" /\ NoFact

\* Faulty: waits for the source to end without a deadline.
DeadlineForReceipt == pc \in {"identify", "receipt"} /\ NoFact

Deadline == pc \in {"identify", "receipt", "settle"} /\ NoFact

-----------------------------------------------------------------------------
(* _run_start_impl: the end of the start *)

\* Every phase is driven, whatever became of the ones before.
NextPhase ==
    /\ pc = "next" /\ phase < Shutdown /\ pc' = "drive" /\ phase' = phase + 1
    /\ premature' = (phase = Capture /\ sut # "alive")
    /\ UNCHANGED <<acked, collected, status, service, source, observer>>

\* Nothing is sent to the observer of a formal start, so when it ended does not matter.
CloseObserver ==
    /\ pc = "next" /\ phase = Shutdown /\ pc' = "stop"
    /\ observer' \in (IF observer = "alive" THEN {"ok", "failed", "timeout"} ELSE {observer})
    /\ UNCHANGED <<phase, acked, collected, premature, status, service, source>>

StopSut ==
    /\ pc = "stop" /\ pc' = "drain"
    /\ sut' \in (IF sut = "alive" THEN {"exit", "term", "failed"} ELSE {sut}) /\ inbox' = <<>>
    /\ UNCHANGED <<phase, acked, collected, premature, status, source, observer, out, buf, held,
                   noise, answered>>

\* communicate reads until every holder of the pipe has closed it.
Drain ==
    /\ pc = "drain" /\ ~held /\ pc' = "judge" /\ out' = <<>> /\ buf' = <<>>
    /\ UNCHANGED <<phase, acked, collected, premature, status, source, observer, sut, inbox,
                   held, noise, answered>>

\* Faulty: goes by the SUT's acknowledgements alone.
OracleOfAcks == acked = Phases /\ ~premature

\* The oracle's PASS, as far as the runner's own records decide it.
Oracle == acked = Phases /\ collected = Phases /\ ~premature

\* The exit code of the start is the SUT's unless everything went well.
ExitCodeIsZero ==
    \/ Oracle /\ sut \in {"exit", "term"} /\ observer = "ok"
    \/ sut = "exit"

Judge ==
    /\ pc = "judge" /\ pc' = "ended"
    /\ status' \in (IF ExitCodeIsZero /\ observer # "timeout" /\ Oracle
                    THEN {"complete", "failed"} ELSE {"failed"})
    /\ UNCHANGED <<phase, acked, collected, premature, service, source, observer>>

\* _run_start's finally clause, after an exception.
Cleanup ==
    /\ pc = "cleanup" /\ pc' = "raised"
    /\ sut' = (IF sut = "alive" THEN "failed" ELSE sut) /\ inbox' = <<>>
    /\ observer' = (IF observer = "alive" THEN "failed" ELSE observer)
    /\ UNCHANGED <<phase, acked, collected, premature, status, source, out, buf, held, noise,
                   answered>>

-----------------------------------------------------------------------------
Run ==
    \/ Launch \/ LaunchFails \/ Drive \/ ReadLine \/ ReadTimeout
    \/ StartSource \/ StartFails \/ Identify \/ Receive \/ Recheck \/ ReceiptIsInvalid \/ Commit
    \/ Settle \/ Collect \/ FinalizeFails \/ Deadline
    \/ NextPhase \/ CloseObserver \/ StopSut \/ Drain \/ Judge \/ Cleanup

Environment ==
    \/ SutAnswers \/ SutPrints \/ SutForks \/ DescendantExits
    \/ \E how \in {"exit", "failed"} : SutExits(how)
    \/ SourceReads \/ SourceBinds \/ SourceSends \/ SourceCommits \/ SourceActs \/ SourceExits
    \/ SourceFails \/ SourceDies \/ \E kind \in {"own", "child"} : Stray(kind)

Next == Run \/ Environment

Spec == Init /\ [][Next]_vars

\* The runner goes on; a deadline passes if nothing else lets it.
FairSpec == Spec /\ WF_vars(Run)

-----------------------------------------------------------------------------
(* Properties. *)

Suts == {"none", "alive", "exit", "term", "failed"}

Faults == {"none", "prepared", "applied", "finalized"}

ControlOK ==
    /\ phase \in Phases /\ acked \subseteq Phases /\ collected \subseteq Phases
    /\ pc \in {"launch", "drive", "ack", "source", "identify", "receipt", "recheck", "commit",
               "settle", "finalize", "next", "stop", "drain", "judge", "ended", "cleanup",
               "raised"}
    /\ sut \in Suts
    /\ observer \in {"none", "alive", "ok", "failed", "timeout"}
    /\ fault \in Faults /\ status \in {"none", "complete", "failed"}
    /\ src \in {"none", "started", "working", "bound", "waiting", "committing", "ok", "failed"}
    /\ noise \in 0..MaxNoise /\ stray \in 0..MaxStray
    /\ own \in [Phases -> Nat] /\ sight \in [Phases -> [sut : Suts, fault : Faults]]

FlagsOK == held \in BOOLEAN /\ premature \in BOOLEAN /\ commit \in BOOLEAN

LinesOK ==
    /\ answered \subseteq Phases /\ inbox \in Seq(Phases)
    /\ out \in Seq({NoLine} \cup answered) /\ buf \in Seq({NoLine} \cup answered)

\* The runner, the SUT, the source and the observer are in known states, and the lines of the
\* SUT are its own or answers.
TypeOK == ControlOK /\ FlagsOK /\ LinesOK /\ chan \in Seq({"own", "child"})

\* A phase counts as acknowledged only if the SUT answered it: a late answer to an earlier
\* phase, read one phase too late, is no acknowledgement (drive compares the challenge).
AcksAreAnswers == acked \subseteq answered

\* A complete start saw a living service become ready and do its work, captured the journals
\* after the fault had been injected and finalized, and saw the service end after that.
CompleteIsWitnessed ==
    status = "complete" =>
        /\ sight[Ready].sut = "alive" /\ sight[Workload].sut = "alive"
        /\ sight[Capture].fault = "finalized" /\ fault = "finalized"
        /\ sight[Shutdown].sut \notin {"none", "alive"} /\ ~premature

\* A collected fact rests on the one receipt that its source sent ("emitted duplicate
\* receipts", run_lifecycle_fact_source), whenever another was sent.
FactIsSingle == \A k \in collected : own[k] = 1

\* Every start ends, or waits for a descendant of the SUT to close its output.
StartEnds == []<>(pc \in {"ended", "raised"} \/ held)
=============================================================================
