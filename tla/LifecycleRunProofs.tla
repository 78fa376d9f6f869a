------------------------- MODULE LifecycleRunProofs -------------------------
(***************************************************************************)
(* What a formal start reports rests on what happened, however many lines  *)
(* the SUT prints and however many datagrams are sent.                     *)
(***************************************************************************)
EXTENDS LifecycleRun, TLAPS

Collecting == {"identify", "receipt", "recheck", "commit", "settle", "finalize"}

Open == {"launch", "drive", "ack", "source"} \cup Collecting

\* A phase is collected once, after it was acknowledged, by a source of its own.
PhasesInOrder ==
    /\ AcksAreAnswers
    /\ \A k \in collected : k <= phase
    /\ pc \in Open => phase \notin collected
    /\ src # "none" <=> pc \in Collecting
    /\ pc \notin {"launch", "cleanup", "raised"} => sut # "none"

\* What the socket still holds tells how many receipts the source sent.
ReceiptsAreCounted ==
    /\ \A k \in Phases : k > phase => own[k] = 0
    /\ pc \in {"launch", "drive", "ack", "source"} => own[phase] = 0
    /\ src = "none" => chan = <<>>
    /\ pc \in {"identify", "receipt"} =>
          /\ chan = <<>> => own[phase] = 0
          /\ Len(chan) = 1 => own[phase] = (IF chan[1] = "own" THEN 1 ELSE 0)
    /\ pc \in {"recheck", "commit", "settle", "finalize"} => (chan = <<>> => own[phase] = 1)
    /\ pc = "finalize" => chan = <<>> /\ src = "ok"
    /\ FactIsSingle

\* What the source of a phase has to have seen.
Sighted(k) ==
    /\ k \in {Ready, Workload} => sight[k].sut = "alive"
    /\ k = Capture /\ Fault \in collected => sight[k].fault = "finalized"
    /\ k = Shutdown => sight[k].sut \notin {"none", "alive"}

FactsAreSighted ==
    /\ src \in {"waiting", "committing", "ok"} => Sighted(phase)
    /\ \A k \in collected : Sighted(k)
    /\ Fault \in collected => fault = "finalized"
    /\ status = "complete" => pc = "ended" /\ collected = Phases /\ ~premature

LifecycleInv == TypeOK /\ PhasesInOrder /\ ReceiptsAreCounted /\ FactsAreSighted

-----------------------------------------------------------------------------

\* Nothing has happened at first.
LEMMA InitInv == Init => LifecycleInv
  <1> SUFFICES ASSUME Init PROVE LifecycleInv
    OBVIOUS
  <1> USE BoundsAssumption DEF Init, Phases, Ready, Workload, Fault, Capture, Shutdown
  <1>1. ControlOK
    <2>1. sight \in [Phases -> [sut : Suts, fault : Faults]] /\ own \in [Phases -> Nat]
      BY DEF Suts, Faults
    <2>2. QED  BY <2>1 DEF ControlOK, Suts, Faults
  <1>2. FlagsOK
    BY DEF FlagsOK
  <1>3. LinesOK /\ chan \in Seq({"own", "child"})
    BY DEF LinesOK
  <1>4. PhasesInOrder /\ FactsAreSighted
    BY DEF PhasesInOrder, AcksAreAnswers, Open, Collecting, FactsAreSighted, Sighted
  <1>5. ReceiptsAreCounted
    BY DEF ReceiptsAreCounted, FactIsSingle
  <1>6. QED  BY <1>1, <1>2, <1>3, <1>4, <1>5 DEF LifecycleInv, TypeOK

\* No step leaves the types of what is not a sequence.
LEMMA ControlStep ==
    ASSUME LifecycleInv, [Next]_vars
    PROVE  ControlOK'
  <1> USE BoundsAssumption DEF Phases, Ready, Workload, Fault, Capture, Shutdown, runner,
                               service, source, ControlOK, TypeOK
  <1>1. TypeOK /\ PhasesInOrder /\ ReceiptsAreCounted /\ FactsAreSighted
    BY DEF LifecycleInv
  <1>2. CASE Launch
    BY <1>1, <1>2 DEF Launch, Suts
  <1>3. CASE LaunchFails
    BY <1>1, <1>3 DEF LaunchFails, Suts
  <1>4. CASE Drive
    BY <1>1, <1>4 DEF Drive
  <1>5. CASE ReadLine
    <2>1. /\ pc' \in {"source", "next"} /\ acked' \in {acked, acked \cup {phase}}
          /\ UNCHANGED <<phase, collected, status, source, observer, sut, noise>>
      BY <1>5 DEF ReadLine, Acknowledge
    <2>2. QED  BY <1>1, <2>1
  <1>6. CASE ReadTimeout
    BY <1>1, <1>6 DEF ReadTimeout, Acknowledge
  <1>7. CASE StartSource
    BY <1>1, <1>7 DEF StartSource
  <1>8. CASE StartFails
    BY <1>1, <1>8 DEF StartFails, NoFact, EndSource
  <1>9. CASE Identify
    <2>1. /\ pc' \in {"cleanup", "receipt"} /\ src' \in {"none", src}
          /\ UNCHANGED <<phase, acked, collected, status, service, own, stray, fault, sight,
                         observer>>
      BY <1>9 DEF Identify, EndSource
    <2>2. QED  BY <1>1, <2>1
  <1>10. CASE Receive
    <2>1. /\ pc' \in {"next", "recheck"} /\ src' \in {"none", src}
          /\ UNCHANGED <<phase, acked, collected, status, service, own, stray, fault, sight,
                         observer>>
      BY <1>10 DEF Receive, NoFact, EndSource
    <2>2. QED  BY <1>1, <2>1
  <1>11. CASE Recheck
    <2>1. /\ pc' \in {"next", "commit"} /\ src' \in {"none", src}
          /\ UNCHANGED <<phase, acked, collected, status, service, own, stray, fault, sight,
                         observer>>
      BY <1>11 DEF Recheck, NoFact, EndSource
    <2>2. QED  BY <1>1, <2>1
  <1>12. CASE ReceiptIsInvalid
    BY <1>1, <1>12 DEF ReceiptIsInvalid, NoFact, EndSource
  <1>13. CASE Commit
    BY <1>1, <1>13 DEF Commit, NoFact, EndSource, SourceEnded
  <1>14. CASE Settle
    BY <1>1, <1>14 DEF Settle, NoFact, EndSource, SourceEnded
  <1>15. CASE Collect
    BY <1>1, <1>15 DEF Collect, EndSource, Faults
  <1>16. CASE FinalizeFails
    BY <1>1, <1>16 DEF FinalizeFails, NoFact, EndSource
  <1>17. CASE Deadline
    BY <1>1, <1>17 DEF Deadline, NoFact, EndSource
  <1>18. CASE NextPhase
    BY <1>1, <1>18 DEF NextPhase
  <1>19. CASE CloseObserver
    BY <1>1, <1>19 DEF CloseObserver
  <1>20. CASE StopSut
    BY <1>1, <1>20 DEF StopSut, Suts
  <1>21. CASE Drain
    BY <1>1, <1>21 DEF Drain
  <1>22. CASE Judge
    BY <1>1, <1>22 DEF Judge
  <1>23. CASE Cleanup
    BY <1>1, <1>23 DEF Cleanup, Suts
  <1>24. CASE SutAnswers
    BY <1>1, <1>24 DEF SutAnswers
  <1>25. CASE SutPrints
    BY <1>1, <1>25 DEF SutPrints
  <1>26. CASE SutForks
    BY <1>1, <1>26 DEF SutForks
  <1>27. CASE DescendantExits
    BY <1>1, <1>27 DEF DescendantExits
  <1>28. CASE \E how \in {"exit", "failed"} : SutExits(how)
    BY <1>1, <1>28 DEF SutExits, Suts
  <1>29. CASE SourceReads
    BY <1>1, <1>29 DEF SourceReads
  <1>30. CASE SourceBinds
    BY <1>1, <1>30 DEF SourceBinds
  <1>31. CASE SourceSends
    <2>1. /\ src' = "waiting" /\ fault' \in {"prepared", fault}
          /\ own' = [own EXCEPT ![phase] = @ + 1]
          /\ sight' = [sight EXCEPT ![phase] = [sut |-> sut, fault |-> fault']]
          /\ UNCHANGED <<runner, service, observer, stray>>
      BY <1>31 DEF SourceSends
    <2>2. fault' \in Faults
      BY <1>1, <2>1 DEF Faults
    <2>3. sight' \in [Phases -> [sut : Suts, fault : Faults]] /\ own' \in [Phases -> Nat]
      <3>1. /\ own \in [Phases -> Nat] /\ phase \in Phases /\ sut \in Suts
            /\ sight \in [Phases -> [sut : Suts, fault : Faults]]
        BY <1>1
      <3>2. own' \in [Phases -> Nat]
        BY <2>1, <3>1
      <3>3. [sut |-> sut, fault |-> fault'] \in [sut : Suts, fault : Faults]
        BY <2>2, <3>1
      <3>4. sight' \in [Phases -> [sut : Suts, fault : Faults]]
        BY <2>1, <3>1, <3>3
      <3>5. QED  BY <3>2, <3>4
    <2>4. QED  BY <1>1, <2>1, <2>2, <2>3
  <1>32. CASE SourceCommits
    BY <1>1, <1>32 DEF SourceCommits
  <1>33. CASE SourceActs
    BY <1>1, <1>33 DEF SourceActs, Faults
  <1>34. CASE SourceExits
    BY <1>1, <1>34 DEF SourceExits
  <1>35. CASE SourceFails
    BY <1>1, <1>35 DEF SourceFails, Faults
  <1>36. CASE SourceDies
    BY <1>1, <1>36 DEF SourceDies
  <1>37. CASE \E kind \in {"own", "child"} : Stray(kind)
    <2>1. PICK kind \in {"own", "child"} : Stray(kind)
      BY <1>37
    <2>2. own \in [Phases -> Nat] /\ phase \in Phases /\ stray \in Nat
      BY <1>1
    <2>3. own' \in [Phases -> Nat]
      BY <2>1, <2>2 DEF Stray
    <2>4. stray' \in 0..MaxStray /\ UNCHANGED <<runner, service, observer, src, fault, sight>>
      BY <2>1, <2>2 DEF Stray
    <2>5. UNCHANGED <<phase, acked, collected, pc, sut, observer, fault, status, src, noise, sight>>
      BY <2>4
    <2>6. ControlOK /\ stray' \in 0..MaxStray
      BY <1>1, <2>4
    <2>7. QED  BY <2>3, <2>5, <2>6
  <1>38. CASE UNCHANGED vars
    BY <1>1, <1>38 DEF vars
  <1>39. QED
    BY <1>2, <1>3, <1>4, <1>5, <1>6, <1>7, <1>8, <1>9, <1>10, <1>11, <1>12, <1>13, <1>14,
       <1>15, <1>16, <1>17, <1>18, <1>19, <1>20, <1>21, <1>22, <1>23, <1>24, <1>25, <1>26,
       <1>27, <1>28, <1>29, <1>30, <1>31, <1>32, <1>33, <1>34, <1>35, <1>36, <1>37, <1>38
       DEF Next, Run, Environment

\* Lines are appended by the SUT and taken by the runner.
LEMMA LinesStep ==
    ASSUME LifecycleInv, [Next]_vars
    PROVE  LinesOK'
  <1>1. LinesOK /\ phase \in Phases
    BY DEF LifecycleInv, TypeOK, ControlOK
  <1>2. CASE SutAnswers
    <2>1. Head(inbox) \in Phases /\ inbox' \in Seq(Phases) /\ answered' \subseteq Phases
      BY <1>1, <1>2 DEF SutAnswers, LinesOK
    <2>2. out \in Seq({NoLine} \cup answered') /\ buf' \in Seq({NoLine} \cup answered')
      BY <1>1, <1>2 DEF SutAnswers, LinesOK
    <2>3. out' \in Seq({NoLine} \cup answered')
      BY <1>2, <2>2 DEF SutAnswers
    <2>4. QED  BY <2>1, <2>2, <2>3 DEF LinesOK
  <1>3. CASE SutPrints
    <2>1. out' \in Seq({NoLine} \cup answered)
      BY <1>1, <1>3 DEF SutPrints, LinesOK, NoLine
    <2>2. QED  BY <1>1, <1>3, <2>1 DEF SutPrints, LinesOK
  <1>4. CASE Drive
    <2>1. inbox' \in Seq(Phases)
      BY <1>1, <1>4 DEF Drive, LinesOK
    <2>2. QED  BY <1>1, <1>4, <2>1 DEF Drive, LinesOK
  <1>5. CASE ReadLine
    <2> DEFINE S == {NoLine} \cup answered
               lines == IF buf # <<>> THEN buf ELSE out
    <2>1. /\ out' = (IF buf # <<>> THEN out ELSE <<>>)
          /\ IF lines = <<>> THEN buf' = <<>> ELSE buf' = Tail(lines)
          /\ UNCHANGED <<inbox, answered>>
      BY <1>5 DEF ReadLine, Acknowledge
    <2>2. lines \in Seq(S) /\ <<>> \in Seq(S) /\ out' \in Seq(S)
      BY <1>1, <2>1 DEF LinesOK
    <2>3. buf' \in Seq(S)
      <3> HIDE DEF lines, S
      <3>1. CASE lines = <<>>
        BY <3>1, <2>1, <2>2
      <3>2. CASE lines # <<>>
        BY <3>2, <2>1, <2>2
      <3>3. QED  BY <3>1, <3>2
    <2>4. QED  BY <1>1, <2>1, <2>2, <2>3 DEF LinesOK
  <1>6. CASE /\ inbox' = inbox \/ inbox' = <<>>
             /\ out' = out \/ out' = <<>>
             /\ buf' = buf \/ buf' = <<>>
             /\ UNCHANGED answered
    <2>1. <<>> \in Seq(Phases) /\ <<>> \in Seq({NoLine} \cup answered)
      OBVIOUS
    <2>2. QED  BY <1>1, <1>6, <2>1 DEF LinesOK
  <1>7. CASE Run /\ ~Drive /\ ~ReadLine
    BY <1>6, <1>7
       DEF Run, service, source, Launch, LaunchFails, ReadTimeout, Acknowledge, StartSource,
           StartFails, Identify, Receive, Recheck, ReceiptIsInvalid, Commit, Settle, Collect,
           FinalizeFails, Deadline, NoFact, EndSource, NextPhase, CloseObserver, StopSut, Drain,
           Judge, Cleanup
  <1>8. CASE Environment /\ ~SutAnswers /\ ~SutPrints
    BY <1>6, <1>8
       DEF Environment, service, SutForks, DescendantExits, SutExits, SourceReads, SourceBinds,
           SourceSends, SourceCommits, SourceActs, SourceExits, SourceFails, SourceDies, Stray
  <1>9. CASE UNCHANGED vars
    BY <1>6, <1>9 DEF vars, service
  <1>10. QED  BY <1>2, <1>3, <1>4, <1>5, <1>7, <1>8, <1>9 DEF Next

\* Flags are raised and lowered.
LEMMA FlagsStep ==
    ASSUME LifecycleInv, [Next]_vars
    PROVE  FlagsOK'
  <1>1. FlagsOK
    BY DEF LifecycleInv, TypeOK
  <1>2. CASE /\ held' = held \/ held' = TRUE \/ held' = FALSE
             /\ commit' = commit \/ commit' = TRUE \/ commit' = FALSE
             /\ premature' = premature \/ premature' = (phase = Capture /\ sut # "alive")
    BY <1>1, <1>2, Zenon DEF FlagsOK
  <1>3. CASE Run
    BY <1>2, <1>3, Zenon
       DEF Run, runner, service, source, Launch, LaunchFails, Drive, ReadLine, ReadTimeout,
           Acknowledge,
           StartSource, StartFails, Identify, Receive, Recheck, ReceiptIsInvalid, Commit, Settle,
           Collect, FinalizeFails, Deadline, NoFact, EndSource, NextPhase, CloseObserver, StopSut,
           Drain, Judge, Cleanup
  <1>4. CASE Environment
    BY <1>2, <1>4, Zenon
       DEF Environment, runner, service, source, SutAnswers, SutPrints, SutForks, DescendantExits,
           SutExits, SourceReads, SourceBinds, SourceSends, SourceCommits, SourceActs,
           SourceExits, SourceFails, SourceDies, Stray
  <1>5. CASE UNCHANGED vars
    BY <1>2, <1>5, Zenon DEF vars, runner, service, source
  <1>6. QED  BY <1>3, <1>4, <1>5 DEF Next

\* Datagrams are sent, received and dropped.
LEMMA ChanStep ==
    ASSUME LifecycleInv, [Next]_vars
    PROVE  chan' \in Seq({"own", "child"})
  <1> DEFINE D == {"own", "child"}
  <1>1. chan \in Seq(D) /\ <<>> \in Seq(D)
    BY DEF LifecycleInv, TypeOK
  <1>2. CASE \/ chan' = chan \/ chan' = <<>>
             \/ chan # <<>> /\ chan' = Tail(chan)
             \/ \E d \in D : chan' = Append(chan, d)
    <2>1. chan' \in Seq(D)
      <3> HIDE DEF D
      <3>1. CASE chan' = chan \/ chan' = <<>>
        BY <1>1, <3>1
      <3>2. CASE chan # <<>> /\ chan' = Tail(chan)
        BY <1>1, <3>2
      <3>3. CASE \E d \in D : chan' = Append(chan, d)
        BY <1>1, <3>3
      <3>4. QED  BY <1>2, <3>1, <3>2, <3>3
    <2>2. QED  BY <2>1
  <1>3. CASE Run
    <2>1. CASE Receive
      BY <1>1, <1>2, <2>1 DEF Receive, NoFact, EndSource, SourceEnded
    <2>2. CASE Run /\ ~Receive
      BY <1>2, <2>2
         DEF Run, runner, service, source, Launch, LaunchFails, Drive, ReadLine, ReadTimeout,
           Acknowledge,
           StartSource, StartFails, Identify, Receive, Recheck, ReceiptIsInvalid, Commit, Settle,
           Collect, FinalizeFails, Deadline, NoFact, EndSource, NextPhase, CloseObserver, StopSut,
           Drain, Judge, Cleanup
    <2>3. QED  BY <1>3, <2>1, <2>2
  <1>4. CASE Environment
    BY <1>2, <1>4
       DEF Environment, runner, service, source, SutAnswers, SutPrints, SutForks, DescendantExits,
           SutExits, SourceReads, SourceBinds, SourceSends, SourceCommits, SourceActs,
           SourceExits, SourceFails, SourceDies, Stray
  <1>5. CASE UNCHANGED vars
    BY <1>2, <1>5 DEF vars, source
  <1>6. QED  BY <1>3, <1>4, <1>5 DEF Next

\* Acknowledgements are answers, and phases are collected in order.
LEMMA PhasesStep ==
    ASSUME LifecycleInv, [Next]_vars
    PROVE  PhasesInOrder'
  <1> USE DEF Phases, Ready, Workload, Fault, Capture, Shutdown, runner, service, source,
              PhasesInOrder, AcksAreAnswers, Open, Collecting, ControlOK, TypeOK
  <1>1. TypeOK /\ PhasesInOrder /\ ReceiptsAreCounted /\ FactsAreSighted
    BY DEF LifecycleInv
  <1>2. CASE Launch
    BY <1>1, <1>2 DEF Launch
  <1>3. CASE LaunchFails
    BY <1>1, <1>3 DEF LaunchFails
  <1>4. CASE Drive
    BY <1>1, <1>4 DEF Drive
  <1>5. CASE ReadLine
    <2> DEFINE lines == IF buf # <<>> THEN buf ELSE out
    <2>1. /\ pc = "ack" /\ pc' \in {"source", "next"}
          /\ UNCHANGED <<phase, collected, src, sut, answered>>
          /\ \/ acked' = acked
             \/ /\ acked' = acked \cup {phase}
                /\ phase = NoLine \/ (lines # <<>> /\ phase = Head(lines))
      BY <1>5 DEF ReadLine, Acknowledge, Causal
    <2>2. lines \in Seq({NoLine} \cup answered)
      BY <1>1 DEF LinesOK
    <2>3. lines # <<>> => Head(lines) \in {NoLine} \cup answered
      BY <2>2
    <2>4. acked' \subseteq answered
      <3> HIDE DEF lines
      <3>1. phase # NoLine /\ acked \subseteq answered
        BY <1>1 DEF NoLine
      <3>2. QED  BY <2>1, <2>3, <3>1
    <2>5. QED  BY <1>1, <2>1, <2>4
  <1>6. CASE ReadTimeout
    <2>1. phase # NoLine
      BY <1>1 DEF NoLine
    <2>2. QED  BY <1>1, <2>1, <1>6 DEF ReadTimeout, Acknowledge, Causal
  <1>7. CASE StartSource
    BY <1>1, <1>7 DEF StartSource
  <1>8. CASE StartFails
    BY <1>1, <1>8 DEF StartFails, NoFact, EndSource
  <1>9. CASE Identify
    BY <1>1, <1>9 DEF Identify, EndSource
  <1>10. CASE Receive
    <2>1. /\ pc = "receipt" /\ UNCHANGED <<acked, answered, collected, phase, sut>>
          /\ (pc' = "next" /\ src' = "none") \/ (pc' = "recheck" /\ src' = src)
      BY <1>10 DEF Receive, NoFact, EndSource
    <2>2. QED  BY <1>1, <2>1
  <1>11. CASE Recheck
    <2>1. /\ pc = "recheck" /\ UNCHANGED <<acked, answered, collected, phase, sut>>
          /\ (pc' = "next" /\ src' = "none") \/ (pc' = "commit" /\ src' = src)
      BY <1>11 DEF Recheck, NoFact, EndSource
    <2>2. QED  BY <1>1, <2>1
  <1>12. CASE ReceiptIsInvalid
    BY <1>1, <1>12 DEF ReceiptIsInvalid, NoFact, EndSource
  <1>13. CASE Commit
    <2>1. /\ pc = "commit" /\ UNCHANGED <<acked, answered, collected, phase, sut>>
          /\ (pc' = "next" /\ src' = "none") \/ (pc' = "settle" /\ src' = src)
      BY <1>13 DEF Commit, NoFact, EndSource
    <2>2. QED  BY <1>1, <2>1
  <1>14. CASE Settle
    <2>1. /\ pc = "settle" /\ UNCHANGED <<acked, answered, collected, phase, sut>>
          /\ (pc' = "next" /\ src' = "none") \/ (pc' = "finalize" /\ src' = src)
      BY <1>14 DEF Settle, NoFact, EndSource
    <2>2. QED  BY <1>1, <2>1
  <1>15. CASE Collect
    BY <1>1, <1>15 DEF Collect, EndSource
  <1>16. CASE FinalizeFails
    BY <1>1, <1>16 DEF FinalizeFails, NoFact, EndSource
  <1>17. CASE Deadline
    BY <1>1, <1>17 DEF Deadline, NoFact, EndSource
  <1>18. CASE NextPhase
    BY <1>1, <1>18 DEF NextPhase
  <1>19. CASE CloseObserver
    BY <1>1, <1>19 DEF CloseObserver
  <1>20. CASE StopSut
    BY <1>1, <1>20 DEF StopSut
  <1>21. CASE Drain
    BY <1>1, <1>21 DEF Drain
  <1>22. CASE Judge
    BY <1>1, <1>22 DEF Judge
  <1>23. CASE Cleanup
    BY <1>1, <1>23 DEF Cleanup
  <1>24. CASE SutAnswers
    BY <1>1, <1>24 DEF SutAnswers
  <1>25. CASE SutPrints
    BY <1>1, <1>25 DEF SutPrints
  <1>26. CASE SutForks
    BY <1>1, <1>26 DEF SutForks
  <1>27. CASE DescendantExits
    BY <1>1, <1>27 DEF DescendantExits
  <1>28. CASE \E how \in {"exit", "failed"} : SutExits(how)
    BY <1>1, <1>28 DEF SutExits
  <1>29. CASE SourceReads
    BY <1>1, <1>29 DEF SourceReads
  <1>30. CASE SourceBinds
    BY <1>1, <1>30 DEF SourceBinds
  <1>31. CASE SourceSends
    BY <1>1, <1>31 DEF SourceSends, ServiceAnswers, JournalsAnswer, ServiceIsGone
  <1>32. CASE SourceCommits
    BY <1>1, <1>32 DEF SourceCommits
  <1>33. CASE SourceActs
    BY <1>1, <1>33 DEF SourceActs
  <1>34. CASE SourceExits
    BY <1>1, <1>34 DEF SourceExits
  <1>35. CASE SourceFails
    BY <1>1, <1>35 DEF SourceFails
  <1>36. CASE SourceDies
    BY <1>1, <1>36 DEF SourceDies
  <1>37. CASE \E kind \in {"own", "child"} : Stray(kind)
    BY <1>1, <1>37 DEF Stray
  <1>38. CASE UNCHANGED vars
    BY <1>1, <1>38 DEF vars
  <1>39. QED
    BY <1>2, <1>3, <1>4, <1>5, <1>6, <1>7, <1>8, <1>9, <1>10, <1>11, <1>12, <1>13, <1>14,
       <1>15, <1>16, <1>17, <1>18, <1>19, <1>20, <1>21, <1>22, <1>23, <1>24, <1>25, <1>26,
       <1>27, <1>28, <1>29, <1>30, <1>31, <1>32, <1>33, <1>34, <1>35, <1>36, <1>37, <1>38
       DEF Next, Run, Environment

\* Receipts are counted by what is left in the socket.
LEMMA ReceiptsStep ==
    ASSUME LifecycleInv, [Next]_vars
    PROVE  ReceiptsAreCounted'
  <1> USE DEF Phases, Ready, Workload, Fault, Capture, Shutdown, runner, service, source,
              ReceiptsAreCounted, FactIsSingle, PhasesInOrder, Open, Collecting, ControlOK,
              TypeOK
  <1>1. TypeOK /\ PhasesInOrder /\ ReceiptsAreCounted /\ FactsAreSighted
    BY DEF LifecycleInv
  <1>2. CASE Launch
    BY <1>1, <1>2 DEF Launch
  <1>3. CASE LaunchFails
    BY <1>1, <1>3 DEF LaunchFails
  <1>4. CASE Drive
    BY <1>1, <1>4 DEF Drive
  <1>5. CASE ReadLine
    BY <1>1, <1>5 DEF ReadLine, Acknowledge
  <1>6. CASE ReadTimeout
    BY <1>1, <1>6 DEF ReadTimeout, Acknowledge
  <1>7. CASE StartSource
    BY <1>1, <1>7 DEF StartSource
  <1>8. CASE StartFails
    BY <1>1, <1>8 DEF StartFails, NoFact, EndSource
  <1>9. CASE Identify
    BY <1>1, <1>9 DEF Identify, EndSource
  <1>10. CASE Receive
    <2>1. CASE NoFact
      BY <1>1, <2>1, <1>10 DEF NoFact, EndSource, Receive
    <2>2. CASE ~NoFact
      <3>1. /\ chan # <<>> /\ Head(chan) = "own" /\ chan' = Tail(chan)
            /\ pc = "receipt" /\ pc' = "recheck"
            /\ UNCHANGED <<phase, collected, src, own>>
        BY <2>2, <1>10 DEF Receive, SourceEnded
      <3>2. chan' = <<>> => Len(chan) = 1 /\ chan[1] = "own"
        <4>1. chan \in Seq({"own", "child"})
          BY <1>1
        <4>2. Len(chan) \in Nat /\ Len(chan) > 0 /\ Head(chan) = chan[1]
              /\ Len(Tail(chan)) = Len(chan) - 1
          BY <3>1, <4>1
        <4>3. QED  BY <3>1, <4>2
      <3>3. chan' = <<>> => own[phase] = 1
        BY <1>1, <3>1, <3>2
      <3>4. QED  BY <1>1, <3>1, <3>3
    <2>3. QED  BY <2>1, <2>2
  <1>11. CASE Recheck
    <2>1. /\ pc = "recheck"
          /\ UNCHANGED <<acked, collected, phase, own, fault, sight, status, premature>>
          /\ \/ pc' = "next" /\ src' = "none" /\ chan' = <<>>
             \/ pc' = "commit" /\ src' = src /\ chan' = chan
      BY <1>11 DEF Recheck, NoFact, EndSource, SourceEnded
    <2>2. QED  BY <1>1, <2>1
  <1>12. CASE ReceiptIsInvalid
    BY <1>1, <1>12 DEF ReceiptIsInvalid, NoFact, EndSource
  <1>13. CASE Commit
    <2>1. /\ pc = "commit"
          /\ UNCHANGED <<acked, collected, phase, own, fault, sight, status, premature>>
          /\ \/ pc' = "next" /\ src' = "none" /\ chan' = <<>>
             \/ pc' = "settle" /\ src' = src /\ chan' = chan
      BY <1>13 DEF Commit, NoFact, EndSource, SourceEnded
    <2>2. QED  BY <1>1, <2>1
  <1>14. CASE Settle
    <2>1. /\ pc = "settle"
          /\ UNCHANGED <<acked, collected, phase, own, fault, sight, status, premature>>
          /\ \/ pc' = "next" /\ src' = "none" /\ chan' = <<>>
             \/ pc' = "finalize" /\ src' = src /\ chan' = chan /\ chan = <<>> /\ src = "ok"
      BY <1>14 DEF Settle, NoFact, EndSource, SourceEnded
    <2>2. QED  BY <1>1, <2>1
  <1>15. CASE Collect
    BY <1>1, <1>15 DEF Collect, EndSource
  <1>16. CASE FinalizeFails
    BY <1>1, <1>16 DEF FinalizeFails, NoFact, EndSource
  <1>17. CASE Deadline
    BY <1>1, <1>17 DEF Deadline, NoFact, EndSource
  <1>18. CASE NextPhase
    BY <1>1, <1>18 DEF NextPhase
  <1>19. CASE CloseObserver
    BY <1>1, <1>19 DEF CloseObserver
  <1>20. CASE StopSut
    BY <1>1, <1>20 DEF StopSut
  <1>21. CASE Drain
    BY <1>1, <1>21 DEF Drain
  <1>22. CASE Judge
    BY <1>1, <1>22 DEF Judge
  <1>23. CASE Cleanup
    BY <1>1, <1>23 DEF Cleanup
  <1>24. CASE SutAnswers
    BY <1>1, <1>24 DEF SutAnswers
  <1>25. CASE SutPrints
    BY <1>1, <1>25 DEF SutPrints
  <1>26. CASE SutForks
    BY <1>1, <1>26 DEF SutForks
  <1>27. CASE DescendantExits
    BY <1>1, <1>27 DEF DescendantExits
  <1>28. CASE \E how \in {"exit", "failed"} : SutExits(how)
    BY <1>1, <1>28 DEF SutExits
  <1>29. CASE SourceReads
    BY <1>1, <1>29 DEF SourceReads
  <1>30. CASE SourceBinds
    BY <1>1, <1>30 DEF SourceBinds
  <1>31. CASE SourceSends
    <2>1. /\ chan' = Append(chan, "own") /\ own' = [own EXCEPT ![phase] = @ + 1]
          /\ src \in {"working", "bound"} /\ src' = "waiting" /\ UNCHANGED <<pc, phase, collected>>
      BY <1>31 DEF SourceSends, ServiceAnswers, JournalsAnswer, ServiceIsGone
    <2>2. chan' # <<>> /\ (Len(chan') = 1 => chan = <<>> /\ chan'[1] = "own")
      <3>1. chan \in Seq({"own", "child"})
        BY <1>1
      <3>2. Len(chan') = Len(chan) + 1 /\ Len(chan) \in Nat /\ chan'[Len(chan) + 1] = "own"
        BY <2>1, <3>1
      <3>3. QED  BY <2>1, <3>1, <3>2
    <2>3. pc \in Collecting /\ pc # "finalize" /\ phase \notin collected
      BY <1>1, <2>1
    <2>4. pc \in {"identify", "receipt"} /\ Len(chan') = 1 =>
            own'[phase] = (IF chan'[1] = "own" THEN 1 ELSE 0)
      BY <1>1, <2>1, <2>2
    <2>5. \A k \in Phases : k # phase => own'[k] = own[k]
      BY <1>1, <2>1
    <2>6. FactIsSingle'
      BY <1>1, <2>1, <2>3, <2>5
    <2>7. \A k \in Phases : k > phase => own'[k] = 0
      BY <1>1, <2>5
    <2>8. QED  BY <2>1, <2>2, <2>3, <2>4, <2>6, <2>7
  <1>32. CASE SourceCommits
    BY <1>1, <1>32 DEF SourceCommits
  <1>33. CASE SourceActs
    BY <1>1, <1>33 DEF SourceActs
  <1>34. CASE SourceExits
    BY <1>1, <1>34 DEF SourceExits
  <1>35. CASE SourceFails
    BY <1>1, <1>35 DEF SourceFails
  <1>36. CASE SourceDies
    BY <1>1, <1>36 DEF SourceDies
  <1>37. CASE \E kind \in {"own", "child"} : Stray(kind)
    <2>1. PICK kind \in {"own", "child"} : Stray(kind)
      BY <1>37
    <2>2. /\ chan' = Append(chan, kind) /\ src \notin {"none", "ok", "failed"}
          /\ own' = (IF kind = "own" THEN [own EXCEPT ![phase] = @ + 1] ELSE own)
          /\ UNCHANGED <<pc, phase, collected, src>>
      BY <2>1 DEF Stray
    <2>3. chan' # <<>> /\ (Len(chan') = 1 => chan = <<>> /\ chan'[1] = kind)
      BY <1>1, <2>2
    <2>4. pc \in {"identify", "receipt"} /\ Len(chan') = 1 =>
            own'[phase] = (IF chan'[1] = "own" THEN 1 ELSE 0)
      BY <1>1, <2>2, <2>3
    <2>5. \A k \in Phases : k # phase => own'[k] = own[k]
      BY <1>1, <2>2
    <2>6. pc \in Collecting /\ pc # "finalize" /\ phase \notin collected
      BY <1>1, <2>2
    <2>7. FactIsSingle'
      BY <1>1, <2>2, <2>5, <2>6
    <2>8. \A k \in Phases : k > phase => own'[k] = 0
      BY <1>1, <2>5
    <2>9. QED  BY <2>2, <2>3, <2>4, <2>6, <2>7, <2>8
  <1>38. CASE UNCHANGED vars
    BY <1>1, <1>38 DEF vars
  <1>39. QED
    BY <1>2, <1>3, <1>4, <1>5, <1>6, <1>7, <1>8, <1>9, <1>10, <1>11, <1>12, <1>13, <1>14,
       <1>15, <1>16, <1>17, <1>18, <1>19, <1>20, <1>21, <1>22, <1>23, <1>24, <1>25, <1>26,
       <1>27, <1>28, <1>29, <1>30, <1>31, <1>32, <1>33, <1>34, <1>35, <1>36, <1>37, <1>38
       DEF Next, Run, Environment

\* What a source saw stays what its phase was collected for.
LEMMA SightsStep ==
    ASSUME LifecycleInv, [Next]_vars
    PROVE  FactsAreSighted'
  <1> USE DEF Phases, Ready, Workload, Fault, Capture, Shutdown, runner, service, source,
              FactsAreSighted, Sighted, PhasesInOrder, Open, Collecting, ControlOK, TypeOK
  <1>1. TypeOK /\ PhasesInOrder /\ ReceiptsAreCounted /\ FactsAreSighted
    BY DEF LifecycleInv
  <1>2. CASE Launch
    BY <1>1, <1>2 DEF Launch
  <1>3. CASE LaunchFails
    BY <1>1, <1>3 DEF LaunchFails
  <1>4. CASE Drive
    BY <1>1, <1>4 DEF Drive
  <1>5. CASE ReadLine
    BY <1>1, <1>5 DEF ReadLine, Acknowledge
  <1>6. CASE ReadTimeout
    BY <1>1, <1>6 DEF ReadTimeout, Acknowledge
  <1>7. CASE StartSource
    BY <1>1, <1>7 DEF StartSource
  <1>8. CASE StartFails
    BY <1>1, <1>8 DEF StartFails, NoFact, EndSource
  <1>9. CASE Identify
    BY <1>1, <1>9 DEF Identify, EndSource
  <1>10. CASE Receive
    BY <1>1, <1>10 DEF Receive, NoFact, EndSource, SourceEnded
  <1>11. CASE Recheck
    <2>1. /\ pc = "recheck"
          /\ UNCHANGED <<acked, collected, phase, own, fault, sight, status, premature>>
          /\ \/ pc' = "next" /\ src' = "none" /\ chan' = <<>>
             \/ pc' = "commit" /\ src' = src /\ chan' = chan
      BY <1>11 DEF Recheck, NoFact, EndSource, SourceEnded
    <2>2. QED  BY <1>1, <2>1
  <1>12. CASE ReceiptIsInvalid
    BY <1>1, <1>12 DEF ReceiptIsInvalid, NoFact, EndSource
  <1>13. CASE Commit
    <2>1. /\ pc = "commit"
          /\ UNCHANGED <<acked, collected, phase, own, fault, sight, status, premature>>
          /\ \/ pc' = "next" /\ src' = "none" /\ chan' = <<>>
             \/ pc' = "settle" /\ src' = src /\ chan' = chan
      BY <1>13 DEF Commit, NoFact, EndSource, SourceEnded
    <2>2. QED  BY <1>1, <2>1
  <1>14. CASE Settle
    <2>1. /\ pc = "settle"
          /\ UNCHANGED <<acked, collected, phase, own, fault, sight, status, premature>>
          /\ \/ pc' = "next" /\ src' = "none" /\ chan' = <<>>
             \/ pc' = "finalize" /\ src' = src /\ chan' = chan /\ chan = <<>> /\ src = "ok"
      BY <1>14 DEF Settle, NoFact, EndSource, SourceEnded
    <2>2. QED  BY <1>1, <2>1
  <1>15. CASE Collect
    <2>1. /\ pc = "finalize" /\ pc' = "next" /\ src' = "none" /\ collected' = collected \cup {phase}
          /\ fault' = (IF phase = Fault THEN "finalized" ELSE fault)
          /\ UNCHANGED <<phase, sight, status, premature>>
      BY <1>15 DEF Collect, EndSource
    <2>2. src = "ok" /\ phase \notin collected /\ \A k \in collected : k < phase
      BY <1>1, <2>1 DEF ReceiptsAreCounted
    <2>3. \A k \in collected' : Sighted(k)'
      BY <1>1, <2>1, <2>2
    <2>4. QED  BY <1>1, <2>1, <2>2, <2>3
  <1>16. CASE FinalizeFails
    BY <1>1, <1>16 DEF FinalizeFails, NoFact, EndSource
  <1>17. CASE Deadline
    BY <1>1, <1>17 DEF Deadline, NoFact, EndSource
  <1>18. CASE NextPhase
    BY <1>1, <1>18 DEF NextPhase
  <1>19. CASE CloseObserver
    BY <1>1, <1>19 DEF CloseObserver
  <1>20. CASE StopSut
    BY <1>1, <1>20 DEF StopSut
  <1>21. CASE Drain
    BY <1>1, <1>21 DEF Drain
  <1>22. CASE Judge
    <2>1. /\ pc' = "ended" /\ UNCHANGED <<phase, acked, collected, premature, src, sight, fault>>
          /\ status' = "complete" => Oracle
      BY <1>22 DEF Judge
    <2>2. QED  BY <1>1, <2>1 DEF Oracle
  <1>23. CASE Cleanup
    BY <1>1, <1>23 DEF Cleanup
  <1>24. CASE SutAnswers
    BY <1>1, <1>24 DEF SutAnswers
  <1>25. CASE SutPrints
    BY <1>1, <1>25 DEF SutPrints
  <1>26. CASE SutForks
    BY <1>1, <1>26 DEF SutForks
  <1>27. CASE DescendantExits
    BY <1>1, <1>27 DEF DescendantExits
  <1>28. CASE \E how \in {"exit", "failed"} : SutExits(how)
    BY <1>1, <1>28 DEF SutExits
  <1>29. CASE SourceReads
    BY <1>1, <1>29 DEF SourceReads
  <1>30. CASE SourceBinds
    BY <1>1, <1>30 DEF SourceBinds
  <1>31. CASE SourceSends
    <2>1. /\ \/ phase \in {Ready, Workload} /\ sut = "alive"
             \/ phase \in {Fault, Capture}
             \/ phase = Shutdown /\ sut # "alive"
          /\ src \in {"working", "bound"} /\ src' = "waiting"
          /\ fault' = (IF phase = Fault THEN "prepared" ELSE fault)
          /\ sight' = [sight EXCEPT ![phase] = [sut |-> sut, fault |-> fault']]
          /\ UNCHANGED <<pc, phase, collected, premature, status>>
      BY <1>31 DEF SourceSends, ServiceAnswers, JournalsAnswer, ServiceIsGone
    <2>2. pc \in Collecting /\ phase \notin collected /\ sut # "none" /\ phase \in Phases
      BY <1>1, <2>1
    <2>3. DOMAIN sight = Phases
      BY <1>1
    <2>4. /\ sight'[phase] = [sut |-> sut, fault |-> fault']
          /\ \A k \in Phases : k # phase => sight'[k] = sight[k]
      BY <2>1, <2>2, <2>3
    <2>5. Sighted(phase)'
      BY <1>1, <2>1, <2>2, <2>4
    <2>6. \A k \in collected' : Sighted(k)'
      BY <1>1, <2>1, <2>2, <2>4
    <2>7. QED  BY <1>1, <2>1, <2>2, <2>5, <2>6
  <1>32. CASE SourceCommits
    BY <1>1, <1>32 DEF SourceCommits
  <1>33. CASE SourceActs
    BY <1>1, <1>33 DEF SourceActs
  <1>34. CASE SourceExits
    BY <1>1, <1>34 DEF SourceExits
  <1>35. CASE SourceFails
    BY <1>1, <1>35 DEF SourceFails
  <1>36. CASE SourceDies
    BY <1>1, <1>36 DEF SourceDies
  <1>37. CASE \E kind \in {"own", "child"} : Stray(kind)
    BY <1>1, <1>37 DEF Stray
  <1>38. CASE UNCHANGED vars
    BY <1>1, <1>38 DEF vars
  <1>39. QED
    BY <1>2, <1>3, <1>4, <1>5, <1>6, <1>7, <1>8, <1>9, <1>10, <1>11, <1>12, <1>13, <1>14,
       <1>15, <1>16, <1>17, <1>18, <1>19, <1>20, <1>21, <1>22, <1>23, <1>24, <1>25, <1>26,
       <1>27, <1>28, <1>29, <1>30, <1>31, <1>32, <1>33, <1>34, <1>35, <1>36, <1>37, <1>38
       DEF Next, Run, Environment

\* The invariant holds whenever the SUT, the sources and the deadlines act.
THEOREM LifecycleInvariant == Spec => []LifecycleInv
  <1>1. LifecycleInv /\ [Next]_vars => LifecycleInv'
    <2> SUFFICES ASSUME LifecycleInv, [Next]_vars PROVE LifecycleInv'
      OBVIOUS
    <2>1. TypeOK'
      BY ControlStep, FlagsStep, LinesStep, ChanStep DEF TypeOK
    <2>2. QED
      BY <2>1, PhasesStep, ReceiptsStep, SightsStep DEF LifecycleInv
  <1>2. QED  BY <1>1, InitInv, PTL DEF Spec

\* drive: an acknowledged phase was answered by the SUT.
THEOREM AcksAnswered == Spec => []AcksAreAnswers
  <1>1. LifecycleInv => AcksAreAnswers
    BY DEF LifecycleInv, PhasesInOrder
  <1>2. QED  BY <1>1, LifecycleInvariant, PTL

\* run_lifecycle_fact_source: a collected fact rests on one receipt of its source.
THEOREM FactsSingle == Spec => []FactIsSingle
  <1>1. LifecycleInv => FactIsSingle
    BY DEF LifecycleInv, ReceiptsAreCounted
  <1>2. QED  BY <1>1, LifecycleInvariant, PTL

\* _run_start_impl: a complete start saw the service live, work, lose its journal and end, in
\* this order.
THEOREM CompleteWitnessed == Spec => []CompleteIsWitnessed
  <1>1. LifecycleInv => CompleteIsWitnessed
    BY DEF LifecycleInv, FactsAreSighted, Sighted, CompleteIsWitnessed, Phases, Ready, Workload,
           Fault, Capture, Shutdown
  <1>2. QED  BY <1>1, LifecycleInvariant, PTL

=============================================================================
