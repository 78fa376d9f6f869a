----------------------- MODULE ContractCompilerProofs -----------------------
(***************************************************************************)
(* Proofs about the compiler of contracts, for any set of inputs.  The     *)
(* inductive invariant says what the counters of the loop count: the       *)
(* providers of an extension that are not ordered yet.  The heap then      *)
(* holds exactly the extensions that may come next, and what is left when  *)
(* it is empty waits for itself.  Each extension taken is the least that   *)
(* could be, so the order is the least of all.  A second invariant ties    *)
(* the contracts to the payloads they were read from; with it every        *)
(* obligation finds its provider, and each check refuses exactly the sets  *)
(* that have its defect.                                                   *)
(***************************************************************************)
EXTENDS ContractCompiler, FiniteSetTheorems, TLAPS

Early == {"parse", "check", "normalize", "authorize", "resolve"}

Counted ==
    /\ indegree \in [Extensions -> Nat]
    /\ \A e \in Extensions : indegree[e] = Cardinality(dependencies[e] \ Range(ordered))
    /\ ready = {e \in Extensions : indegree[e] = 0} \ Range(ordered)

IInv ==
    /\ input \in Inputs
    /\ pc \in Labels /\ (error = "none") = (pc # "refused")
    /\ IsFiniteSet(Extensions) /\ Extensions \subseteq Nat
    /\ pc \in Early \cup {"order"} => ordered = <<>> /\ ready = {}
    /\ pc \in Ordering \cup {"order"} => dependencies \in [Extensions -> SUBSET Extensions]
    /\ pc \in Ordering => Counted
    /\ ordered \in Seq(Extensions) /\ IsInjective(ordered) /\ ready \subseteq Extensions
    /\ ProvidersFirst /\ CycleIsReal

-----------------------------------------------------------------------------
\* The heap's least element is in the heap and below all others.
LEMMA LeastIsLeast ==
    ASSUME NEW S \in SUBSET Nat, S # {}
    PROVE  Least(S) \in S /\ \A y \in S : Least(S) <= y
<1>1. PICK x \in S : \A y \in S : ~(<<y, x>> \in OpToRel(<, Nat))
  BY NatLessThanWellFounded, WFMin
<1>2. \A y \in S : x <= y
  <2> SUFFICES ASSUME NEW y \in S, y < x PROVE FALSE
    OBVIOUS
  <2>1. <<y, x>> \in OpToRel(<, Nat)
    BY Zenon DEF OpToRel
  <2> QED  BY <1>1, <2>1, Zenon
<1> QED  BY <1>2, Zenon DEF Least

\* A set of numbered things is finite.
LEMMA NumberedIsFinite ==
    ASSUME NEW n \in Nat, NEW f, DOMAIN f = 1..n
    PROVE  IsFiniteSet({f[k] : k \in DOMAIN f})
<1> DEFINE T == {f[k] : k \in 1..n}
           g == [k \in 1..n |-> f[k]]
<1>1. g \in Surjection(1..n, T)
  BY DEF Surjection
<1>2. IsFiniteSet(1..n)
  BY FS_Interval
<1>3. IsFiniteSet(T)
  BY <1>1, <1>2, FS_Surjection
<1> QED  BY <1>3

\* A sequence without repetitions that reaches every element of a set has its length.
LEMMA ListedOnce ==
    ASSUME NEW S, NEW seq \in Seq(S), IsInjective(seq), Range(seq) = S
    PROVE  Len(seq) = Cardinality(S)
<1>1. seq \in Surjection(1..Len(seq), S)
  BY DEF Surjection, Range
<1>2. seq \in Injection(1..Len(seq), S)
  BY DEF Injection, IsInjective
<1>3. IsFiniteSet(1..Len(seq)) /\ Cardinality(1..Len(seq)) = Len(seq)
  <2>1. Len(seq) \in Nat
    OBVIOUS
  <2> QED  BY <2>1, FS_Interval
<1> QED  BY <1>1, <1>2, <1>3, FS_Surjection

\* What the elements of a longer sequence are.
LEMMA AppendedRange ==
    ASSUME NEW S, NEW seq \in Seq(S), NEW x \in S
    PROVE  /\ Append(seq, x) \in Seq(S)
           /\ Range(Append(seq, x)) = Range(seq) \cup {x}
           /\ Len(Append(seq, x)) = Len(seq) + 1
           /\ \A i \in 1..Len(seq) : Append(seq, x)[i] = seq[i]
           /\ Append(seq, x)[Len(seq) + 1] = x
  BY DEF Range

-----------------------------------------------------------------------------
\* Nothing is ordered at first.
LEMMA InitIInv ==
    ASSUME Init PROVE IInv
<1>1. Extensions = {} /\ Range(ordered) = {} /\ DOMAIN ordered = {}
  BY DEF Init, Extensions, Range
<1>2. ordered \in Seq(Extensions)
  BY DEF Init
<1> QED
  BY <1>1, <1>2, FS_EmptySet
  DEF Init, IInv, Labels, Early, Ordering, IsInjective, ProvidersFirst, CycleIsReal

\* A step that leaves the contracts, the graph and the order alone, and only refuses for
\* another reason than a cycle or goes on.
LEMMA FrameIInv ==
    ASSUME IInv, pc \notin {"refused", "planned"},
           UNCHANGED <<input, contracts, dependencies, indegree, ready, ordered>>,
           \/ error' \notin {"none", "DEPENDENCY_CYCLE"} /\ pc' = "refused"
           \/ /\ error' = error /\ pc' \in Labels \ {"refused"}
              /\ \/ pc \in Early /\ pc' \in Early
                 \/ pc \in Ordering /\ pc' \in Ordering
    PROVE  IInv'
<1>1. (Extensions = Extensions') /\ (ProvidersFirst <=> ProvidersFirst') /\ (Counted <=> Counted')
  BY DEF Extensions, ProvidersFirst, Counted
<1>2. CycleIsReal'
  BY DEF IInv, CycleIsReal
<1> QED  BY <1>1, <1>2 DEF IInv, Labels, Early, Ordering

\* The contracts are numbered by the payloads.
LEMMA CheckIInv ==
    ASSUME IInv, Check PROVE IInv'
<1>1. CASE CheckError # "none"
  <2>1. CheckError \in {"INVALID_CONTRACT", "DUPLICATE_PLUGIN", "INCOMPATIBLE_HOST"}
    BY <1>1 DEF CheckError
  <2> QED  BY <1>1, <2>1, FrameIInv DEF Check, Refuse, work
<1>2. CASE CheckError = "none"
  <2> DEFINE ps == input.payloads
             ids == [k \in DOMAIN ps |-> ps[k].id]
  <2>1. Len(ps) \in Nat /\ DOMAIN ps = 1..Len(ps) /\ \A k \in DOMAIN ps : ps[k].id \in Nat
    BY InputsAssumption DEF IInv, IsList
  <2>2. Extensions' = {ids[k] : k \in DOMAIN ids}
    <3>1. Extensions' = {p.id : p \in Range(ps)}
      BY <1>2 DEF Check, Extensions
    <3>2. {p.id : p \in Range(ps)} = {ids[k] : k \in DOMAIN ps}
      BY DEF Range
    <3> QED  BY <3>1, <3>2
  <2>3. IsFiniteSet(Extensions') /\ Extensions' \subseteq Nat
    BY <2>1, <2>2, NumberedIsFinite
  <2>4. ordered' = <<>> /\ ready' = {} /\ pc' = "normalize" /\ error' = error /\ input' = input
    BY <1>2 DEF Check, Continue, IInv, Early
  <2>5. ordered' \in Seq(Extensions') /\ IsInjective(ordered') /\ ProvidersFirst'
    BY <2>4 DEF IsInjective, ProvidersFirst
  <2>6. error' = "none"
    BY <2>4 DEF IInv, Check
  <2> QED
    BY <2>3, <2>4, <2>5, <2>6 DEF IInv, Labels, Early, Ordering, CycleIsReal
<1> QED  BY <1>1, <1>2

\* Normalizing keeps the extensions.
LEMMA NormalizeIInv ==
    ASSUME IInv, Normalize PROVE IInv'
<1>1. CASE NormalizeError # "none"
  <2>1. NormalizeError \in {"unknown-resource", "invalid-mode"}
    BY <1>1 DEF NormalizeError
  <2> QED  BY <1>1, <2>1, FrameIInv DEF Normalize, Refuse, work
<1>2. CASE NormalizeError = "none"
  <2>1. Extensions' = Extensions
    BY <1>2 DEF Normalize, Extensions
  <2>2. ordered' = <<>> /\ ready' = {} /\ pc' = "authorize" /\ error' = error /\ input' = input
    BY <1>2 DEF Normalize, Continue, IInv, Early
  <2>3. IsInjective(ordered') /\ ProvidersFirst'
    BY <2>2 DEF IsInjective, ProvidersFirst
  <2>4. error' = "none"
    BY <2>2 DEF IInv, Normalize
  <2> QED
    BY <2>1, <2>2, <2>3, <2>4 DEF IInv, Labels, Early, Ordering, CycleIsReal
<1> QED  BY <1>1, <1>2

\* Requirements are bound to extensions of the set.
LEMMA ResolveIInv ==
    ASSUME IInv, Resolve PROVE IInv'
<1>1. CASE \E q \in Requirements : Cardinality(Compatible(q[2])) # 1
  BY <1>1, FrameIInv DEF Resolve, Refuse, work
<1>2. CASE ~\E q \in Requirements : Cardinality(Compatible(q[2])) # 1
  <2>1. ASSUME NEW q \in Requirements
        PROVE  Binding(q[1], q[2]).provider \in Extensions
    <3>1. Compatible(q[2]) # {}
      BY <1>2, FS_EmptySet
    <3>2. (CHOOSE m \in Compatible(q[2]) : TRUE) \in Compatible(q[2])
      BY <3>1
    <3>3. \A m \in Compatible(q[2]) : m[1] \in Extensions
      BY DEF Compatible
    <3> QED  BY <3>2, <3>3 DEF Binding
  <2>2. \A b \in bindings' : b.provider \in Extensions
    BY <1>2, <2>1 DEF Resolve
  <2>3. dependencies' \in [Extensions -> SUBSET Extensions]
    BY <1>2, <2>2 DEF Resolve
  <2>4. Extensions' = Extensions /\ ordered = <<>> /\ UNCHANGED <<input, error, ordered, ready>>
        /\ pc' = "order"
    BY <1>2 DEF Resolve, Continue, Extensions, IInv, Early
  <2>5. ProvidersFirst' /\ error' = "none" /\ IsInjective(ordered')
    BY <2>4 DEF ProvidersFirst, IInv, Resolve, IsInjective
  <2>6. CycleIsReal'
    BY <2>5 DEF CycleIsReal
  <2>7. /\ input' \in Inputs /\ IsFiniteSet(Extensions') /\ Extensions' \subseteq Nat
        /\ ordered' = <<>> /\ ready' = {} /\ ordered' \in Seq(Extensions')
    BY <2>4 DEF IInv, Early, Resolve
  <2> QED
    BY <2>3, <2>4, <2>5, <2>6, <2>7 DEF IInv, Labels, Early, Ordering
<1> QED  BY <1>1, <1>2

\* At first the counters count all providers.
LEMMA OrderIInv ==
    ASSUME IInv, Order PROVE IInv'
<1>1. /\ Extensions' = Extensions /\ UNCHANGED <<input, error, dependencies, ordered>>
      /\ ordered = <<>> /\ pc' = "order.loop" /\ error = "none"
      /\ dependencies \in [Extensions -> SUBSET Extensions]
  BY DEF Order, Continue, Extensions, IInv, Early
<1>2. \A e \in Extensions : dependencies[e] \ Range(ordered) = dependencies[e]
  BY <1>1 DEF Range
<1>3. \A e \in Extensions :
        /\ Cardinality(dependencies[e]) \in Nat
        /\ Cardinality(dependencies[e]) = 0 <=> dependencies[e] = {}
  <2> TAKE e \in Extensions
  <2>1. IsFiniteSet(dependencies[e])
    BY <1>1, FS_Subset DEF IInv
  <2> QED  BY <2>1, FS_CardinalityType, FS_EmptySet
<1>4. Counted'
  <2>1. indegree' = [e \in Extensions |-> Cardinality(dependencies[e])]
        /\ ready' = {e \in Extensions : dependencies[e] = {}} /\ Range(ordered') = {}
    BY <1>1 DEF Order, Range
  <2>2. \A e \in Extensions' : indegree'[e] = Cardinality(dependencies'[e] \ Range(ordered'))
    BY <1>1, <1>2, <2>1
  <2>3. ready' = {e \in Extensions' : indegree'[e] = 0} \ Range(ordered')
    BY <1>1, <1>3, <2>1
  <2> QED  BY <1>1, <1>3, <2>1, <2>2, <2>3 DEF Counted
<1>5. ProvidersFirst' /\ ready' \subseteq Extensions'
  BY <1>1 DEF ProvidersFirst, Order
<1> QED
  BY <1>1, <1>4, <1>5 DEF IInv, Labels, Early, Ordering, CycleIsReal

\* One turn of the loop: the extension taken has all its providers in front of it, and
\* the counters of its dependents fall by one.
LEMMA OrderNextIInv ==
    ASSUME IInv, OrderNext PROVE IInv'
<1> DEFINE next == Least(ready)
           rest(e) == dependencies[e] \ Range(ordered)
<1>1. /\ Extensions' = Extensions /\ UNCHANGED <<input, pc, error, dependencies>>
      /\ pc = "order.loop" /\ error = "none" /\ Counted
      /\ dependencies \in [Extensions -> SUBSET Extensions]
      /\ ordered \in Seq(Extensions) /\ ordered' = Append(ordered, next)
  BY DEF OrderNext, Extensions, IInv, Ordering
<1>2. next \in ready
  BY LeastIsLeast DEF IInv, OrderNext
<1>3. next \in Extensions /\ next \notin Range(ordered) /\ indegree[next] = 0
  BY <1>1, <1>2 DEF Counted
<1>4. \A e \in Extensions : IsFiniteSet(rest(e))
  BY <1>1, FS_Subset DEF IInv
<1>5. /\ ordered' \in Seq(Extensions) /\ Range(ordered') = Range(ordered) \cup {next}
      /\ Len(ordered') = Len(ordered) + 1 /\ ordered'[Len(ordered) + 1] = next
      /\ \A i \in 1..Len(ordered) : ordered'[i] = ordered[i]
  BY <1>1, <1>3, AppendedRange
<1>6. DOMAIN ordered = 1..Len(ordered) /\ DOMAIN ordered' = 1..(Len(ordered) + 1)
      /\ Len(ordered) \in Nat
  BY <1>1, <1>5
<1>7. rest(next) = {}
  <2>1. Cardinality(rest(next)) = 0
    BY <1>1, <1>3 DEF Counted
  <2> QED  BY <2>1, <1>3, <1>4, FS_EmptySet
<1>8. ProvidersFirst'
  <2> SUFFICES ASSUME NEW i \in DOMAIN ordered'
               PROVE  dependencies[ordered'[i]] \subseteq {ordered'[j] : j \in 1..(i - 1)}
    BY <1>1 DEF ProvidersFirst
  <2>1. CASE i \in 1..Len(ordered)
    <3>1. dependencies[ordered[i]] \subseteq {ordered[j] : j \in 1..(i - 1)}
      BY <2>1, <1>6 DEF IInv, ProvidersFirst
    <3>2. \A j \in 1..(i - 1) : ordered'[j] = ordered[j]
      BY <2>1, <1>5, <1>6
    <3> QED  BY <2>1, <3>1, <3>2, <1>5
  <2>2. CASE i = Len(ordered) + 1
    <3>1. dependencies[next] \subseteq {ordered[j] : j \in 1..Len(ordered)}
      BY <1>7, <1>6 DEF Range
    <3>2. i - 1 = Len(ordered) /\ ordered'[i] = next
      BY <2>2, <1>5, <1>6
    <3> QED  BY <3>1, <3>2, <1>5
  <2> QED  BY <2>1, <2>2, <1>6
<1>9. IsInjective(ordered')
  <2>1. \A i \in 1..Len(ordered) : ordered'[i] # next
    BY <1>3, <1>5, <1>6 DEF Range
  <2>2. \A a, b \in 1..Len(ordered) : ordered'[a] = ordered'[b] => a = b
    BY <1>5, <1>6 DEF IInv, IsInjective
  <2> QED  BY <2>1, <2>2, <1>5, <1>6 DEF IsInjective
<1>10. ASSUME NEW e \in Extensions
       PROVE  /\ dependencies[e] \ Range(ordered') = rest(e) \ {next}
              /\ Cardinality(rest(e)) \in Nat
              /\ Cardinality(rest(e) \ {next}) \in Nat
              /\ Cardinality(rest(e) \ {next}) =
                    IF e \in Dependents(next) THEN indegree[e] - 1 ELSE indegree[e]
  <2>1. dependencies[e] \ Range(ordered') = rest(e) \ {next}
    BY <1>5
  <2>2. e \in Dependents(next) <=> next \in rest(e)
    BY <1>3 DEF Dependents
  <2>3. IsFiniteSet(rest(e)) /\ IsFiniteSet(rest(e) \ {next})
    BY <1>4, FS_RemoveElement
  <2>4. indegree[e] = Cardinality(rest(e))
    BY <1>1 DEF Counted
  <2>5. Cardinality(rest(e) \ {next}) =
            IF next \in rest(e) THEN Cardinality(rest(e)) - 1 ELSE Cardinality(rest(e))
    BY <1>4, FS_RemoveElement
  <2>6. Cardinality(rest(e)) \in Nat /\ Cardinality(rest(e) \ {next}) \in Nat
    BY <2>3, FS_CardinalityType
  <2> QED  BY <2>1, <2>2, <2>4, <2>5, <2>6
<1>11. indegree' = [e \in Extensions |->
                       IF e \in Dependents(next) THEN indegree[e] - 1 ELSE indegree[e]]
       /\ ready' = (ready \ {next}) \cup {e \in Dependents(next) : indegree[e] = 1}
  BY DEF OrderNext
<1>12. indegree' \in [Extensions -> Nat]
       /\ \A e \in Extensions : indegree'[e] = Cardinality(dependencies[e] \ Range(ordered'))
  BY <1>10, <1>11
<1>13. \A e \in Range(ordered) : e \in Extensions /\ indegree[e] = 0
  <2> SUFFICES ASSUME NEW i \in DOMAIN ordered
               PROVE  ordered[i] \in Extensions /\ indegree[ordered[i]] = 0
    BY DEF Range
  <2>1. ordered[i] \in Extensions
    BY <1>1
  <2>2. dependencies[ordered[i]] \subseteq {ordered[j] : j \in 1..(i - 1)}
    BY DEF IInv, ProvidersFirst
  <2>3. rest(ordered[i]) = {}
    BY <2>2, <1>6 DEF Range
  <2> QED  BY <1>1, <2>1, <2>3, FS_EmptySet DEF Counted
<1>14. ready' = {e \in Extensions : indegree'[e] = 0} \ Range(ordered')
  <2>1. ASSUME NEW e \in Extensions
        PROVE  e \in ready' <=> indegree'[e] = 0 /\ e \notin Range(ordered) /\ e # next
    <3>1. e \in ready <=> indegree[e] = 0 /\ e \notin Range(ordered)
      BY <1>1 DEF Counted
    <3>2. indegree[e] \in Nat
      BY <1>1 DEF Counted
    <3>3. CASE e \in Dependents(next)
      <4>1. indegree'[e] = indegree[e] - 1 /\ indegree'[e] \in Nat
        BY <3>3, <1>11, <1>12
      <4>2. e # next
        BY <4>1, <3>2, <1>3
      <4>3. e \notin Range(ordered)
        BY <4>1, <3>2, <1>13
      <4>4. e \notin ready
        BY <3>1, <4>1, <3>2
      <4> QED  BY <3>2, <3>3, <4>1, <4>2, <4>3, <4>4, <1>11
    <3>4. CASE e \notin Dependents(next)
      <4>1. indegree'[e] = indegree[e]
        BY <3>4, <1>11
      <4> QED  BY <3>1, <3>4, <4>1, <1>11
    <3> QED  BY <3>3, <3>4
  <2>2. ready' \subseteq Extensions
    BY <1>11 DEF IInv, Dependents
  <2> QED  BY <2>1, <2>2, <1>5
<1>15. Counted'
  BY <1>1, <1>12, <1>14 DEF Counted
<1>16. ready' \subseteq Extensions'
  BY <1>1, <1>14
<1> QED
  BY <1>1, <1>5, <1>8, <1>9, <1>15, <1>16 DEF IInv, Labels, Early, Ordering, CycleIsReal

\* What is left when nothing is ready waits for itself.
LEMMA OrderEndIInv ==
    ASSUME IInv, OrderEnd PROVE IInv'
<1>1. CASE Len(ordered) = Cardinality(Extensions)
  <2>1. error' = error /\ pc' = "resources"
        /\ UNCHANGED <<input, contracts, dependencies, indegree, ready, ordered>>
    BY <1>1 DEF OrderEnd, Continue, work
  <2> QED  BY <2>1, FrameIInv DEF OrderEnd, Labels, Early, Ordering
<1>2. CASE Len(ordered) # Cardinality(Extensions)
  <2> DEFINE S == Extensions \ Range(ordered)
  <2>1. /\ UNCHANGED <<input, contracts, dependencies, indegree, ready, ordered>>
        /\ error' = "DEPENDENCY_CYCLE" /\ pc' = "refused" /\ Extensions' = Extensions
    BY <1>2 DEF OrderEnd, Refuse, work, Extensions
  <2>2. /\ Counted /\ ready = {} /\ ordered \in Seq(Extensions) /\ IsInjective(ordered)
        /\ dependencies \in [Extensions -> SUBSET Extensions]
    BY DEF OrderEnd, IInv, Ordering
  <2>3. S # {}
    <3> SUFFICES ASSUME S = {} PROVE FALSE
      OBVIOUS
    <3>1. Range(ordered) = Extensions
      BY <2>2 DEF Range
    <3> QED  BY <3>1, <2>2, <1>2, ListedOnce
  <2>4. \A e \in S : dependencies[e] \cap S # {}
    <3> TAKE e \in S
    <3>1. indegree[e] # 0
      BY <2>2 DEF Counted
    <3>2. Cardinality(dependencies[e] \ Range(ordered)) # 0
      BY <3>1, <2>2 DEF Counted
    <3>3. dependencies[e] \ Range(ordered) # {}
      BY <3>2, FS_EmptySet
    <3> QED  BY <3>3, <2>2
  <2>5. CycleIsReal'
    BY <2>1, <2>3, <2>4 DEF CycleIsReal
  <2>6. ProvidersFirst'
    BY <2>1 DEF IInv, ProvidersFirst
  <2> QED  BY <2>1, <2>5, <2>6 DEF IInv, Labels, Early, Ordering
<1> QED  BY <1>1, <1>2

\* The checks that leave the order alone.
LEMMA OtherIInv ==
    ASSUME IInv, Parse \/ Authorize \/ ResolveResources \/ Bind PROVE IInv'
<1>1. CASE Parse
  <2>1. /\ UNCHANGED <<input, contracts, dependencies, indegree, ready, ordered>>
        /\ pc \in Early
        /\ \/ error' \notin {"none", "DEPENDENCY_CYCLE"} /\ pc' = "refused"
           \/ error' = error /\ pc' \in Early
        /\ pc \notin {"refused", "planned"} /\ Early \subseteq Labels \ {"refused"}
    BY <1>1 DEF Parse, Refuse, Continue, work, Early, Labels
  <2>2. CASE error' \notin {"none", "DEPENDENCY_CYCLE"} /\ pc' = "refused"
    BY <2>1, <2>2, FrameIInv
  <2>3. CASE error' = error /\ pc' \in Early
    <3>1. pc' \in Labels \ {"refused"}
      BY <2>1, <2>3
    <3> QED  BY <2>1, <2>3, <3>1, FrameIInv
  <2> QED  BY <2>1, <2>2, <2>3
<1>2. CASE Authorize
  <2>1. /\ UNCHANGED <<input, contracts, dependencies, indegree, ready, ordered>>
        /\ pc \in Early
        /\ \/ error' \notin {"none", "DEPENDENCY_CYCLE"} /\ pc' = "refused"
           \/ error' = error /\ pc' \in Early
        /\ pc \notin {"refused", "planned"} /\ Early \subseteq Labels \ {"refused"}
    BY <1>2 DEF Authorize, Refuse, Continue, work, Early, Labels
  <2>2. CASE error' \notin {"none", "DEPENDENCY_CYCLE"} /\ pc' = "refused"
    BY <2>1, <2>2, FrameIInv
  <2>3. CASE error' = error /\ pc' \in Early
    <3>1. pc' \in Labels \ {"refused"}
      BY <2>1, <2>3
    <3> QED  BY <2>1, <2>3, <3>1, FrameIInv
  <2> QED  BY <2>1, <2>2, <2>3
<1>3. CASE ResolveResources
  <2>1. OwnershipError \in {"none", "resource-mode", "mediator-consistency", "mediator-presence"}
    BY DEF OwnershipError
  <2> QED
    BY <1>3, <2>1, FrameIInv
    DEF ResolveResources, Refuse, Continue, work, Labels, Early, Ordering
<1>4. CASE Bind
  BY <1>4, FrameIInv DEF Bind, Refuse, Continue, work, Labels, Early, Ordering
<1> QED  BY <1>1, <1>2, <1>3, <1>4

\* The invariant is inductive.
THEOREM CompilerInvariant == Spec => []IInv
<1>1. IInv /\ [Next]_vars => IInv'
  <2> SUFFICES ASSUME IInv, [Next]_vars PROVE IInv'
    OBVIOUS
  <2>1. CASE UNCHANGED vars
    BY <2>1 DEF vars, IInv, Extensions, Counted, ProvidersFirst, CycleIsReal
  <2> QED
    BY <2>1, CheckIInv, NormalizeIInv, ResolveIInv, OrderIInv, OrderNextIInv, OrderEndIInv,
       OtherIInv
    DEF Next
<1> QED  BY <1>1, InitIInv, PTL DEF Spec

\* The compiler's variables keep their types, whatever the inputs are.
THEOREM CompilerTypeCorrect == Spec => []TypeOK
<1>1. IInv => TypeOK
  BY DEF IInv, TypeOK, Counted, Ordering, Range
<1> QED  BY <1>1, CompilerInvariant, PTL

\* _order_contracts never places an extension before one it depends on.
THEOREM OrderRespectsDependencies == Spec => []ProvidersFirst
<1>1. IInv => ProvidersFirst
  BY DEF IInv
<1> QED  BY <1>1, CompilerInvariant, PTL

\* _order_contracts reports a cycle only where some extensions wait for each other.
THEOREM CyclesAreReal == Spec => []CycleIsReal
<1>1. IInv => CycleIsReal
  BY DEF IInv
<1> QED  BY <1>1, CompilerInvariant, PTL

-----------------------------------------------------------------------------
(* The order is the least of all. *)

Complete == {"resources", "bind", "planned"}

\* Every extension ordered is the least of those that could have come there.
Greedy ==
    \A i \in DOMAIN ordered : \A e \in Extensions :
        LET before == {ordered[j] : j \in 1..(i - 1)} IN
        e \notin before /\ dependencies[e] \subseteq before => ordered[i] <= e

LeastInv ==
    /\ Greedy
    /\ pc \in Complete => Len(ordered) = Cardinality(Extensions)

\* One turn of the loop takes the least extension whose providers are all in front.
LEMMA OrderNextGreedy ==
    ASSUME IInv, LeastInv, OrderNext PROVE LeastInv'
<1> DEFINE next == Least(ready)
<1>1. /\ Extensions' = Extensions /\ UNCHANGED <<pc, dependencies>>
      /\ pc = "order.loop" /\ Counted
      /\ dependencies \in [Extensions -> SUBSET Extensions]
      /\ ordered \in Seq(Extensions) /\ ordered' = Append(ordered, next)
      /\ IsFiniteSet(Extensions) /\ Extensions \subseteq Nat
  BY DEF OrderNext, Extensions, IInv, Ordering
<1>2. next \in ready /\ \A e \in ready : next <= e
  BY LeastIsLeast DEF IInv, OrderNext
<1>3. next \in Extensions
  BY <1>1, <1>2 DEF Counted
<1>4. /\ Len(ordered') = Len(ordered) + 1 /\ ordered'[Len(ordered) + 1] = next
      /\ \A i \in 1..Len(ordered) : ordered'[i] = ordered[i]
      /\ ordered' \in Seq(Extensions)
  BY <1>1, <1>3, AppendedRange
<1>5. DOMAIN ordered = 1..Len(ordered) /\ DOMAIN ordered' = 1..(Len(ordered) + 1)
      /\ Len(ordered) \in Nat
  BY <1>1, <1>4
<1>6. Greedy'
  <2> SUFFICES ASSUME NEW i \in DOMAIN ordered', NEW e \in Extensions,
                      e \notin {ordered'[j] : j \in 1..(i - 1)},
                      dependencies[e] \subseteq {ordered'[j] : j \in 1..(i - 1)}
               PROVE  ordered'[i] <= e
    BY <1>1, Zenon DEF Greedy
  <2>1. {ordered'[j] : j \in 1..(i - 1)} = {ordered[j] : j \in 1..(i - 1)}
    BY <1>4, <1>5
  <2>2. CASE i \in 1..Len(ordered)
    BY <2>1, <2>2, <1>4, <1>5, Zenon DEF LeastInv, Greedy
  <2>3. CASE i = Len(ordered) + 1
    <3> HIDE DEF next
    <3>0. i - 1 = Len(ordered)
      BY <2>3, <1>5
    <3>1. Range(ordered) = {ordered'[j] : j \in 1..(i - 1)}
      BY <2>1, <3>0, <1>5, Zenon DEF Range
    <3>2. dependencies[e] \ Range(ordered) = {} /\ e \notin Range(ordered)
      BY <3>1
    <3>3. indegree[e] = 0
      BY <3>2, <1>1, FS_EmptySet DEF Counted
    <3>4. e \in ready
      BY <3>2, <3>3, <1>1 DEF Counted
    <3> QED  BY <3>4, <1>2, <1>4, <2>3
  <2> QED  BY <2>2, <2>3, <1>5
<1> QED  BY <1>1, <1>6 DEF LeastInv, Complete

\* Before the loop there is no order, and after it the order stays.
LEMMA LeastInvStep ==
    ASSUME IInv, LeastInv, [Next]_vars PROVE LeastInv'
<1>1. CASE OrderNext
  BY <1>1, OrderNextGreedy
<1>2. CASE Parse \/ Check \/ Normalize \/ Authorize \/ Resolve \/ Order
  <2>1. ordered = <<>> /\ ordered' = ordered
    BY <1>2, Zenon
    DEF Parse, Check, Normalize, Authorize, Resolve, Order, Refuse, Continue, work, IInv, Early
  <2>2. pc' \in {"refused", "check", "normalize", "authorize", "resolve", "order", "order.loop"}
    BY <1>2, Zenon
    DEF Parse, Check, Normalize, Authorize, Resolve, Order, Refuse, Continue
  <2> QED  BY <2>1, <2>2 DEF LeastInv, Greedy, Complete
<1>3. CASE OrderEnd \/ ResolveResources \/ Bind \/ UNCHANGED vars
  <2>1. UNCHANGED <<contracts, dependencies, ordered>>
    BY <1>3, Zenon DEF OrderEnd, ResolveResources, Bind, vars, Refuse, Continue, work
  <2>2. Extensions' = Extensions /\ Greedy'
    BY <2>1 DEF Extensions, LeastInv, Greedy
  <2>3. pc' \in Complete => pc \in Complete \/ Len(ordered) = Cardinality(Extensions)
    BY <1>3, Zenon DEF OrderEnd, ResolveResources, Bind, vars, Refuse, Continue, Complete
  <2> QED  BY <2>1, <2>2, <2>3 DEF LeastInv
<1> QED  BY <1>1, <1>2, <1>3 DEF Next

\* An injective list of as many extensions as there are reaches them all.
LEMMA ListsAll ==
    ASSUME NEW S, IsFiniteSet(S), NEW seq \in [1..Cardinality(S) -> S], IsInjective(seq)
    PROVE  \A e \in S : \E j \in 1..Cardinality(S) : seq[j] = e
<1>1. Cardinality(S) \in Nat
  BY FS_CardinalityType
<1>2. Cardinality(1..Cardinality(S)) = Cardinality(S) /\ IsFiniteSet(1..Cardinality(S))
  BY <1>1, FS_Interval
<1>3. seq \in Injection(1..Cardinality(S), S)
  BY DEF Injection, IsInjective
<1>4. seq \in Surjection(1..Cardinality(S), S)
  BY <1>2, <1>3, FS_Injection
<1> QED  BY <1>4 DEF Surjection

\* Where another order first differs, the greedy one is smaller.
LEMMA GreedyIsLeast ==
    ASSUME IInv, LeastInv, pc \in Complete,
           NEW seq \in [1..Cardinality(Extensions) -> Extensions], Topological(seq)
    PROVE  LexicographicallyAtMost(ordered, seq)
<1> DEFINE n == Cardinality(Extensions)
           D == {k \in 1..n : seq[k] # ordered[k]}
<1>1. /\ n \in Nat /\ Extensions \subseteq Nat /\ ordered \in Seq(Extensions) /\ Len(ordered) = n
      /\ dependencies \in [Extensions -> SUBSET Extensions]
  BY FS_CardinalityType DEF IInv, LeastInv, Ordering, Complete
<1>2. CASE D = {}
  <2>1. DOMAIN ordered = 1..n /\ ordered \in [1..n -> Extensions]
    BY <1>1
  <2>2. \A k \in 1..n : ordered[k] = seq[k]
    BY <1>2
  <2>3. ordered = [k \in 1..n |-> ordered[k]] /\ seq = [k \in 1..n |-> seq[k]]
    BY <2>1
  <2>4. ordered = seq
    BY <2>2, <2>3
  <2> QED  BY <2>4 DEF LexicographicallyAtMost
<1>3. CASE D # {}
  <2> DEFINE k == Least(D)
             before == {ordered[j] : j \in 1..(k - 1)}
  <2>1. k \in D /\ \A y \in D : k <= y
    <3>1. D \in SUBSET Nat
      OBVIOUS
    <3> QED  BY <3>1, <1>3, LeastIsLeast, Zenon
  <2> HIDE DEF k
  <2>2. k \in 1..n /\ seq[k] # ordered[k] /\ ordered[k] \in Nat /\ seq[k] \in Extensions
        /\ seq[k] \in Nat
    BY <2>1, <1>1
  <2>3. \A i \in 1..(k - 1) : i \in 1..n /\ seq[i] = ordered[i]
    <3> SUFFICES ASSUME NEW i \in 1..(k - 1) PROVE i \in 1..n /\ seq[i] = ordered[i]
      OBVIOUS
    <3>1. i \in 1..n /\ i < k
      BY <1>1, <2>2
    <3>2. i \notin D
      BY <3>1, <2>1, <2>2
    <3> QED  BY <3>1, <3>2
  <2>4. seq[k] \notin before
    <3>1. \A a, b \in 1..n : seq[a] = seq[b] => a = b
      BY DEF Topological, IsInjective
    <3> QED  BY <3>1, <2>2, <2>3
  <2>5. dependencies[seq[k]] \subseteq before
    <3> SUFFICES ASSUME NEW e \in dependencies[seq[k]] PROVE e \in before
      OBVIOUS
    <3>1. e \in Extensions
      BY <1>1, <2>2
    <3>2. PICK j \in 1..n : seq[j] = e
      <4>1. IsFiniteSet(Extensions) /\ IsInjective(seq)
        BY DEF IInv, Topological
      <4> QED  BY <3>1, <4>1, ListsAll, Zenon
    <3>3. j < k
      BY <3>2, <2>2 DEF Topological
    <3> QED  BY <3>2, <3>3, <2>2, <2>3
  <2>6. ordered[k] <= seq[k]
    BY <2>2, <2>4, <2>5, <1>1 DEF LeastInv, Greedy
  <2>7. ordered[k] < seq[k] /\ k \in DOMAIN ordered
    BY <2>6, <2>2, <1>1
  <2> QED  BY <2>3, <2>7 DEF LexicographicallyAtMost
<1> QED  BY <1>2, <1>3

\* "deterministic dependency order": the order of a set of contracts is the least of the
\* orders that respect its dependencies.
THEOREM OrderIsDeterministic == Spec => []OrderIsLeast
<1>1. Init => LeastInv
  BY DEF Init, LeastInv, Greedy, Complete
<1>2. IInv /\ LeastInv /\ [Next]_vars => LeastInv'
  BY LeastInvStep
<1>3. IInv /\ LeastInv => OrderIsLeast
  BY GreedyIsLeast DEF OrderIsLeast, Complete
<1> QED  BY <1>1, <1>2, <1>3, CompilerInvariant, PTL DEF Spec

-----------------------------------------------------------------------------
(* The contracts and the payloads they come from. *)

\* The payload of an extension.
Source(e) == CHOOSE p \in Payloads : p.id = e

Ids == {p.id : p \in Payloads}

\* The contracts of the payloads, as they were read and under the taxonomy.
Read == [e \in Ids |-> Parsed(Source(e))]

Compiled == [e \in Ids |-> Normalized(Parsed(Source(e)))]

Checked == Labels \ {"parse", "check", "refused"}

Normal == Checked \ {"normalize"}

Bound == {"order"} \cup Ordering

\* Every requirement has its binding, and every binding leads to an extension that
\* provides the capability and that the consumer depends on, unless it is the same.
Backed ==
    /\ \A e \in Extensions : \A r \in contracts[e].requires :
           \E b \in bindings : b.consumer = e /\ b.capability = r.name
    /\ \A b \in bindings :
           /\ b.consumer \in Extensions /\ b.provider \in Extensions
           /\ \E c \in contracts[b.provider].provides : c.name = b.capability
           /\ b.provider = b.consumer \/ b.provider \in dependencies[b.consumer]

SourceInv ==
    /\ pc \in Checked \cup {"check"} =>
           /\ TaxonomyParses(input.taxonomy)
           /\ input.manifests => \A p \in Payloads : Parses(p)
    /\ pc \in Checked => CheckError = "none"
    /\ pc = "normalize" => contracts = Read
    /\ pc \in Normal => contracts = Compiled
    /\ pc \in Normal \ {"authorize"} =>
           \A e \in Extensions : \A o \in contracts[e].obligations : Granted(contracts[e], o)
    /\ pc \in Bound => Backed
    /\ ObligationsAreBacked

\* No two payloads have the same name, so that each contract has one payload.
LEMMA SourceIsOne ==
    ASSUME CheckError = "none"
    PROVE  \A p \in Payloads : p.id \in Ids /\ Source(p.id) = p
<1>1. IsInjective([i \in DOMAIN input.payloads |-> input.payloads[i].id])
  BY DEF CheckError
<1>2. \A p, q \in Payloads : p.id = q.id => p = q
  BY <1>1, Zenon DEF Payloads, Range, IsInjective
<1> QED  BY <1>2 DEF Source, Ids

\* Every name of the set is the name of a payload.
LEMMA SourceIsPayload ==
    \A e \in Ids : Source(e) \in Payloads /\ Source(e).id = e
  BY DEF Source, Ids

\* Normalizing changes the names of the resources only.
LEMMA NormalizedFields ==
    ASSUME NEW p
    PROVE  LET n == Normalized(Parsed(p)) IN
           /\ n.provides = Range(p.provides) /\ n.requires = Range(p.requires)
           /\ n.obligations = Range(p.obligations) /\ n.grants = Parsed(p).grants
           /\ n.resources = [i \in DOMAIN p.resources |-> Renamed(p.resources[i])]
<1> DEFINE c == Parsed(p)
           res == [i \in DOMAIN p.resources |-> Renamed(p.resources[i])]
<1>1. c = [id |-> p.id, host |-> p.host,
           provides |-> Range(p.provides), requires |-> Range(p.requires),
           resources |-> p.resources, obligations |-> Range(p.obligations),
           grants |-> c.grants]
  BY DEF Parsed
<1>3. c.resources = p.resources
  BY <1>1
<1> HIDE DEF c
<1>2. Normalized(c) =
        [c EXCEPT !.resources = [i \in DOMAIN c.resources |-> Renamed(c.resources[i])]]
  BY DEF Normalized
<1>4. Normalized(c) = [c EXCEPT !.resources = res]
  BY <1>2, <1>3
<1> HIDE DEF res
<1>5. LET n == Normalized(c) IN
      /\ n.provides = Range(p.provides) /\ n.requires = Range(p.requires)
      /\ n.obligations = Range(p.obligations) /\ n.grants = c.grants /\ n.resources = res
  BY <1>1, <1>4
<1> QED  BY <1>5, Zenon DEF c, res

\* What an extension's contract holds once the aliases are resolved.
LEMMA ContractFields ==
    ASSUME SourceInv, pc \in Normal, NEW e \in Extensions
    PROVE  /\ Source(e) \in Payloads /\ Source(e).id = e
           /\ contracts[e].provides = Range(Source(e).provides)
           /\ contracts[e].requires = Range(Source(e).requires)
           /\ contracts[e].obligations = Range(Source(e).obligations)
           /\ contracts[e].resources =
                  [i \in DOMAIN Source(e).resources |-> Renamed(Source(e).resources[i])]
<1>1. contracts = [x \in Ids |-> Normalized(Parsed(Source(x)))]
  BY DEF SourceInv, Compiled
<1>2. e \in Ids /\ contracts[e] = Normalized(Parsed(Source(e)))
  BY <1>1 DEF Extensions
<1> QED  BY <1>2, NormalizedFields, SourceIsPayload

\* Obligations come from manifests, and a manifest's obligations have been parsed.
LEMMA ObligationFacts ==
    ASSUME IInv, SourceInv, pc \in Normal, NEW e \in Extensions,
           NEW o \in contracts[e].obligations
    PROVE  /\ o.direction \in {"provides", "requires"}
           /\ ~ClaimsRuntimeFact(o, o.authority)
           /\ o.direction = "provides" =>
                  \E c \in contracts[e].provides : c.name = o.capability
           /\ o.direction = "requires" =>
                  \E r \in contracts[e].requires : r.name = o.capability
<1> DEFINE p == Source(e)
<1>1. p \in Payloads /\ o \in Range(p.obligations)
      /\ contracts[e].provides = Range(p.provides) /\ contracts[e].requires = Range(p.requires)
  BY ContractFields, Zenon
<1> HIDE DEF p
<1>2. PICK k \in DOMAIN input.payloads : p = input.payloads[k]
  BY <1>1 DEF Payloads, Range
<1>3. p.obligations # <<>>
  BY <1>1 DEF Range
<1>4. o.direction \in {"provides", "requires"} /\ input.manifests
  BY <1>1, <1>2, <1>3, InputsAssumption, Zenon DEF IInv
<1>5. Parses(p)
  BY <1>1, <1>4 DEF SourceInv, Normal
<1>6. ObligationParses(p, o)
  BY <1>1, <1>5 DEF Parses
<1>7. ~ClaimsRuntimeFact(o, o.authority) /\ o.capability \in Range(Names(p[o.direction]))
  BY <1>6 DEF ObligationParses, Declared
<1>8. ASSUME NEW seq, o.capability \in Range(Names(seq))
      PROVE  \E c \in Range(seq) : c.name = o.capability
  BY <1>8 DEF Names, Range
<1>9. CASE o.direction = "provides"
  <2>1. p[o.direction] = p.provides
    BY <1>9
  <2>2. \E c \in Range(p.provides) : c.name = o.capability
    BY <2>1, <1>7, <1>8
  <2> QED  BY <2>2, <1>9, <1>1, <1>4, <1>7
<1>10. CASE o.direction = "requires"
  <2>1. p[o.direction] = p.requires
    BY <1>10
  <2>2. \E c \in Range(p.requires) : c.name = o.capability
    BY <2>1, <1>7, <1>8
  <2> QED  BY <2>2, <1>10, <1>1, <1>4, <1>7
<1> QED  BY <1>4, <1>9, <1>10

-----------------------------------------------------------------------------
\* What the matches of a requirement lead to.
LEMMA ResolveBacked ==
    ASSUME IInv, SourceInv, Resolve, pc' # "refused" PROVE Backed'
<1>1. /\ \A q \in Requirements : Cardinality(Compatible(q[2])) = 1
      /\ bindings' = {Binding(q[1], q[2]) : q \in Requirements}
      /\ dependencies' = [e \in Extensions |->
             {b.provider : b \in {x \in bindings' : x.consumer = e}} \ {e}]
      /\ contracts' = contracts /\ Extensions' = Extensions
  BY Zenon DEF Resolve, Refuse, Extensions
<1>2. ASSUME NEW q \in Requirements
      PROVE  LET b == Binding(q[1], q[2]) IN
             /\ q[1] \in Extensions /\ q[2] \in contracts[q[1]].requires
             /\ b.consumer = q[1] /\ b.capability = q[2].name /\ b.provider \in Extensions
             /\ \E c \in contracts[b.provider].provides : c.name = b.capability
  <2> DEFINE match == CHOOSE m \in Compatible(q[2]) : TRUE
  <2>0. Cardinality(Compatible(q[2])) = 1
    BY <1>1
  <2>1. Compatible(q[2]) # {}
    BY <2>0, FS_EmptySet
  <2>2. match \in Compatible(q[2])
    BY <2>1
  <2>3. match[1] \in Extensions /\ match[2] \in contracts[match[1]].provides
        /\ match[2].name = q[2].name
    BY <2>2 DEF Compatible
  <2>4. q[1] \in Extensions /\ q[2] \in contracts[q[1]].requires
    BY DEF Requirements
  <2>5. Binding(q[1], q[2]) = [capability |-> q[2].name, consumer |-> q[1],
                               provider |-> match[1], version |-> match[2].version]
    BY Zenon DEF Binding
  <2> HIDE DEF match
  <2> QED  BY <2>3, <2>4, <2>5
<1>3. ASSUME NEW e \in Extensions, NEW r \in contracts[e].requires
      PROVE  \E b \in bindings' : b.consumer = e /\ b.capability = r.name
  <2>1. <<e, r>> \in Requirements
    BY DEF Requirements
  <2>2. Binding(e, r) \in bindings'
    BY <2>1, <1>1
  <2> QED  BY <2>1, <2>2, <1>2
<1>4. ASSUME NEW b \in bindings'
      PROVE  /\ b.consumer \in Extensions /\ b.provider \in Extensions
             /\ \E c \in contracts[b.provider].provides : c.name = b.capability
             /\ b.provider = b.consumer \/ b.provider \in dependencies'[b.consumer]
  <2>1. PICK q \in Requirements : b = Binding(q[1], q[2])
    BY <1>1
  <2>2. /\ b.consumer \in Extensions /\ b.provider \in Extensions
        /\ \E c \in contracts[b.provider].provides : c.name = b.capability
    BY <2>1, <1>2
  <2>3. b.provider = b.consumer \/ b.provider \in dependencies'[b.consumer]
    BY <2>2, <1>1
  <2> QED  BY <2>2, <2>3
<1> QED  BY <1>1, <1>3, <1>4, Zenon DEF Backed

\* Everything of an extension's set is in its order.
LEMMA OrderIsComplete ==
    ASSUME IInv, LeastInv, pc \in Complete, NEW e \in Extensions,
           NEW p \in dependencies[e]
    PROVE  Before(p, e)
<1>1. /\ ordered \in Seq(Extensions) /\ IsInjective(ordered) /\ IsFiniteSet(Extensions)
      /\ Len(ordered) = Cardinality(Extensions) /\ ProvidersFirst
  BY DEF IInv, LeastInv
<1>2. ordered \in [1..Cardinality(Extensions) -> Extensions]
  BY <1>1
<1>3. PICK i \in 1..Cardinality(Extensions) : ordered[i] = e
  BY <1>1, <1>2, ListsAll
<1>4. i \in DOMAIN ordered /\ i \in Nat
  BY <1>2, <1>3, <1>1
<1>5. PICK j \in 1..(i - 1) : ordered[j] = p
  BY <1>1, <1>3, <1>4 DEF ProvidersFirst
<1>6. j \in DOMAIN ordered /\ j < i
  BY <1>1, <1>2, <1>4, <1>5
<1> QED  BY <1>3, <1>4, <1>5, <1>6 DEF Before

\* Every obligation finds its provider.
LEMMA BindBacked ==
    ASSUME IInv, LeastInv, SourceInv, Bind PROVE ObligationsAreBacked'
<1>1. pc = "bind" /\ pc \in Normal /\ pc \in Complete /\ Backed
      /\ UNCHANGED <<contracts, bindings, dependencies, ordered>>
      /\ \A e \in Extensions : \A o \in contracts[e].obligations : Granted(contracts[e], o)
  BY DEF Bind, Refuse, Continue, work, SourceInv, Normal, Checked, Labels, Complete, Bound,
         Ordering
<1>2. ASSUME NEW e \in Extensions, NEW o \in contracts[e].obligations
      PROVE  /\ Bindable(e, o)
             /\ LET p == BoundProvider(e, o) IN
                /\ p = e \/ Before(p, e)
                /\ \E c \in contracts[p].provides : c.name = o.capability
  <2>1. CASE o.direction = "provides"
    <3>1. BoundProvider(e, o) = e /\ Bindable(e, o)
      BY <2>1 DEF BoundProvider, Bindable
    <3> QED  BY <3>1, <2>1, <1>1, ObligationFacts
  <2>2. CASE o.direction = "requires"
    <3> DEFINE b == CHOOSE x \in Bindings(e, o) : TRUE
    <3>1. PICK r \in contracts[e].requires : r.name = o.capability
      BY <2>2, <1>1, ObligationFacts
    <3>2. Bindings(e, o) # {}
      BY <3>1, <1>1 DEF Backed, Bindings
    <3>3. b \in Bindings(e, o)
      BY <3>2
    <3>4. BoundProvider(e, o) = b.provider
      BY <2>2 DEF BoundProvider
    <3> HIDE DEF b
    <3>5. b \in bindings /\ b.consumer = e /\ b.capability = o.capability
      BY <3>3 DEF Bindings
    <3>6. \E c \in contracts[b.provider].provides : c.name = o.capability
      BY <3>5, <1>1 DEF Backed
    <3>7. b.provider = e \/ b.provider \in dependencies[e]
      BY <3>5, <1>1 DEF Backed
    <3>8. b.provider = e \/ Before(b.provider, e)
      BY <3>7, <1>1, OrderIsComplete
    <3> QED  BY <3>2, <3>4, <3>6, <3>8 DEF Bindable
  <2> QED  BY <2>1, <2>2, <1>1, ObligationFacts
<1>3. /\ obligations' = UNION {
             {[extension |-> e, obligation |-> o, provider |-> BoundProvider(e, o)] :
                 o \in contracts[e].obligations} : e \in Extensions}
      /\ error' = error /\ error = "none"
  BY <1>1, <1>2, Zenon DEF Bind, Continue, IInv
<1>4. ASSUME NEW b \in obligations'
      PROVE  /\ b.provider = b.extension \/ Before(b.provider, b.extension)
             /\ \E c \in contracts[b.provider].provides : c.name = b.obligation.capability
             /\ ~ClaimsRuntimeFact(b.obligation, b.obligation.authority)
             /\ Granted(contracts[b.extension], b.obligation)
  <2>1. PICK e \in Extensions : \E o \in contracts[e].obligations :
            b = [extension |-> e, obligation |-> o, provider |-> BoundProvider(e, o)]
    BY <1>3
  <2>0. PICK o \in contracts[e].obligations :
            b = [extension |-> e, obligation |-> o, provider |-> BoundProvider(e, o)]
    BY <2>1
  <2>2. b.extension = e /\ b.obligation = o /\ b.provider = BoundProvider(e, o)
    BY <2>0
  <2>3. ~ClaimsRuntimeFact(o, o.authority) /\ Granted(contracts[e], o)
    BY <1>1, ObligationFacts
  <2> QED  BY <2>2, <2>3, <1>2, Zenon
<1>5. \A x, y : Before(x, y)' <=> Before(x, y)
  BY <1>1 DEF Before
<1> QED  BY <1>1, <1>3, <1>4, <1>5 DEF ObligationsAreBacked

\* What is read off the input stays as it is.
LEMMA InputStays ==
    ASSUME input' = input
    PROVE  /\ CheckError' = CheckError /\ Read' = Read /\ Compiled' = Compiled
           /\ TaxonomyParses(input.taxonomy)' <=> TaxonomyParses(input.taxonomy)
           /\ (\A p \in Payloads : Parses(p))' <=> (\A p \in Payloads : Parses(p))
<1>1. CheckError' = CheckError
  BY DEF CheckError, Payloads
<1>2. Payloads' = Payloads
  BY DEF Payloads
<1>3. Ids' = Ids /\ \A e : Source(e)' = Source(e)
  BY <1>2, Zenon DEF Source, Ids
<1>4. Read' = Read
  BY <1>3, Zenon DEF Read
<1>5. \A n : Rule(n)' = Rule(n)
  BY Zenon DEF Rule
<1>6. \A n : Canonical(n)' = Canonical(n)
  BY <1>5, Zenon DEF Canonical
<1>7. \A c : Renamed(c)' = Renamed(c)
  BY <1>6, Zenon DEF Renamed
<1>8. \A c : Normalized(c)' = Normalized(c)
  BY <1>7, Zenon DEF Normalized
<1>9. Compiled' = Compiled
  BY <1>3, <1>8, Zenon DEF Compiled
<1> QED  BY <1>1, <1>2, <1>4, <1>9, Zenon DEF TaxonomyParses

\* A step that neither reads payloads nor ends with a plan, and keeps the contracts.
LEMMA FrameSource ==
    ASSUME SourceInv, input' = input, error' # "KeyError", pc' # "planned",
           \/ pc' = "refused"
           \/ /\ UNCHANGED <<contracts, bindings, dependencies>>
              /\ pc \in Normal /\ pc' \in Normal \ {"authorize"}
              /\ pc = "authorize" =>
                     \A e \in Extensions : \A o \in contracts[e].obligations :
                         Granted(contracts[e], o)
              /\ pc' \in Bound => pc \in Bound
    PROVE  SourceInv'
<1>1. CASE pc' = "refused"
  BY <1>1 DEF SourceInv, Checked, Normal, Bound, Ordering, ObligationsAreBacked
<1>2. CASE /\ UNCHANGED <<contracts, bindings, dependencies>>
           /\ pc \in Normal /\ pc' \in Normal \ {"authorize"}
           /\ pc = "authorize" =>
                  \A e \in Extensions : \A o \in contracts[e].obligations :
                      Granted(contracts[e], o)
           /\ pc' \in Bound => pc \in Bound
  <2>0. contracts' = contracts /\ bindings' = bindings /\ dependencies' = dependencies
    BY <1>2
  <2>1. Extensions' = Extensions /\ (Backed <=> Backed')
    BY <2>0 DEF Extensions, Backed
  <2>2. ObligationsAreBacked'
    BY DEF ObligationsAreBacked
  <2>3. pc \in Checked /\ pc' \in Checked /\ pc # "normalize" /\ pc' # "normalize"
    BY <1>2 DEF Normal
  <2>4. contracts' = Compiled'
    BY <1>2, InputStays DEF SourceInv
  <2>5. \A e \in Extensions : \A o \in contracts[e].obligations : Granted(contracts[e], o)
    BY <1>2 DEF SourceInv
  <2>6. (\A e \in Extensions : \A o \in contracts[e].obligations : Granted(contracts[e], o))'
    BY <2>1, <2>5, <1>2 DEF Granted
  <2>7. (pc' \in Bound => Backed') /\ CheckError' = "none"
    BY <1>2, <2>1, <2>3, InputStays DEF SourceInv
  <2>8. /\ TaxonomyParses(input.taxonomy)'
        /\ (input.manifests => \A p \in Payloads : Parses(p))'
    BY <2>3, InputStays DEF SourceInv
  <2> QED  BY <2>2, <2>3, <2>4, <2>6, <2>7, <2>8, Zenon DEF SourceInv
<1> QED  BY <1>1, <1>2

\* Each step of the compiler keeps the contracts true to their payloads.
LEMMA SourceInvStep ==
    ASSUME IInv, LeastInv, SourceInv, [Next]_vars PROVE SourceInv'
<1> USE DEF Refuse, Continue, work
<1>1. CASE Parse
  <2>1. input' = input /\ pc' \in {"check", "refused"} /\ error' # "KeyError"
    BY <1>1 DEF Parse, IInv
  <2>2. pc' = "check" =>
            /\ TaxonomyParses(input.taxonomy)
            /\ input.manifests => \A p \in Payloads : Parses(p)
    BY <1>1, Zenon DEF Parse, Payloads
  <2>3. ObligationsAreBacked'
    BY <2>1 DEF ObligationsAreBacked
  <2>4. CASE pc' = "refused"
    BY <2>1, <2>4, FrameSource
  <2>5. CASE pc' = "check"
    <3>1. pc' \notin Checked /\ pc' \notin Normal /\ pc' \notin Bound /\ pc' # "normalize"
      BY <2>5 DEF Checked, Normal, Bound, Ordering
    <3>2. /\ TaxonomyParses(input.taxonomy)'
          /\ (input.manifests => \A p \in Payloads : Parses(p))'
      BY <2>1, <2>2, <2>5, InputStays, Zenon
    <3> QED  BY <2>3, <3>1, <3>2, Zenon DEF SourceInv
  <2> QED  BY <2>1, <2>4, <2>5
<1>2. CASE Check
  <2>1. CASE CheckError # "none"
    <3>1. CheckError \in {"INVALID_CONTRACT", "DUPLICATE_PLUGIN", "INCOMPATIBLE_HOST"}
      BY <2>1 DEF CheckError
    <3>2. input' = input /\ pc' = "refused" /\ error' # "KeyError"
      BY <1>2, <2>1, <3>1 DEF Check
    <3> QED  BY <3>2, FrameSource
  <2>2. CASE CheckError = "none"
    <3>1. /\ input' = input /\ pc' = "normalize" /\ error' = error /\ pc = "check"
          /\ contracts' = Read
      BY <1>2, <2>2, Zenon DEF Check, Read, Ids, Source, Payloads
    <3>2. ObligationsAreBacked' /\ pc' \notin Normal /\ pc' \notin Bound
      BY <3>1 DEF ObligationsAreBacked, SourceInv, Normal, Bound, Ordering
    <3>3. CheckError' = "none" /\ contracts' = Read'
      BY <2>2, <3>1, InputStays
    <3>4. /\ TaxonomyParses(input.taxonomy)'
          /\ (input.manifests => \A p \in Payloads : Parses(p))'
      BY <3>1, InputStays DEF SourceInv
    <3> QED  BY <3>2, <3>3, <3>4, Zenon DEF SourceInv
  <2> QED  BY <2>1, <2>2
<1>3. CASE Normalize
  <2>1. CASE NormalizeError # "none"
    <3>1. NormalizeError \in {"unknown-resource", "invalid-mode"}
      BY <2>1 DEF NormalizeError
    <3>2. input' = input /\ pc' = "refused" /\ error' # "KeyError"
      BY <1>3, <2>1, <3>1 DEF Normalize
    <3> QED  BY <3>2, FrameSource
  <2>2. CASE NormalizeError = "none"
    <3>1. /\ input' = input /\ pc' = "authorize" /\ error' = error /\ pc = "normalize"
          /\ contracts' = [e \in Extensions |-> Normalized(contracts[e])]
      BY <1>3, <2>2, Zenon DEF Normalize
    <3>2. pc \in Checked /\ pc' \notin Bound /\ pc' # "normalize"
      BY <3>1 DEF Checked, Labels, Bound, Ordering
    <3>3. contracts = Read
      BY <3>1 DEF SourceInv
    <3>4. Extensions = Ids
      BY <3>3 DEF Extensions, Read
    <3>5. \A e \in Ids : contracts[e] = Parsed(Source(e))
      BY <3>3 DEF Read
    <3>6. contracts' = Compiled
      BY <3>1, <3>4, <3>5, Zenon DEF Compiled
    <3>7. contracts' = Compiled'
      BY <3>6, <3>1, InputStays
    <3>8. ObligationsAreBacked' /\ pc' \notin Normal \ {"authorize"}
      BY <3>1 DEF ObligationsAreBacked, SourceInv
    <3>9. /\ TaxonomyParses(input.taxonomy)' /\ CheckError' = "none"
          /\ (input.manifests => \A p \in Payloads : Parses(p))'
      BY <3>1, <3>2, InputStays DEF SourceInv
    <3> QED  BY <3>2, <3>7, <3>8, <3>9, Zenon DEF SourceInv
  <2> QED  BY <2>1, <2>2
<1>4. CASE Authorize
  <2>1. /\ input' = input /\ pc = "authorize" /\ pc' \in {"resolve", "refused"}
        /\ UNCHANGED <<contracts, bindings, dependencies>> /\ error' # "KeyError"
    BY <1>4 DEF Authorize, IInv
  <2>2. pc' = "resolve" =>
            \A e \in Extensions : \A o \in contracts[e].obligations : Granted(contracts[e], o)
    BY <1>4, Zenon DEF Authorize
  <2>3. pc \in Normal /\ (pc' = "resolve" => pc' \in Normal \ {"authorize"} /\ pc' \notin Bound)
    BY <2>1 DEF Normal, Checked, Labels, Bound, Ordering
  <2> QED  BY <2>1, <2>2, <2>3, FrameSource
<1>5. CASE Resolve
  <2>1. /\ input' = input /\ pc = "resolve" /\ pc' \in {"order", "refused"}
        /\ contracts' = contracts /\ error' # "KeyError"
    BY <1>5 DEF Resolve, IInv
  <2>2. CASE pc' = "refused"
    BY <2>1, <2>2, FrameSource
  <2>3. CASE pc' = "order"
    <3>1. Backed'
      BY <1>5, <2>3, ResolveBacked
    <3>2. pc \in Normal \ {"authorize"} /\ pc \in Checked /\ pc' # "normalize"
      BY <2>1, <2>3 DEF Normal, Checked, Labels
    <3>3. contracts' = Compiled' /\ Extensions' = Extensions
      BY <2>1, <3>2, InputStays DEF SourceInv, Extensions
    <3>4. (\A e \in Extensions : \A o \in contracts[e].obligations : Granted(contracts[e], o))'
      BY <2>1, <3>2, <3>3 DEF SourceInv, Granted
    <3>5. ObligationsAreBacked'
      BY <2>1, <2>3 DEF ObligationsAreBacked
    <3>6. /\ TaxonomyParses(input.taxonomy)' /\ CheckError' = "none"
          /\ (input.manifests => \A p \in Payloads : Parses(p))'
      BY <2>1, <3>2, InputStays DEF SourceInv
    <3> QED  BY <2>3, <3>1, <3>2, <3>3, <3>4, <3>5, <3>6, Zenon DEF SourceInv
  <2> QED  BY <2>1, <2>2, <2>3
<1>6. CASE Order \/ OrderNext \/ OrderEnd \/ ResolveResources
  <2>1. OwnershipError \in {"none", "resource-mode", "mediator-consistency", "mediator-presence"}
    BY DEF OwnershipError
  <2>2. /\ input' = input /\ UNCHANGED <<contracts, bindings, dependencies>>
        /\ pc \in {"order", "order.loop", "resources"} /\ error' # "KeyError"
        /\ pc' \in {"order.loop", "resources", "bind", "refused"}
    BY <1>6, <2>1, Zenon DEF Order, OrderNext, OrderEnd, ResolveResources, IInv
  <2>3. pc \in Normal \ {"authorize"} /\ pc \in Bound
        /\ (pc' # "refused" => pc' \in Normal \ {"authorize"})
    BY <2>2 DEF Normal, Checked, Labels, Bound, Ordering
  <2> QED  BY <2>2, <2>3, FrameSource
<1>7. CASE Bind
  <2>1. ObligationsAreBacked'
    BY <1>7, BindBacked
  <2>2. /\ input' = input /\ UNCHANGED <<contracts, bindings, dependencies>>
        /\ pc = "bind" /\ pc' \in {"planned", "refused"}
    BY <1>7, Zenon DEF Bind
  <2>3. CASE pc' = "refused"
    BY <2>1, <2>2, <2>3, FrameSource DEF ObligationsAreBacked
  <2>4. CASE pc' = "planned"
    <3>1. /\ pc \in Normal \ {"authorize"} /\ pc \in Checked /\ pc \in Bound
          /\ pc' # "normalize"
      BY <2>2, <2>4 DEF Normal, Checked, Labels, Bound, Ordering
    <3>2. contracts' = Compiled' /\ Extensions' = Extensions
      BY <2>2, <3>1, InputStays DEF SourceInv, Extensions
    <3>3. (\A e \in Extensions : \A o \in contracts[e].obligations : Granted(contracts[e], o))'
      BY <2>2, <3>1, <3>2 DEF SourceInv, Granted
    <3>4. Backed'
      BY <2>2, <3>1, <3>2 DEF SourceInv, Backed
    <3>5. /\ TaxonomyParses(input.taxonomy)' /\ CheckError' = "none"
          /\ (input.manifests => \A p \in Payloads : Parses(p))'
      BY <2>2, <3>1, InputStays DEF SourceInv
    <3> QED  BY <2>1, <2>4, <3>1, <3>2, <3>3, <3>4, <3>5, Zenon DEF SourceInv
  <2> QED  BY <2>2, <2>3, <2>4
<1>8. CASE UNCHANGED vars
  <2>1. /\ input' = input /\ UNCHANGED <<pc, error, contracts, bindings, dependencies, ordered,
                                        obligations>>
    BY <1>8 DEF vars
  <2>2. Extensions' = Extensions /\ (Backed <=> Backed')
    BY <2>1 DEF Extensions, Backed
  <2>3. ObligationsAreBacked'
    BY <2>1, Zenon DEF SourceInv, ObligationsAreBacked, Before, Granted
  <2>4. (\A e \in Extensions : \A o \in contracts[e].obligations : Granted(contracts[e], o))'
        <=> \A e \in Extensions : \A o \in contracts[e].obligations : Granted(contracts[e], o)
    BY <2>1, <2>2 DEF Granted
  <2> QED  BY <2>1, <2>2, <2>3, <2>4, InputStays, Zenon DEF SourceInv
<1> QED  BY <1>1, <1>2, <1>3, <1>4, <1>5, <1>6, <1>7, <1>8 DEF Next

\* The contracts are those of the payloads, and what is bound is backed.
THEOREM SourceInvariant == Spec => [](IInv /\ LeastInv /\ SourceInv)
<1>1. Init => LeastInv
  BY DEF Init, LeastInv, Greedy, Complete
<1>2. Init => SourceInv
  BY DEF Init, SourceInv, Checked, Normal, Bound, Ordering, ObligationsAreBacked
<1>3. IInv /\ LeastInv /\ [Next]_vars => LeastInv'
  BY LeastInvStep
<1>4. IInv /\ LeastInv /\ SourceInv /\ [Next]_vars => SourceInv'
  BY SourceInvStep
<1> QED  BY <1>1, <1>2, <1>3, <1>4, CompilerInvariant, PTL DEF Spec

\* _bind_obligations finds every obligation's provider: the extension itself, or one that
\* provides the capability and comes earlier in the order.
THEOREM ObligationsBacked == Spec => []ObligationsAreBacked
<1>1. SourceInv => ObligationsAreBacked
  BY DEF SourceInv
<1> QED  BY <1>1, SourceInvariant, PTL

-----------------------------------------------------------------------------
(* The claims of the contracts and those of the payloads. *)

\* Where a claim of a payload is found among the contracts.
Place(c) == <<input.payloads[c[1]].id, c[2]>>

\* Contracts are read off their payloads, so that they have the same claims.
LEMMA ContractOfPayload ==
    ASSUME SourceInv, pc \in Checked, NEW p \in Payloads
    PROVE  /\ p.id \in Extensions
           /\ pc = "normalize" => contracts[p.id].resources = p.resources
           /\ pc \in Normal =>
                contracts[p.id].resources = [i \in DOMAIN p.resources |-> Renamed(p.resources[i])]
           /\ pc \in Normal =>
                /\ contracts[p.id].provides = Range(p.provides)
                /\ contracts[p.id].requires = Range(p.requires)
<1>1. p.id \in Ids /\ Source(p.id) = p
  BY SourceIsOne DEF SourceInv
<1>2. CASE pc = "normalize"
  <2>1. contracts = Read /\ pc \notin Normal
    BY <1>2 DEF SourceInv, Normal
  <2>2. p.id \in Extensions /\ contracts[p.id] = Parsed(p)
    BY <1>1, <2>1 DEF Read, Extensions
  <2> QED  BY <2>1, <2>2 DEF Parsed
<1>3. CASE pc # "normalize"
  <2>1. contracts = Compiled /\ pc \in Normal
    BY <1>3 DEF SourceInv, Normal
  <2>2. p.id \in Extensions
    BY <1>1, <2>1 DEF Compiled, Extensions
  <2> QED  BY <1>1, <1>3, <2>1, <2>2, ContractFields
<1> QED  BY <1>2, <1>3

\* Every extension has a payload.
LEMMA PayloadOfContract ==
    ASSUME SourceInv, pc \in Checked, NEW e \in Extensions
    PROVE  \E k \in DOMAIN input.payloads : input.payloads[k].id = e
<1>1. Extensions = Ids
  BY DEF SourceInv, Normal, Read, Compiled, Extensions
<1> QED  BY <1>1 DEF Ids, Payloads, Range

\* A claim has a name, a mode and perhaps a mediator.
LEMMA RawClaimFacts ==
    ASSUME IInv, SourceInv, pc \in Checked, NEW c \in RawClaims
    PROVE  /\ RawClaim(c).mode \in {"exclusive", "shared-read", "mediated"}
           /\ (RawClaim(c).mode = "mediated") <=> (RawClaim(c).mediator # NoMediator)
           /\ Renamed(RawClaim(c)).name = Canonical(RawClaim(c).name)
           /\ Renamed(RawClaim(c)).mode = RawClaim(c).mode
           /\ Renamed(RawClaim(c)).mediator = RawClaim(c).mediator
<1>1. PICK k \in DOMAIN input.payloads : c \in {k} \X DOMAIN input.payloads[k].resources
  BY DEF RawClaims
<1> DEFINE p == input.payloads[k]
           r == RawClaim(c)
<1>2. r \in Range(p.resources) /\ p \in Payloads
  BY <1>1, Zenon DEF RawClaim, Range, Payloads
<1> HIDE DEF r
<1>3. /\ r = [name |-> r.name, mode |-> r.mode, mediator |-> r.mediator]
      /\ r.mode \in {"exclusive", "shared-read", "mediated"}
      /\ ~input.manifests => ((r.mode = "mediated") = (r.mediator # NoMediator))
      /\ input.manifests \in BOOLEAN
  BY <1>2, InputsAssumption DEF IInv
<1>4. input.manifests => ((r.mode = "mediated") = (r.mediator # NoMediator))
  BY <1>2 DEF SourceInv, Parses
<1>5. (r.mode = "mediated") <=> (r.mediator # NoMediator)
  BY <1>3, <1>4
<1>6. Renamed(r) = [r EXCEPT !.name = Canonical(r.name)]
  BY DEF Renamed
<1>7. /\ Renamed(r).name = Canonical(r.name) /\ Renamed(r).mode = r.mode
      /\ Renamed(r).mediator = r.mediator
  BY <1>3, <1>6
<1> QED  BY <1>3, <1>5, <1>7 DEF r

\* The claim is found at its place, renamed once the aliases are resolved.
LEMMA RawIsClaim ==
    ASSUME IInv, SourceInv, pc \in Checked, NEW c \in RawClaims
    PROVE  /\ Place(c) \in Claims /\ Place(c)[1] = input.payloads[c[1]].id
           /\ pc = "normalize" => Claim(Place(c)) = RawClaim(c)
           /\ pc \in Normal => Claim(Place(c)) = Renamed(RawClaim(c))
<1>1. PICK k \in DOMAIN input.payloads : c \in {k} \X DOMAIN input.payloads[k].resources
  BY DEF RawClaims
<1> DEFINE p == input.payloads[k]
<1>2. p \in Payloads /\ c[1] = k /\ c[2] \in DOMAIN p.resources
  BY <1>1 DEF Range, Payloads
<1>3. /\ p.id \in Extensions
      /\ pc = "normalize" => contracts[p.id].resources = p.resources
      /\ pc \in Normal =>
           contracts[p.id].resources = [i \in DOMAIN p.resources |-> Renamed(p.resources[i])]
  BY <1>2, ContractOfPayload
<1>4. pc = "normalize" \/ pc \in Normal
  BY DEF Normal
<1>5. Place(c) = <<p.id, c[2]>> /\ Place(c)[1] = p.id /\ Place(c)[2] = c[2]
  BY <1>2 DEF Place
<1>6. DOMAIN contracts[p.id].resources = DOMAIN p.resources
  BY <1>3, <1>4
<1>7. Place(c) \in Claims
  BY <1>2, <1>3, <1>5, <1>6 DEF Claims
<1>8. Claim(Place(c)) = contracts[p.id].resources[c[2]] /\ RawClaim(c) = p.resources[c[2]]
  BY <1>2, <1>5 DEF Claim, RawClaim
<1>9. pc = "normalize" => Claim(Place(c)) = RawClaim(c)
  BY <1>3, <1>8, Zenon
<1>10. pc \in Normal => Claim(Place(c)) = Renamed(RawClaim(c))
  BY <1>2, <1>3, <1>8
<1> QED  BY <1>2, <1>5, <1>7, <1>9, <1>10

\* Every claim of a contract has one place.
LEMMA ClaimIsRaw ==
    ASSUME IInv, SourceInv, pc \in Checked, NEW d \in Claims
    PROVE  \E c \in RawClaims : d = Place(c)
<1>1. PICK e \in Extensions : d \in {e} \X DOMAIN contracts[e].resources
  BY DEF Claims
<1>2. PICK k \in DOMAIN input.payloads : input.payloads[k].id = e
  BY PayloadOfContract
<1> DEFINE p == input.payloads[k]
           c == <<k, d[2]>>
<1>3. pc = "normalize" \/ pc \in Normal
  BY DEF Normal
<1>4. p \in Payloads
  BY <1>2 DEF Payloads, Range
<1>5. DOMAIN contracts[e].resources = DOMAIN p.resources
  BY <1>2, <1>3, <1>4, ContractOfPayload, Zenon
<1>6. c \in RawClaims
  BY <1>1, <1>2, <1>5 DEF RawClaims
<1>7. d = Place(c)
  BY <1>1, <1>2 DEF Place
<1> QED  BY <1>6, <1>7

\* Different claims have different places.
LEMMA PlacesDiffer ==
    ASSUME IInv, SourceInv, pc \in Checked, NEW c \in RawClaims, NEW d \in RawClaims
    PROVE  /\ Place(c) = Place(d) <=> c = d
           /\ Place(c)[1] = Place(d)[1] <=> c[1] = d[1]
<1>1. IsInjective([i \in DOMAIN input.payloads |-> input.payloads[i].id])
  BY DEF SourceInv, CheckError
<1>2. PICK k \in DOMAIN input.payloads : c \in {k} \X DOMAIN input.payloads[k].resources
  BY DEF RawClaims
<1>3. PICK l \in DOMAIN input.payloads : d \in {l} \X DOMAIN input.payloads[l].resources
  BY DEF RawClaims
<1>4. input.payloads[k].id = input.payloads[l].id => k = l
  BY <1>1, Zenon DEF IsInjective
<1>5. c = <<k, c[2]>> /\ d = <<l, d[2]>>
  BY <1>2, <1>3
<1>6. Place(c) = <<input.payloads[k].id, c[2]>> /\ Place(d) = <<input.payloads[l].id, d[2]>>
  BY <1>2, <1>3 DEF Place
<1>7. Place(c) = Place(d) <=> c = d
  BY <1>4, <1>5, <1>6
<1>8. Place(c)[1] = Place(d)[1] <=> c[1] = d[1]
  BY <1>2, <1>3, <1>4, <1>6
<1> QED  BY <1>7, <1>8

-----------------------------------------------------------------------------
(* Each check refuses exactly the sets with its defect. *)

\* The defects of names and modes, as _normalize_taxonomy_resources finds them.
LEMMA NormalizeFinds ==
    ASSUME IInv, SourceInv, pc = "normalize"
    PROVE  /\ NormalizeError = "unknown-resource" <=> Defect("unknown-resource")
           /\ NormalizeError = "invalid-mode" =>
                  Defect("invalid-mode") /\ ~Defect("unknown-resource")
           /\ NormalizeError = "none" =>
                  ~Defect("invalid-mode") /\ ~Defect("unknown-resource")
<1>1. pc \in Checked
  BY DEF Checked, Labels
<1>2. \A c \in RawClaims : Place(c) \in Claims /\ Claim(Place(c)) = RawClaim(c)
  BY <1>1, RawIsClaim
<1>3. \A d \in Claims : \E c \in RawClaims : d = Place(c)
  BY <1>1, ClaimIsRaw
<1>4. (\E c \in RawClaims : ~Known(RawClaim(c).name)) <=> \E d \in Claims : ~Known(Claim(d).name)
  BY <1>2, <1>3
<1>5. (\E c \in RawClaims : RawClaim(c).mode \notin Rule(RawClaim(c).name).modes)
      <=> \E d \in Claims : Claim(d).mode \notin Rule(Claim(d).name).modes
  BY <1>2, <1>3
<1>6. Defect("unknown-resource") <=>
        input.taxonomy # NoTaxonomy /\ \E d \in Claims : ~Known(Claim(d).name)
  BY <1>4 DEF Defect
<1>7. Defect("invalid-mode") <=>
        /\ input.taxonomy # NoTaxonomy
        /\ \E d \in Claims : Claim(d).mode \notin Rule(Claim(d).name).modes
  BY <1>5 DEF Defect
<1> QED  BY <1>6, <1>7 DEF NormalizeError

\* A payload names each capability it provides once.
LEMMA ProvidesOnce ==
    ASSUME IInv, SourceInv, pc \in Checked, NEW p \in Payloads,
           NEW a \in Range(p.provides), NEW b \in Range(p.provides), a.name = b.name
    PROVE  a = b
<1>1. PICK k \in DOMAIN input.payloads : p = input.payloads[k]
  BY DEF Payloads, Range
<1>2. input.manifests \/ IsInjective(Names(p.provides))
  BY <1>1, InputsAssumption DEF IInv
<1>3. IsInjective(Names(p.provides))
  BY <1>2 DEF SourceInv, Parses
<1>4. PICK i \in DOMAIN p.provides : a = p.provides[i]
  BY DEF Range
<1>5. PICK j \in DOMAIN p.provides : b = p.provides[j]
  BY DEF Range
<1>6. i = j
  BY <1>3, <1>4, <1>5, Zenon DEF IsInjective, Names
<1> QED  BY <1>4, <1>5, <1>6

\* There are finitely many payloads.
LEMMA PayloadsFinite ==
    ASSUME IInv PROVE IsFiniteSet(Payloads)
<1>1. Len(input.payloads) \in Nat /\ DOMAIN input.payloads = 1..Len(input.payloads)
  BY InputsAssumption DEF IInv, IsList
<1> QED  BY <1>1, NumberedIsFinite DEF Payloads, Range

\* The matches of a requirement are counted as the payloads that provide it.
LEMMA MatchesAreProviders ==
    ASSUME IInv, SourceInv, pc \in Normal, NEW r
    PROVE  Cardinality(Compatible(r)) = Cardinality(Providing(r))
<1> DEFINE C == Compatible(r)
           P == Providing(r)
           f == [m \in C |-> Source(m[1])]
<1>1. pc \in Checked
  BY DEF Normal
<1>2. ASSUME NEW m \in C
      PROVE  /\ m = <<m[1], m[2]>> /\ m[1] \in Extensions
             /\ m[2] \in Range(Source(m[1]).provides)
             /\ m[2].name = r.name /\ m[2].version \in r.range
             /\ Source(m[1]) \in P /\ Source(m[1]) \in Payloads /\ Source(m[1]).id = m[1]
  <2>1. /\ m = <<m[1], m[2]>> /\ m[1] \in Extensions /\ m[2] \in contracts[m[1]].provides
        /\ m[2].name = r.name /\ m[2].version \in r.range
    BY DEF Compatible
  <2>2. m[2] \in Range(Source(m[1]).provides)
        /\ Source(m[1]) \in Payloads /\ Source(m[1]).id = m[1]
    BY <2>1, ContractFields, Zenon
  <2> QED  BY <2>1, <2>2 DEF Providing
<1>3. f \in Injection(C, P)
  <2>1. f \in [C -> P]
    BY <1>2
  <2>2. ASSUME NEW m \in C, NEW n \in C, f[m] = f[n] PROVE m = n
    <3>1. Source(m[1]) = Source(n[1])
      BY <2>2
    <3>2. m[1] = n[1]
      BY <3>1, <1>2
    <3>3. m[2] = n[2]
      BY <3>1, <1>1, <1>2, ProvidesOnce
    <3> QED  BY <3>2, <3>3, <1>2
  <2> QED  BY <2>1, <2>2 DEF Injection, IsInjective
<1>4. ASSUME NEW p \in P PROVE \E m \in C : f[m] = p
  <2>1. p \in Payloads /\ \E c \in Range(p.provides) : c.name = r.name /\ c.version \in r.range
    BY DEF Providing
  <2>2. PICK c \in Range(p.provides) : c.name = r.name /\ c.version \in r.range
    BY <2>1
  <2>3. p.id \in Extensions /\ contracts[p.id].provides = Range(p.provides)
    BY <1>1, <2>1, ContractOfPayload, Zenon
  <2>4. <<p.id, c>> \in C
    BY <2>2, <2>3 DEF Compatible
  <2>5. Source(p.id) = p
    BY <1>1, <2>1, SourceIsOne DEF SourceInv
  <2> QED  BY <2>4, <2>5
<1>5. f \in Surjection(C, P)
  BY <1>3, <1>4 DEF Surjection, Injection
<1>6. IsFiniteSet(P)
  BY PayloadsFinite, FS_Subset DEF Providing
<1> QED  BY <1>3, <1>5, <1>6, FS_Injection

\* The defect of capabilities, as _resolve_capabilities finds it.
LEMMA ResolveFinds ==
    ASSUME IInv, SourceInv, pc \in Normal
    PROVE  (\E q \in Requirements : Cardinality(Compatible(q[2])) # 1)
           <=> Defect("capability-cardinality")
<1>1. pc \in Checked
  BY DEF Normal
<1>2. ASSUME NEW q \in Requirements, Cardinality(Compatible(q[2])) # 1
      PROVE  \E p \in Payloads : \E r \in Range(p.requires) : Cardinality(Providing(r)) # 1
  <2>1. q[1] \in Extensions /\ q[2] \in contracts[q[1]].requires
    BY DEF Requirements
  <2>2. Source(q[1]) \in Payloads /\ q[2] \in Range(Source(q[1]).requires)
    BY <2>1, ContractFields, Zenon
  <2>3. Cardinality(Providing(q[2])) # 1
    BY <1>2, MatchesAreProviders
  <2> QED  BY <2>2, <2>3
<1>3. ASSUME NEW p \in Payloads, NEW r \in Range(p.requires), Cardinality(Providing(r)) # 1
      PROVE  \E q \in Requirements : Cardinality(Compatible(q[2])) # 1
  <2>1. p.id \in Extensions /\ contracts[p.id].requires = Range(p.requires)
    BY <1>1, ContractOfPayload, Zenon
  <2>2. <<p.id, r>> \in Requirements
    BY <2>1 DEF Requirements
  <2>3. Cardinality(Compatible(<<p.id, r>>[2])) # 1
    BY <1>3, MatchesAreProviders
  <2> QED  BY <2>2, <2>3
<1>4. Defect("capability-cardinality") <=>
        \E p \in Payloads : \E r \in Range(p.requires) : Cardinality(Providing(r)) # 1
  BY DEF Defect
<1> QED  BY <1>2, <1>3, <1>4

-----------------------------------------------------------------------------
(* The defects of ownership, restated of the claims of the contracts. *)

Alike(c, d) == Claim(c).name = Claim(d).name

Conflicting(c, d) ==
    /\ c # d /\ Alike(c, d)
    /\ c[1] = d[1] \/ Claim(c).mode # Claim(d).mode \/ Claim(c).mode = "exclusive"

Unmediated(c) ==
    Claim(c).mode = "mediated" /\ \A d \in Claims : Alike(c, d) => d[1] # Claim(c).mediator

\* What a claim may say.
ClaimShape ==
    \A c \in Claims :
        /\ Claim(c).mode \in {"exclusive", "shared-read", "mediated"}
        /\ (Claim(c).mode = "mediated") <=> (Claim(c).mediator # NoMediator)

\* The claims say what the payloads say, by their canonical names.
LEMMA ClaimsAreRaw ==
    ASSUME IInv, SourceInv, pc \in Normal
    PROVE  /\ ClaimShape
           /\ Defect("resource-mode") <=> \E c, d \in Claims : Conflicting(c, d)
           /\ Defect("mediator-consistency") <=>
                  \E c, d \in Claims : Alike(c, d) /\ Claim(c).mediator # Claim(d).mediator
           /\ Defect("mediator-presence") <=> \E c \in Claims : Unmediated(c)
<1>1. pc \in Checked
  BY DEF Normal
<1>2. ASSUME NEW c \in RawClaims
      PROVE  /\ Place(c) \in Claims /\ Place(c)[1] = input.payloads[c[1]].id
             /\ Claim(Place(c)).name = Canonical(RawClaim(c).name)
             /\ Claim(Place(c)).mode = RawClaim(c).mode
             /\ Claim(Place(c)).mediator = RawClaim(c).mediator
  BY <1>1, RawIsClaim, RawClaimFacts
<1>3. \A d \in Claims : \E c \in RawClaims : d = Place(c)
  BY <1>1, ClaimIsRaw
<1>4. \A c, d \in RawClaims : SameResource(c, d) <=> Alike(Place(c), Place(d))
  BY <1>2 DEF SameResource, Alike
<1>5. ClaimShape
  <2> SUFFICES ASSUME NEW d \in Claims
               PROVE  /\ Claim(d).mode \in {"exclusive", "shared-read", "mediated"}
                      /\ (Claim(d).mode = "mediated") <=> (Claim(d).mediator # NoMediator)
    BY DEF ClaimShape
  <2>1. PICK c \in RawClaims : d = Place(c)
    BY <1>3
  <2> QED  BY <2>1, <1>1, <1>2, RawClaimFacts
<1>6. \A c, d \in RawClaims :
        (/\ c # d /\ SameResource(c, d)
         /\ c[1] = d[1] \/ RawClaim(c).mode # RawClaim(d).mode \/ RawClaim(c).mode = "exclusive")
        <=> Conflicting(Place(c), Place(d))
  BY <1>1, <1>2, <1>4, PlacesDiffer DEF Conflicting
<1>7. Defect("resource-mode") <=>
        \E c, d \in RawClaims :
            /\ c # d /\ SameResource(c, d)
            /\ c[1] = d[1] \/ RawClaim(c).mode # RawClaim(d).mode \/ RawClaim(c).mode = "exclusive"
  BY DEF Defect
<1>8. Defect("resource-mode") <=> \E c, d \in Claims : Conflicting(c, d)
  BY <1>2, <1>3, <1>6, <1>7
<1>9. Defect("mediator-consistency") <=>
        \E c, d \in RawClaims : SameResource(c, d) /\ RawClaim(c).mediator # RawClaim(d).mediator
  BY DEF Defect
<1>10. Defect("mediator-consistency") <=>
        \E c, d \in Claims : Alike(c, d) /\ Claim(c).mediator # Claim(d).mediator
  BY <1>2, <1>3, <1>4, <1>9
<1>11. Defect("mediator-presence") <=>
        \E c \in RawClaims :
            /\ RawClaim(c).mode = "mediated"
            /\ \A d \in RawClaims :
                   SameResource(c, d) => input.payloads[d[1]].id # RawClaim(c).mediator
  BY DEF Defect
<1>12. \A c \in RawClaims :
        (/\ RawClaim(c).mode = "mediated"
         /\ \A d \in RawClaims :
                SameResource(c, d) => input.payloads[d[1]].id # RawClaim(c).mediator)
        <=> Unmediated(Place(c))
  BY <1>2, <1>3, <1>4 DEF Unmediated
<1>13. Defect("mediator-presence") <=> \E c \in Claims : Unmediated(c)
  BY <1>2, <1>3, <1>11, <1>12
<1> QED  BY <1>5, <1>8, <1>10, <1>13

\* There are finitely many claims.
LEMMA ClaimsFinite ==
    ASSUME IInv, SourceInv, pc \in Normal PROVE IsFiniteSet(Claims)
<1> DEFINE ps == input.payloads
           f == [k \in 1..Len(ps) |-> {ps[k].id} \X DOMAIN ps[k].resources]
           F == {f[k] : k \in DOMAIN f}
<1>1. Len(ps) \in Nat /\ DOMAIN ps = 1..Len(ps)
  BY InputsAssumption DEF IInv, IsList
<1>2. IsFiniteSet(F)
  BY <1>1, NumberedIsFinite, Zenon
<1>3. ASSUME NEW T \in F PROVE IsFiniteSet(T)
  <2>1. PICK k \in 1..Len(ps) : T = {ps[k].id} \X DOMAIN ps[k].resources
    OBVIOUS
  <2>0. input \in Inputs /\ k \in DOMAIN input.payloads
    BY <1>1 DEF IInv
  <2>6. IsList(ps[k].resources)
    BY <2>0, InputsAssumption
  <2>2. Len(ps[k].resources) \in Nat /\ DOMAIN ps[k].resources = 1..Len(ps[k].resources)
    BY <2>6, Zenon DEF IsList
  <2>3. IsFiniteSet(DOMAIN ps[k].resources)
    <3> DEFINE l == Len(ps[k].resources)
    <3>1. l \in Nat /\ DOMAIN ps[k].resources = 1..l
      BY <2>2
    <3> HIDE DEF l
    <3>2. IsFiniteSet(1..l)
      BY <3>1, FS_Interval
    <3> QED  BY <3>1, <3>2
  <2>4. IsFiniteSet({ps[k].id})
    BY FS_Singleton, Zenon
  <2> QED  BY <2>1, <2>3, <2>4, FS_Product, Zenon
<1>4. IsFiniteSet(UNION F)
  BY <1>2, <1>3, FS_UNION, Zenon
<1>5. Claims \subseteq UNION F
  <2> SUFFICES ASSUME NEW d \in Claims PROVE d \in UNION F
    OBVIOUS
  <2>1. PICK c \in RawClaims : d = Place(c)
    BY ClaimIsRaw DEF Normal
  <2>2. PICK k \in DOMAIN ps : c \in {k} \X DOMAIN ps[k].resources
    BY DEF RawClaims
  <2>3. d \in {ps[k].id} \X DOMAIN ps[k].resources
    BY <2>1, <2>2 DEF Place
  <2> QED  BY <2>2, <2>3, <1>1
<1> QED  BY <1>4, <1>5, FS_Subset, Zenon

\* Two claims are counted as more than one.
LEMMA TwoOrMore ==
    ASSUME NEW S, IsFiniteSet(S)
    PROVE  Cardinality(S) > 1 <=> \E x, y \in S : x # y
<1>1. Cardinality(S) \in Nat /\ (Cardinality(S) = 0 <=> S = {})
  BY FS_CardinalityType, FS_EmptySet
<1>2. Cardinality(S) = 1 <=> \E x : S = {x}
  BY FS_Singleton
<1> QED  BY <1>1, <1>2

\* The defect of modes, as _resolve_resources finds it.
LEMMA ConflictFinds ==
    ASSUME IsFiniteSet(Claims), ClaimShape, NEW n \in Resources
    PROVE  ModeConflict(n) <=> \E c, d \in ClaimsOf(n) : Conflicting(c, d)
<1> DEFINE S == ClaimsOf(n)
           g == [c \in S |-> c[1]]
<1>1. IsFiniteSet(S) /\ \A c \in S : c \in Claims /\ Claim(c).name = n
  BY FS_Subset DEF ClaimsOf
<1>2. g \in Surjection(S, Owners(n))
  BY DEF Surjection, Owners
<1>3. Cardinality(Owners(n)) = Cardinality(S) <=> g \in Injection(S, Owners(n))
  BY <1>1, <1>2, FS_Surjection
<1>4. g \in [S -> Owners(n)]
  BY <1>2 DEF Surjection
<1>5. g \in Injection(S, Owners(n)) <=> \A c, d \in S : c[1] = d[1] => c = d
  BY <1>4, Zenon DEF Injection, IsInjective
<1>6. Cardinality(S) # Cardinality(Owners(n)) <=> \E c, d \in S : c # d /\ c[1] = d[1]
  BY <1>3, <1>5
<1>7. Cardinality(S) > 1 <=> \E c, d \in S : c # d
  BY <1>1, TwoOrMore
<1>8. \A c, d \in S : Alike(c, d)
  BY <1>1 DEF Alike
<1>9. \A c \in S : Claim(c).mode \in {"exclusive", "shared-read", "mediated"}
  BY <1>1 DEF ClaimShape
<1>10. ASSUME ModeConflict(n) PROVE \E c, d \in S : Conflicting(c, d)
  <2>1. CASE Cardinality(S) # Cardinality(Owners(n))
    BY <2>1, <1>6, <1>8 DEF Conflicting
  <2>2. CASE Cardinality(S) > 1 /\ Modes(n) \notin {{"shared-read"}, {"mediated"}}
    <3>1. PICK c \in S, d \in S : c # d
      BY <2>2, <1>7
    <3>2. CASE \E x \in S : Claim(x).mode # Claim(c).mode
      BY <3>2, <1>8 DEF Conflicting
    <3>3. CASE \A x \in S : Claim(x).mode = Claim(c).mode
      <4>1. Modes(n) = {Claim(c).mode}
        BY <3>3 DEF Modes
      <4>2. Claim(c).mode = "exclusive"
        BY <4>1, <2>2, <1>9
      <4> QED  BY <3>1, <4>2, <1>8 DEF Conflicting
    <3> QED  BY <3>2, <3>3
  <2> QED  BY <1>10, <2>1, <2>2 DEF ModeConflict
<1>11. ASSUME NEW c \in S, NEW d \in S, Conflicting(c, d) PROVE ModeConflict(n)
  <2>1. Claim(c).mode \in Modes(n) /\ Claim(d).mode \in Modes(n)
    BY DEF Modes
  <2>2. Cardinality(S) > 1
    BY <1>7, <1>11 DEF Conflicting
  <2>3. c[1] = d[1] => Cardinality(S) # Cardinality(Owners(n))
    BY <1>6, <1>11 DEF Conflicting
  <2>4. c[1] # d[1] => Modes(n) \notin {{"shared-read"}, {"mediated"}}
    BY <2>1, <1>11 DEF Conflicting
  <2> QED  BY <2>2, <2>3, <2>4 DEF ModeConflict
<1> QED  BY <1>10, <1>11

\* Where modes do not conflict, the claims of a resource are all mediated or none is.
LEMMA MediatedAlike ==
    ASSUME \A c, d \in Claims : ~Conflicting(c, d), NEW c \in Claims, Claim(c).mode = "mediated"
    PROVE  /\ Claim(c).name \in Resources /\ Mediated(Claim(c).name)
           /\ c \in ClaimsOf(Claim(c).name)
<1>1. c \in ClaimsOf(Claim(c).name) /\ Claim(c).name \in Resources
  BY DEF ClaimsOf, Resources
<1>2. \A d \in ClaimsOf(Claim(c).name) : Claim(d).mode = "mediated"
  BY DEF ClaimsOf, Conflicting, Alike
<1>3. Modes(Claim(c).name) = {"mediated"}
  BY <1>1, <1>2 DEF Modes
<1> QED  BY <1>1, <1>3 DEF Mediated

\* Two mediators of one resource, where the modes do not conflict.
LEMMA ConsistencyFinds ==
    ASSUME IsFiniteSet(Claims), ClaimShape, \A c, d \in Claims : ~Conflicting(c, d)
    PROVE  (\E n \in Resources : Mediated(n) /\ Cardinality(Mediators(n)) # 1)
           <=> \E c, d \in Claims : Alike(c, d) /\ Claim(c).mediator # Claim(d).mediator
<1>1. ASSUME NEW n \in Resources, Cardinality(Mediators(n)) # 1
      PROVE  \E c, d \in Claims : Alike(c, d) /\ Claim(c).mediator # Claim(d).mediator
  <2>1. PICK c \in Claims : Claim(c).name = n
    BY DEF Resources
  <2>2. Claim(c).mediator \in Mediators(n)
    BY <2>1 DEF Mediators, ClaimsOf
  <2>3. Mediators(n) # {Claim(c).mediator}
    BY <1>1, FS_Singleton, Zenon
  <2>4. PICK x \in Mediators(n) : x # Claim(c).mediator
    BY <2>2, <2>3
  <2>5. PICK d \in ClaimsOf(n) : x = Claim(d).mediator
    BY DEF Mediators
  <2> QED  BY <2>1, <2>4, <2>5 DEF ClaimsOf, Alike
<1>2. ASSUME NEW c \in Claims, NEW d \in Claims, Alike(c, d),
             Claim(c).mediator # Claim(d).mediator
      PROVE  \E n \in Resources : Mediated(n) /\ Cardinality(Mediators(n)) # 1
  <2> DEFINE n == Claim(c).name
             h == [x \in ClaimsOf(n) |-> Claim(x).mediator]
  <2>1. c # d /\ Claim(c).mode = Claim(d).mode
    BY <1>2 DEF Conflicting
  <2>2. Claim(c).mode = "mediated"
    BY <2>1, <1>2 DEF ClaimShape
  <2>3. n \in Resources /\ Mediated(n) /\ c \in ClaimsOf(n) /\ d \in ClaimsOf(n)
    BY <2>2, <1>2, MediatedAlike DEF ClaimsOf, Alike
  <2>4. h \in Surjection(ClaimsOf(n), Mediators(n))
    BY DEF Surjection, Mediators
  <2>5. IsFiniteSet(ClaimsOf(n))
    BY FS_Subset DEF ClaimsOf
  <2>6. IsFiniteSet(Mediators(n))
    BY <2>4, <2>5, FS_Surjection
  <2>7. Claim(c).mediator \in Mediators(n) /\ Claim(d).mediator \in Mediators(n)
    BY <2>3 DEF Mediators
  <2>8. Cardinality(Mediators(n)) # 1
    BY <2>6, <2>7, <1>2, FS_Singleton
  <2> QED  BY <2>3, <2>8
<1> QED  BY <1>1, <1>2

\* A mediator that owns nothing, where all claims of a resource name the same.
LEMMA PresenceFinds ==
    ASSUME \A c, d \in Claims : ~Conflicting(c, d),
           \A c, d \in Claims : Alike(c, d) => Claim(c).mediator = Claim(d).mediator
    PROVE  (\E n \in Resources : Mediated(n) /\ Mediator(n) \notin Owners(n))
           <=> \E c \in Claims : Unmediated(c)
<1>1. ASSUME NEW c \in Claims PROVE Mediator(Claim(c).name) = Claim(c).mediator
  <2>1. Mediators(Claim(c).name) = {Claim(c).mediator}
    BY DEF Mediators, ClaimsOf, Alike
  <2> QED  BY <2>1 DEF Mediator
<1>2. ASSUME NEW c \in Claims, NEW x
      PROVE  x \in Owners(Claim(c).name) <=> \E d \in Claims : Alike(c, d) /\ d[1] = x
  BY DEF Owners, ClaimsOf, Alike
<1>3. ASSUME NEW n \in Resources, Mediated(n), Mediator(n) \notin Owners(n)
      PROVE  \E c \in Claims : Unmediated(c)
  <2>1. PICK c \in Claims : Claim(c).name = n
    BY DEF Resources
  <2>2. Claim(c).mode = "mediated"
    BY <2>1, <1>3 DEF Mediated, Modes, ClaimsOf
  <2> QED  BY <2>1, <2>2, <1>1, <1>2, <1>3 DEF Unmediated
<1>4. ASSUME NEW c \in Claims, Unmediated(c)
      PROVE  \E n \in Resources : Mediated(n) /\ Mediator(n) \notin Owners(n)
  <2>1. Claim(c).name \in Resources /\ Mediated(Claim(c).name)
    BY <1>4, MediatedAlike DEF Unmediated
  <2>2. Mediator(Claim(c).name) \notin Owners(Claim(c).name)
    BY <1>1, <1>2, <1>4 DEF Unmediated
  <2> QED  BY <2>1, <2>2
<1> QED  BY <1>3, <1>4

\* The defects of ownership in the order in which _resolve_resources looks for them.
LEMMA OwnershipFinds ==
    ASSUME IInv, SourceInv, pc \in Normal
    PROVE  /\ OwnershipError = "resource-mode" <=> Defect("resource-mode")
           /\ OwnershipError = "mediator-consistency" =>
                  Defect("mediator-consistency") /\ ~Defect("resource-mode")
           /\ OwnershipError = "mediator-presence" =>
                  /\ Defect("mediator-presence") /\ ~Defect("resource-mode")
                  /\ ~Defect("mediator-consistency")
           /\ OwnershipError = "none" =>
                  /\ ~Defect("resource-mode") /\ ~Defect("mediator-consistency")
                  /\ ~Defect("mediator-presence")
<1>1. IsFiniteSet(Claims) /\ ClaimShape
  BY ClaimsFinite, ClaimsAreRaw
<1>2. (\E n \in Resources : ModeConflict(n)) <=> Defect("resource-mode")
  <2>1. (\E n \in Resources : ModeConflict(n)) <=>
            \E n \in Resources : \E c, d \in ClaimsOf(n) : Conflicting(c, d)
    BY <1>1, ConflictFinds
  <2>2. (\E n \in Resources : \E c, d \in ClaimsOf(n) : Conflicting(c, d)) <=>
            \E c, d \in Claims : Conflicting(c, d)
    BY DEF ClaimsOf, Resources, Conflicting, Alike
  <2> QED  BY <2>1, <2>2, ClaimsAreRaw
<1>3. ~Defect("resource-mode") =>
        ((\E n \in Resources : Mediated(n) /\ Cardinality(Mediators(n)) # 1)
         <=> Defect("mediator-consistency"))
  BY <1>1, ClaimsAreRaw, ConsistencyFinds
<1>4. ~Defect("resource-mode") /\ ~Defect("mediator-consistency") =>
        ((\E n \in Resources : Mediated(n) /\ Mediator(n) \notin Owners(n))
         <=> Defect("mediator-presence"))
  BY ClaimsAreRaw, PresenceFinds
<1> QED  BY <1>2, <1>3, <1>4 DEF OwnershipError

-----------------------------------------------------------------------------
Classes == {"unknown-resource", "invalid-mode", "capability-cardinality", "resource-mode",
            "mediator-consistency", "mediator-presence"}

\* The precedence of the classes, written out.
Decided ==
    /\ pc = "planned" => \A class \in Classes : ~Defect(class)
    /\ error \in Classes => Defect(error)
    /\ error \in Classes \ {"unknown-resource"} => ~Defect("unknown-resource")
    /\ error \in Classes \ {"unknown-resource", "invalid-mode"} => ~Defect("invalid-mode")
    /\ error \in {"resource-mode", "mediator-consistency", "mediator-presence"} =>
           ~Defect("capability-cardinality")
    /\ error \in {"mediator-consistency", "mediator-presence"} => ~Defect("resource-mode")
    /\ error = "mediator-presence" => ~Defect("mediator-consistency")

\* A set that passed a check does not have its defect.
DecisionInv ==
    /\ pc \in Normal => ~Defect("unknown-resource") /\ ~Defect("invalid-mode")
    /\ pc \in Bound => ~Defect("capability-cardinality")
    /\ pc \in {"bind", "planned"} =>
           /\ ~Defect("resource-mode") /\ ~Defect("mediator-consistency")
           /\ ~Defect("mediator-presence")
    /\ Decided

\* Both say the same.
LEMMA PrecedenceIs == DecisionFollowsPrecedence <=> Decided
<1>1. /\ DOMAIN Precedence = 1..6 /\ Range(Precedence) = Classes
      /\ Precedence[1] = "unknown-resource" /\ Precedence[2] = "invalid-mode"
      /\ Precedence[3] = "capability-cardinality" /\ Precedence[4] = "resource-mode"
      /\ Precedence[5] = "mediator-consistency" /\ Precedence[6] = "mediator-presence"
  BY DEF Precedence, Range, Classes
<1>2. DOMAIN Precedence = {1, 2, 3, 4, 5, 6}
  BY <1>1
<1>3. /\ 1..(1 - 1) = {} /\ 1..(2 - 1) = {1} /\ 1..(3 - 1) = {1, 2} /\ 1..(4 - 1) = {1, 2, 3}
      /\ 1..(5 - 1) = {1, 2, 3, 4} /\ 1..(6 - 1) = {1, 2, 3, 4, 5}
  OBVIOUS
<1> QED  BY <1>1, <1>2, <1>3 DEF DecisionFollowsPrecedence, Decided, Classes

\* The defects are read off the input.
LEMMA DefectsStay ==
    ASSUME input' = input
    PROVE  \A class \in Classes : Defect(class)' <=> Defect(class)
<1>1. Payloads' = Payloads /\ RawClaims' = RawClaims /\ \A c : RawClaim(c)' = RawClaim(c)
  BY Zenon DEF Payloads, RawClaims, RawClaim
<1>2. \A n : (Known(n)' <=> Known(n)) /\ Rule(n)' = Rule(n)
  BY Zenon DEF Known, Rule
<1>3. \A n : Canonical(n)' = Canonical(n)
  BY <1>2, Zenon DEF Canonical
<1>4. \A c, d : SameResource(c, d)' <=> SameResource(c, d)
  BY <1>1, <1>3, Zenon DEF SameResource
<1>5. \A r : Providing(r)' = Providing(r)
  BY <1>1, Zenon DEF Providing
<1>6. Defect("unknown-resource")' <=> Defect("unknown-resource")
  BY <1>1, <1>2 DEF Defect
<1>7. Defect("invalid-mode")' <=> Defect("invalid-mode")
  BY <1>1, <1>2 DEF Defect
<1>8. Defect("capability-cardinality")' <=> Defect("capability-cardinality")
  BY <1>1, <1>5, Zenon DEF Defect
<1>9. Defect("resource-mode")' <=> Defect("resource-mode")
  BY <1>1, <1>4 DEF Defect
<1>10. Defect("mediator-consistency")' <=> Defect("mediator-consistency")
  BY <1>1, <1>4 DEF Defect
<1>11. Defect("mediator-presence")' <=> Defect("mediator-presence")
  BY <1>1, <1>4, Zenon DEF Defect
<1> QED  BY <1>6, <1>7, <1>8, <1>9, <1>10, <1>11 DEF Classes

\* A step that decides nothing about the classes of defects.
LEMMA FrameDecision ==
    ASSUME DecisionInv, input' = input, error' \notin Classes,
           \/ pc' = "refused"
           \/ /\ pc' # "planned" /\ (pc' = "bind" => pc = "bind")
              /\ (pc' \in Normal => pc \in Normal) /\ (pc' \in Bound => pc \in Bound)
    PROVE  DecisionInv'
<1>1. /\ Defect("unknown-resource")' <=> Defect("unknown-resource")
      /\ Defect("invalid-mode")' <=> Defect("invalid-mode")
      /\ Defect("capability-cardinality")' <=> Defect("capability-cardinality")
      /\ Defect("resource-mode")' <=> Defect("resource-mode")
      /\ Defect("mediator-consistency")' <=> Defect("mediator-consistency")
      /\ Defect("mediator-presence")' <=> Defect("mediator-presence")
  BY DefectsStay DEF Classes
<1>2. (pc' # "planned" \/ pc' = "refused") => Decided'
  BY DEF Decided, Classes
<1>3. pc' = "refused" => pc' \notin Normal /\ pc' \notin Bound
  BY DEF Normal, Checked, Bound, Ordering
<1> QED  BY <1>1, <1>2, <1>3 DEF DecisionInv

\* Each step keeps what has been decided true of the input.
LEMMA DecisionStep ==
    ASSUME IInv, SourceInv, DecisionInv, [Next]_vars PROVE DecisionInv'
<1> USE DEF Refuse, Continue, work
<1>0. /\ input' = input
      /\ Defect("unknown-resource")' <=> Defect("unknown-resource")
      /\ Defect("invalid-mode")' <=> Defect("invalid-mode")
      /\ Defect("capability-cardinality")' <=> Defect("capability-cardinality")
      /\ Defect("resource-mode")' <=> Defect("resource-mode")
      /\ Defect("mediator-consistency")' <=> Defect("mediator-consistency")
      /\ Defect("mediator-presence")' <=> Defect("mediator-presence")
  <2>1. input' = input
    BY Zenon
    DEF Next, Parse, Check, Normalize, Authorize, Resolve, Order, OrderNext, OrderEnd,
        ResolveResources, Bind, vars
  <2> QED  BY <2>1, DefectsStay DEF Classes
<1>9. "none" \notin Classes /\ (pc # "refused" => error = "none")
  BY DEF Classes, IInv
<1>1. CASE Parse \/ Check
  <2>1. CheckError \in {"none", "INVALID_CONTRACT", "DUPLICATE_PLUGIN", "INCOMPATIBLE_HOST"}
    BY DEF CheckError
  <2>2. error' \notin Classes /\ pc' \in {"check", "normalize", "refused"}
    BY <1>1, <1>9, <2>1 DEF Parse, Check, Classes
  <2>3. pc' # "planned" /\ pc' # "bind" /\ pc' \notin Normal /\ pc' \notin Bound
    BY <2>2 DEF Normal, Checked, Bound, Ordering
  <2> QED  BY <1>0, <2>2, <2>3, FrameDecision
<1>2. CASE Normalize
  <2>1. NormalizeError \in {"none", "unknown-resource", "invalid-mode"} /\ pc = "normalize"
    BY <1>2 DEF Normalize, NormalizeError
  <2>2. CASE NormalizeError = "none"
    <3>1. pc' = "authorize" /\ error' = "none"
      BY <1>2, <2>1, <2>2, <1>9 DEF Normalize
    <3>2. ~Defect("unknown-resource") /\ ~Defect("invalid-mode")
      BY <2>1, <2>2, NormalizeFinds
    <3>3. Decided'
      BY <3>1 DEF Decided, Classes
    <3>4. pc' \notin Bound /\ pc' \notin {"bind", "planned"}
      BY <3>1 DEF Bound, Ordering
    <3> QED  BY <1>0, <3>2, <3>3, <3>4 DEF DecisionInv
  <2>3. CASE NormalizeError # "none"
    <3>1. pc' = "refused" /\ error' = NormalizeError
      BY <1>2, <2>3 DEF Normalize
    <3>2. Decided'
      <4>1. CASE NormalizeError = "unknown-resource"
        <5>1. Defect("unknown-resource")'
          BY <4>1, <2>1, <1>0, NormalizeFinds
        <5> QED  BY <3>1, <4>1, <5>1 DEF Decided
      <4>2. CASE NormalizeError = "invalid-mode"
        <5>1. Defect("invalid-mode")' /\ ~Defect("unknown-resource")'
          BY <4>2, <2>1, <1>0, NormalizeFinds
        <5> QED  BY <3>1, <4>2, <5>1 DEF Decided
      <4> QED  BY <2>1, <2>3, <4>1, <4>2
    <3> QED  BY <3>1, <3>2 DEF DecisionInv, Normal, Checked, Bound, Ordering
  <2> QED  BY <2>2, <2>3
<1>3. CASE Authorize
  <2>1. error' \notin Classes /\ pc = "authorize" /\ pc' \in {"resolve", "refused"}
    BY <1>3, <1>9 DEF Authorize, Classes
  <2>2. pc \in Normal /\ pc' \notin Bound
    BY <2>1 DEF Normal, Checked, Labels, Bound, Ordering
  <2> QED  BY <1>0, <2>1, <2>2, FrameDecision
<1>4. CASE Resolve
  <2>1. pc = "resolve" /\ pc \in Normal /\ ~Defect("unknown-resource") /\ ~Defect("invalid-mode")
    BY <1>4 DEF Resolve, Normal, Checked, Labels, DecisionInv
  <2>2. CASE \E q \in Requirements : Cardinality(Compatible(q[2])) # 1
    <3>1. pc' = "refused" /\ error' = "capability-cardinality"
      BY <1>4, <2>2, Zenon DEF Resolve
    <3>2. Defect("capability-cardinality")'
      BY <1>0, <2>1, <2>2, ResolveFinds
    <3>3. Decided'
      BY <1>0, <2>1, <3>1, <3>2 DEF Decided
    <3> QED  BY <3>1, <3>3 DEF DecisionInv, Normal, Checked, Bound, Ordering
  <2>3. CASE ~\E q \in Requirements : Cardinality(Compatible(q[2])) # 1
    <3>1. pc' = "order" /\ error' = error
      BY <1>4, <2>3, Zenon DEF Resolve
    <3>2. error' = "none"
      BY <3>1, <2>1, <1>9
    <3>3. ~Defect("capability-cardinality")'
      BY <1>0, <2>1, <2>3, ResolveFinds
    <3>4. Decided'
      BY <3>1, <3>2 DEF Decided, Classes
    <3> QED  BY <1>0, <2>1, <3>1, <3>3, <3>4 DEF DecisionInv
  <2> QED  BY <2>2, <2>3
<1>5. CASE Order \/ OrderNext \/ OrderEnd
  <2>1. /\ error' \notin Classes /\ pc \in {"order", "order.loop"}
        /\ pc' \in {"order.loop", "resources", "refused"}
    BY <1>5, <1>9, Zenon DEF Order, OrderNext, OrderEnd, Classes
  <2>2. pc \in Normal /\ pc \in Bound /\ pc' # "planned" /\ pc' # "bind"
    BY <2>1 DEF Normal, Checked, Labels, Bound, Ordering
  <2> QED  BY <1>0, <2>1, <2>2, FrameDecision
<1>6. CASE ResolveResources
  <2>1. /\ pc = "resources" /\ pc \in Normal /\ pc \in Bound
        /\ ~Defect("unknown-resource") /\ ~Defect("invalid-mode")
        /\ ~Defect("capability-cardinality")
    BY <1>6 DEF ResolveResources, Normal, Checked, Labels, Bound, Ordering, DecisionInv
  <2>2. OwnershipError \in {"none", "resource-mode", "mediator-consistency", "mediator-presence"}
    BY DEF OwnershipError
  <2>3. CASE OwnershipError = "none"
    <3>1. pc' = "bind" /\ error' = error
      BY <1>6, <2>3, Zenon DEF ResolveResources
    <3>2. error' = "none"
      BY <3>1, <2>1, <1>9
    <3>3. ~Defect("resource-mode") /\ ~Defect("mediator-consistency")
          /\ ~Defect("mediator-presence")
      BY <2>1, <2>3, OwnershipFinds
    <3>4. Decided'
      BY <3>1, <3>2 DEF Decided, Classes
    <3> QED  BY <1>0, <2>1, <3>1, <3>3, <3>4 DEF DecisionInv
  <2>4. CASE OwnershipError # "none"
    <3>1. pc' = "refused" /\ error' = OwnershipError
      BY <1>6, <2>4, Zenon DEF ResolveResources
    <3>2. /\ OwnershipError = "resource-mode" => Defect("resource-mode")
          /\ OwnershipError = "mediator-consistency" =>
                 Defect("mediator-consistency") /\ ~Defect("resource-mode")
          /\ OwnershipError = "mediator-presence" =>
                 /\ Defect("mediator-presence") /\ ~Defect("resource-mode")
                 /\ ~Defect("mediator-consistency")
      BY <2>1, OwnershipFinds
    <3>3. Decided'
      <4>1. CASE OwnershipError = "resource-mode"
        BY <1>0, <2>1, <3>1, <3>2, <4>1 DEF Decided
      <4>2. CASE OwnershipError = "mediator-consistency"
        BY <1>0, <2>1, <3>1, <3>2, <4>2 DEF Decided
      <4>3. CASE OwnershipError = "mediator-presence"
        BY <1>0, <2>1, <3>1, <3>2, <4>3 DEF Decided
      <4> QED  BY <2>2, <2>4, <4>1, <4>2, <4>3
    <3> QED  BY <3>1, <3>3 DEF DecisionInv, Normal, Checked, Bound, Ordering
  <2> QED  BY <2>3, <2>4
<1>7. CASE Bind
  <2>1. pc = "bind" /\ error' \notin Classes /\ pc' \in {"planned", "refused"}
    BY <1>7, <1>9 DEF Bind, Classes
  <2>2. pc \in Normal /\ pc \in Bound
    BY <2>1 DEF Normal, Checked, Labels, Bound, Ordering
  <2>3. CASE pc' = "refused"
    BY <1>0, <2>1, <2>3, FrameDecision
  <2>4. CASE pc' = "planned"
    <3>1. /\ ~Defect("unknown-resource") /\ ~Defect("invalid-mode")
          /\ ~Defect("capability-cardinality") /\ ~Defect("resource-mode")
          /\ ~Defect("mediator-consistency") /\ ~Defect("mediator-presence")
      BY <2>1, <2>2 DEF DecisionInv
    <3>2. Decided'
      BY <1>0, <2>1, <3>1 DEF Decided, Classes
    <3> QED  BY <1>0, <3>1, <3>2 DEF DecisionInv
  <2> QED  BY <2>1, <2>3, <2>4
<1>8. CASE UNCHANGED vars
  <2>1. pc' = pc /\ error' = error
    BY <1>8 DEF vars
  <2>2. Decided'
    <3>1. \A class \in Classes : Defect(class)' <=> Defect(class)
      BY <1>0, DefectsStay
    <3> QED  BY <2>1, <1>0, <3>1 DEF DecisionInv, Decided
  <2> QED  BY <1>0, <2>1, <2>2 DEF DecisionInv
<1> QED  BY <1>1, <1>2, <1>3, <1>4, <1>5, <1>6, <1>7, <1>8 DEF Next

\* decision_precedence: compile_contracts refuses a set for the first class of defect that
\* its payloads have, and plans only a set without any.
THEOREM DecisionsFollowPrecedence == Spec => []DecisionFollowsPrecedence
<1>1. Init => DecisionInv
  BY DEF Init, DecisionInv, Decided, Classes, Normal, Checked, Bound, Ordering
<1>2. IInv /\ SourceInv /\ DecisionInv /\ [Next]_vars => DecisionInv'
  BY DecisionStep
<1>3. DecisionInv => DecisionFollowsPrecedence
  BY PrecedenceIs DEF DecisionInv
<1> QED  BY <1>1, <1>2, <1>3, SourceInvariant, PTL DEF Spec
=============================================================================
