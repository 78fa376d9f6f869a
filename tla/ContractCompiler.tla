-------------------------- MODULE ContractCompiler --------------------------
(***************************************************************************)
(* The static compiler of extension contracts: parsed payloads are checked *)
(* against the host and the resource taxonomy, every requirement is bound  *)
(* to its provider, the contracts are ordered by their dependencies, the   *)
(* claims on resources and the process obligations are resolved.  The      *)
(* first check that fails refuses the whole set.                           *)
(*                                                                         *)
(* Extensions, capabilities and resources are numbers that compare as      *)
(* their names sort; a version range is the set of versions in it.  What   *)
(* the parser checks of single strings (identifiers, versions, schema      *)
(* names, enumerations) is left out, and so are roles and rollback lists,  *)
(* which are passed through.                                               *)
(***************************************************************************)
EXTENDS Naturals, Sequences, FiniteSets, Functions

CONSTANT Inputs   \* what may be compiled: payloads and a taxonomy or NoTaxonomy

NoMediator == 0

Names(seq) == [i \in DOMAIN seq |-> seq[i].name]

IsList(seq) == Len(seq) \in Nat /\ DOMAIN seq = 1..Len(seq)

\* What the parser's checks of single strings and fields leave, and what the planner's
\* evaluation, which writes its contracts down itself, keeps to without a parser.
ASSUME InputsAssumption ==
    \A i \in Inputs :
        /\ i.manifests \in BOOLEAN /\ IsList(i.payloads)
        /\ \A k \in DOMAIN i.payloads :
            LET p == i.payloads[k] IN
            /\ p.id \in Nat /\ IsList(p.resources)
            /\ \A r \in Range(p.resources) :
                   /\ r = [name |-> r.name, mode |-> r.mode, mediator |-> r.mediator]
                   /\ r.mode \in {"exclusive", "shared-read", "mediated"}
            /\ \A o \in Range(p.obligations) : o.direction \in {"provides", "requires"}
            /\ ~i.manifests =>
                /\ p.obligations = <<>>
                /\ IsInjective(Names(p.provides))
                /\ \A r \in Range(p.resources) : (r.mode = "mediated") = (r.mediator # NoMediator)

VARIABLES
    input,        \* the payloads and the taxonomy
    pc,           \* the next step of compile_contracts
    error,        \* "none" or the check that failed
    contracts,    \* the parsed and normalised contracts, by extension
    bindings,     \* the provider of each requirement
    dependencies, \* the extensions that an extension needs
    indegree,     \* how many of those are not ordered yet
    ready,        \* the heap of _order_contracts
    ordered,      \* the extensions ordered so far
    ownership, obligations

vars == <<input, pc, error, contracts, bindings, dependencies, indegree, ready,
          ordered, ownership, obligations>>

NoTaxonomy == <<>>

\* Faulty: the greatest name first.
Greatest(S) == CHOOSE x \in S : \A y \in S : x >= y

Least(S) == CHOOSE x \in S : \A y \in S : x <= y

-----------------------------------------------------------------------------
(* Parsing. *)

AuthorityKinds == {"provider", "runtime", "external"}

\* Faulty: in either direction.
DeclaredEither(payload, direction) ==
    Range(Names(payload.provides)) \cup Range(Names(payload.requires))

\* What a payload declares in one direction, "provides" or "requires".
Declared(payload, direction) == Range(Names(payload[direction]))

\* Only the runtime can say that something was loaded or invoked.
ClaimsRuntimeFact(item, kind) == item.event \in {"loaded", "invoked"} /\ kind # "runtime"

Key(item) == <<item.event, item.direction, item.capability>>

Keys(items) == [i \in DOMAIN items |-> Key(items[i])]

ObligationParses(payload, item) ==
    /\ ~ClaimsRuntimeFact(item, item.authority)
    /\ item.capability \in Declared(payload, item.direction)
    /\ item.completion = "quorum" => item.quorum >= 1

GrantsParse(payload, kind) ==
    /\ IsInjective(Keys(payload.grants[kind]))
    /\ \A g \in Range(payload.grants[kind]) :
           ~ClaimsRuntimeFact(g, kind) /\ g.capability \in Declared(payload, g.direction)

\* parse_contract accepts the payload; INVALID_CONTRACT and AUTHORITY_VIOLATION are not
\* told apart here.
Parses(payload) ==
    /\ IsInjective(Names(payload.provides)) /\ IsInjective(Names(payload.requires))
    /\ IsInjective(Names(payload.resources))
    /\ \A r \in Range(payload.resources) : (r.mode = "mediated") = (r.mediator # NoMediator)
    /\ payload.obligations # <<>> /\ IsInjective(Keys(payload.obligations))
    /\ \A o \in Range(payload.obligations) : ObligationParses(payload, o)
    /\ \A kind \in AuthorityKinds : GrantsParse(payload, kind)

Parsed(payload) ==
    [id |-> payload.id, host |-> payload.host,
     provides |-> Range(payload.provides), requires |-> Range(payload.requires),
     resources |-> payload.resources, obligations |-> Range(payload.obligations),
     grants |-> [k \in DOMAIN payload.grants |-> Range(payload.grants[k])]]

\* Canonical names and aliases are globally unique, and every resource has a mode.
TaxonomyParses(taxonomy) ==
    LET names(i) == {taxonomy[i].canonical} \cup taxonomy[i].aliases IN
    /\ \A i \in DOMAIN taxonomy :
           taxonomy[i].canonical \notin taxonomy[i].aliases /\ taxonomy[i].modes # {}
    /\ \A i, j \in DOMAIN taxonomy : i # j => names(i) \cap names(j) = {}

-----------------------------------------------------------------------------
Init ==
    /\ input \in Inputs
    /\ pc = "parse" /\ error = "none"
    /\ contracts = <<>> /\ bindings = {} /\ dependencies = <<>>
    /\ indegree = <<>> /\ ready = {} /\ ordered = <<>>
    /\ ownership = {} /\ obligations = {}

work == <<contracts, bindings, dependencies, indegree, ready, ordered, ownership,
          obligations>>

Refuse(code) == error' = code /\ pc' = "refused" /\ UNCHANGED <<input, work>>

Continue(label) == pc' = label /\ UNCHANGED <<input, error>>

Extensions == DOMAIN contracts

\* The planner's evaluation builds its contracts itself, without obligations, and
\* parses the taxonomy only.
Parse ==
    /\ pc = "parse"
    /\ IF /\ TaxonomyParses(input.taxonomy)
          /\ input.manifests => \A p \in Range(input.payloads) : Parses(p)
       THEN Continue("check") /\ UNCHANGED work
       ELSE Refuse("unparsable")

\* What is checked before the contracts are sorted by their names.
CheckError ==
    LET payloads == input.payloads IN
    IF payloads = <<>> THEN "INVALID_CONTRACT"
    ELSE IF ~IsInjective([i \in DOMAIN payloads |-> payloads[i].id]) THEN "DUPLICATE_PLUGIN"
    ELSE IF \E p \in Range(payloads) : p.host # "compatible" THEN "INCOMPATIBLE_HOST"
    ELSE "none"

Check ==
    /\ pc = "check"
    /\ IF CheckError # "none" THEN Refuse(CheckError)
       ELSE /\ contracts' = [e \in {p.id : p \in Range(input.payloads)} |->
                                Parsed(CHOOSE p \in Range(input.payloads) : p.id = e)]
            /\ Continue("normalize")
            /\ UNCHANGED <<bindings, dependencies, indegree, ready, ordered, ownership,
                           obligations>>

-----------------------------------------------------------------------------
(* Resources under the taxonomy. *)

Known(name) ==
    \E t \in Range(input.taxonomy) : name \in {t.canonical} \cup t.aliases

Rule(name) ==
    CHOOSE t \in Range(input.taxonomy) : name \in {t.canonical} \cup t.aliases

Canonical(name) == IF input.taxonomy = NoTaxonomy THEN name ELSE Rule(name).canonical

Renamed(claim) == [claim EXCEPT !.name = Canonical(claim.name)]

Normalized(contract) ==
    [contract EXCEPT !.resources = [i \in DOMAIN @ |-> Renamed(@[i])]]

\* Claims are counted, not collected: a contract may claim a name and its alias.
Claims == UNION {{e} \X DOMAIN contracts[e].resources : e \in Extensions}

Claim(c) == contracts[c[1]].resources[c[2]]

NormalizeError ==
    IF input.taxonomy = NoTaxonomy THEN "none"
    ELSE IF \E c \in Claims : ~Known(Claim(c).name) THEN "unknown-resource"
    ELSE IF \E c \in Claims : Claim(c).mode \notin Rule(Claim(c).name).modes THEN "invalid-mode"
    ELSE "none"

Normalize ==
    /\ pc = "normalize"
    /\ IF NormalizeError # "none" THEN Refuse(NormalizeError)
       ELSE /\ contracts' = [e \in Extensions |-> Normalized(contracts[e])]
            /\ Continue("authorize")
            /\ UNCHANGED <<bindings, dependencies, indegree, ready, ordered, ownership,
                           obligations>>

-----------------------------------------------------------------------------
(* Obligations need a grant of the same authority. *)

Granted(contract, item) ==
    \E g \in contract.grants[item.authority] : Key(g) = Key(item)

Authorize ==
    /\ pc = "authorize"
    /\ IF \E e \in Extensions : \E o \in contracts[e].obligations : ~Granted(contracts[e], o)
       THEN Refuse("AUTHORITY_VIOLATION")
       ELSE Continue("resolve") /\ UNCHANGED work

-----------------------------------------------------------------------------
(* Each requirement is bound to the one provider of a version in its range.   *)

\* Pairs of an extension and what it provides.
Compatible(r) ==
    UNION {{p} \X {c \in contracts[p].provides : c.name = r.name /\ c.version \in r.range} :
           p \in Extensions}

Requirements == UNION {{e} \X contracts[e].requires : e \in Extensions}

Binding(e, r) ==
    LET match == CHOOSE m \in Compatible(r) : TRUE IN
    [capability |-> r.name, consumer |-> e, provider |-> match[1],
     version |-> match[2].version]

Resolve ==
    /\ pc = "resolve"
    /\ IF \E q \in Requirements : Cardinality(Compatible(q[2])) # 1
       THEN Refuse("capability-cardinality")
       ELSE /\ bindings' = {Binding(q[1], q[2]) : q \in Requirements}
            /\ dependencies' = [e \in Extensions |->
                   {b.provider : b \in {x \in bindings' : x.consumer = e}} \ {e}]
            /\ Continue("order")
            /\ UNCHANGED <<contracts, indegree, ready, ordered, ownership, obligations>>

-----------------------------------------------------------------------------
(* The order of the contracts: the least ready extension is taken first.      *)

\* Faulty: counts the bindings instead of the providers.
OrderByBindings ==
    /\ pc = "order"
    /\ indegree' = [e \in Extensions |-> Cardinality({b \in bindings : b.consumer = e})]
    /\ ready' = {e \in Extensions : indegree'[e] = 0}
    /\ Continue("order.loop")
    /\ UNCHANGED <<contracts, bindings, dependencies, ordered, ownership, obligations>>

Order ==
    /\ pc = "order"
    /\ indegree' = [e \in Extensions |-> Cardinality(dependencies[e])]
    /\ ready' = {e \in Extensions : dependencies[e] = {}}
    /\ Continue("order.loop")
    /\ UNCHANGED <<contracts, bindings, dependencies, ordered, ownership, obligations>>

Dependents(p) == {e \in Extensions : p \in dependencies[e]}

OrderNext ==
    /\ pc = "order.loop" /\ ready # {}
    /\ LET next == Least(ready) IN
       /\ ordered' = Append(ordered, next)
       /\ indegree' = [e \in Extensions |->
                          IF e \in Dependents(next) THEN indegree[e] - 1 ELSE indegree[e]]
       /\ ready' = (ready \ {next}) \cup {e \in Dependents(next) : indegree[e] = 1}
    /\ UNCHANGED <<input, pc, error, contracts, bindings, dependencies, ownership,
                   obligations>>

OrderEnd ==
    /\ pc = "order.loop" /\ ready = {}
    /\ IF Len(ordered) # Cardinality(Extensions) THEN Refuse("DEPENDENCY_CYCLE")
       ELSE Continue("resources") /\ UNCHANGED work

-----------------------------------------------------------------------------
(* Ownership of resources. *)

Resources == {Claim(c).name : c \in Claims}

ClaimsOf(name) == {c \in Claims : Claim(c).name = name}

Owners(name) == {c[1] : c \in ClaimsOf(name)}

Modes(name) == {Claim(c).mode : c \in ClaimsOf(name)}

Mediators(name) == {Claim(c).mediator : c \in ClaimsOf(name)}

Mediator(name) == CHOOSE x \in Mediators(name) : TRUE

\* Faulty: one extension may claim a resource twice, once by an alias.
ModesDiffer(name) ==
    Cardinality(ClaimsOf(name)) > 1 /\ Modes(name) \notin {{"shared-read"}, {"mediated"}}

ModeConflict(name) ==
    \/ Cardinality(ClaimsOf(name)) # Cardinality(Owners(name))
    \/ Cardinality(ClaimsOf(name)) > 1 /\ Modes(name) \notin {{"shared-read"}, {"mediated"}}

Mediated(name) == Modes(name) = {"mediated"}

OwnershipError ==
    IF \E n \in Resources : ModeConflict(n) THEN "resource-mode"
    ELSE IF \E n \in Resources : Mediated(n) /\ Cardinality(Mediators(n)) # 1
         THEN "mediator-consistency"
    ELSE IF \E n \in Resources : Mediated(n) /\ Mediator(n) \notin Owners(n)
         THEN "mediator-presence"
    ELSE "none"

ResolveResources ==
    /\ pc = "resources"
    /\ IF OwnershipError # "none" THEN Refuse(OwnershipError)
       ELSE /\ ownership' = {[resource |-> n, mode |-> CHOOSE m \in Modes(n) : TRUE,
                              owners |-> Owners(n), mediator |-> Mediator(n)] : n \in Resources}
            /\ Continue("bind")
            /\ UNCHANGED <<contracts, bindings, dependencies, indegree, ready, ordered,
                           obligations>>

-----------------------------------------------------------------------------
(* Obligations of a required capability are bound to its provider.            *)

Bindings(e, o) == {b \in bindings : b.consumer = e /\ b.capability = o.capability}

\* _bind_obligations looks a required capability up without a default.
Bindable(e, o) == o.direction = "requires" => Bindings(e, o) # {}

BoundProvider(e, o) ==
    IF o.direction = "provides" THEN e
    ELSE (CHOOSE b \in Bindings(e, o) : TRUE).provider

Bind ==
    /\ pc = "bind"
    /\ IF \E e \in Extensions : \E o \in contracts[e].obligations : ~Bindable(e, o)
       THEN Refuse("KeyError")
       ELSE /\ obligations' = UNION {
                   {[extension |-> e, obligation |-> o, provider |-> BoundProvider(e, o)] :
                       o \in contracts[e].obligations} : e \in Extensions}
            /\ Continue("planned")
            /\ UNCHANGED <<contracts, bindings, dependencies, indegree, ready, ordered,
                           ownership>>

Next ==
    \/ Parse \/ Check \/ Normalize \/ Authorize \/ Resolve
    \/ Order \/ OrderNext \/ OrderEnd \/ ResolveResources \/ Bind

Spec == Init /\ [][Next]_vars

-----------------------------------------------------------------------------
(* Properties. *)

Labels == {"parse", "check", "normalize", "authorize", "resolve", "order", "order.loop",
           "resources", "bind", "planned", "refused"}

Ordering == {"order.loop", "resources", "bind", "planned"}

\* The compiler's variables have their types; the order and the heap hold extensions.
TypeOK ==
    /\ pc \in Labels /\ (error = "none") = (pc # "refused")
    /\ ready \subseteq Extensions /\ Range(ordered) \subseteq Extensions
    /\ pc \in Ordering =>
        /\ dependencies \in [Extensions -> SUBSET Extensions]
        /\ indegree \in [Extensions -> Nat]

\* An extension is ordered only after every extension it depends on.
ProvidersFirst ==
    \A i \in DOMAIN ordered :
        dependencies[ordered[i]] \subseteq {ordered[j] : j \in 1..(i - 1)}

\* A cycle is reported only if there is one: some extensions that all wait for others
\* among them.
CycleIsReal ==
    error = "DEPENDENCY_CYCLE" =>
        \E S \in SUBSET Extensions :
            S # {} /\ \A e \in S : dependencies[e] \cap S # {}

Topological(seq) ==
    /\ IsInjective(seq)
    /\ \A i, j \in DOMAIN seq : seq[j] \in dependencies[seq[i]] => j < i

LexicographicallyAtMost(s, t) ==
    s = t \/ \E k \in DOMAIN s : s[k] < t[k] /\ \A i \in 1..(k - 1) : s[i] = t[i]

\* "deterministic dependency order": the order is the least of all orders that respect
\* the dependencies, so it depends on the set of contracts alone.
OrderIsLeast ==
    pc \in {"resources", "bind", "planned"} =>
        \A seq \in [1..Cardinality(Extensions) -> Extensions] :
            Topological(seq) => LexicographicallyAtMost(ordered, seq)

\* What can be wrong with a set of contracts, read off the payloads as they came in.
Payloads == Range(input.payloads)

RawClaims == UNION {{i} \X DOMAIN input.payloads[i].resources : i \in DOMAIN input.payloads}

RawClaim(c) == input.payloads[c[1]].resources[c[2]]

SameResource(c, d) == Canonical(RawClaim(c).name) = Canonical(RawClaim(d).name)

Providing(r) ==
    {p \in Payloads : \E c \in Range(p.provides) : c.name = r.name /\ c.version \in r.range}

Precedence == <<"unknown-resource", "invalid-mode", "capability-cardinality",
                "resource-mode", "mediator-consistency", "mediator-presence">>

Defect(class) ==
    CASE class = "unknown-resource" ->
            input.taxonomy # NoTaxonomy /\ \E c \in RawClaims : ~Known(RawClaim(c).name)
      [] class = "invalid-mode" ->
            /\ input.taxonomy # NoTaxonomy
            /\ \E c \in RawClaims : RawClaim(c).mode \notin Rule(RawClaim(c).name).modes
      [] class = "capability-cardinality" ->
            \E p \in Payloads : \E r \in Range(p.requires) : Cardinality(Providing(r)) # 1
      [] class = "resource-mode" ->
            \E c, d \in RawClaims :
                /\ c # d /\ SameResource(c, d)
                /\ \/ c[1] = d[1] \/ RawClaim(c).mode # RawClaim(d).mode
                   \/ RawClaim(c).mode = "exclusive"
      [] class = "mediator-consistency" ->
            \E c, d \in RawClaims :
                SameResource(c, d) /\ RawClaim(c).mediator # RawClaim(d).mediator
      [] class = "mediator-presence" ->
            \E c \in RawClaims :
                /\ RawClaim(c).mode = "mediated"
                /\ \A d \in RawClaims : SameResource(c, d) =>
                       input.payloads[d[1]].id # RawClaim(c).mediator

\* The taxonomy's decision_precedence: a set is refused for the first class of defect it
\* has, aliases resolved, and a plan is made only of a set without any.
DecisionFollowsPrecedence ==
    /\ pc = "planned" => \A class \in Range(Precedence) : ~Defect(class)
    /\ \A k \in DOMAIN Precedence :
        error = Precedence[k] =>
            Defect(Precedence[k]) /\ \A i \in 1..(k - 1) : ~Defect(Precedence[i])

Before(p, e) ==
    \E i, j \in DOMAIN ordered : i < j /\ ordered[i] = p /\ ordered[j] = e

\* Every obligation of a parsed set can be bound, to an extension that provides the
\* capability and is ordered before the one obliged (or is the same); what was loaded or
\* invoked is always left to the runtime, with a grant.
ObligationsAreBacked ==
    /\ error # "KeyError"
    /\ pc = "planned" =>
        \A b \in obligations :
            /\ b.provider = b.extension \/ Before(b.provider, b.extension)
            /\ \E c \in contracts[b.provider].provides : c.name = b.obligation.capability
            /\ ~ClaimsRuntimeFact(b.obligation, b.obligation.authority)
            /\ Granted(contracts[b.extension], b.obligation)

=============================================================================
