------------------------- MODULE MCContractCompiler -------------------------
(***************************************************************************)
(* Families of inputs for the contract compiler: dependency graphs,        *)
(* versions and providers, claims under a taxonomy, obligations and        *)
(* grants, and sets with several defects at once.                          *)
(***************************************************************************)
EXTENDS ContractCompiler

NoGrants == [provider |-> <<>>, runtime |-> <<>>, external |-> <<>>]

Payload(i, provides, requires, resources) ==
    [id |-> i, host |-> "compatible", provides |-> provides, requires |-> requires,
     resources |-> resources, obligations |-> <<>>, grants |-> NoGrants]

Cap(name, version) == [name |-> name, version |-> version]

Req(name, range) == [name |-> name, range |-> range]

Static(payloads, taxonomy) ==
    [payloads |-> payloads, taxonomy |-> taxonomy, manifests |-> FALSE]

\* The names of S that satisfy nothing more, as a sequence.
Listed(n, S) == SelectSeq([k \in 1..n |-> k], LAMBDA k : k \in S)

Needs(n, S) ==
    LET listed == Listed(n, S) IN [k \in DOMAIN listed |-> Req(listed[k], {1})]

\* Extension i provides capability i and needs any of the others: every graph on three
\* nodes with loops and on four without, in two orders of the input.
Graph(n, needs, place(_)) ==
    Static([i \in 1..n |-> Payload(place(i), <<Cap(place(i), 1)>>,
                                   Needs(n, needs[place(i)]), <<>>)], NoTaxonomy)

Graphs ==
    {Graph(3, g, LAMBDA i : i) : g \in [1..3 -> SUBSET (1..3)]}
    \cup {Graph(4, g, LAMBDA i : 5 - i) :
             g \in {h \in [1..4 -> SUBSET (1..4)] : \A i \in 1..4 : i \notin h[i]}}

\* Two extensions that provide and require up to two capabilities.
Offers == {<<>>, <<Cap(1, 1)>>, <<Cap(1, 2)>>, <<Cap(2, 1)>>, <<Cap(1, 1), Cap(2, 1)>>}

Wishes == {<<>>, <<Req(1, {1})>>, <<Req(1, {2})>>, <<Req(1, {1, 2})>>, <<Req(2, {2})>>,
           <<Req(2, {1}), Req(1, {2})>>,
           <<Req(1, {1}), Req(2, {1})>>}

Versions ==
    {Static(<<Payload(2, o[2], w[2], <<>>), Payload(1, o[1], w[1], <<>>)>>, NoTaxonomy) :
        o \in [1..2 -> Offers], w \in [1..2 -> Wishes]}

\* Claims on resource 1, its alias 2 and a resource 3 that the taxonomy may not know.
Res(name, mode, mediator) == [name |-> name, mode |-> mode, mediator |-> mediator]

Uses == {<<"exclusive", NoMediator>>, <<"shared-read", NoMediator>>, <<"mediated", 1>>,
         <<"mediated", 2>>}

OneClaim == {<<>>} \cup {<<Res(n, u[1], u[2])>> : n \in 1..3, u \in Uses}

TwoClaims == {<<Res(1, u[1], u[2]), Res(2, v[1], v[2])>> : u, v \in Uses}

Term(canonical, aliases, modes) ==
    [canonical |-> canonical, aliases |-> aliases, modes |-> modes]

AllModes == {"exclusive", "shared-read", "mediated"}

Taxonomies == {NoTaxonomy, <<Term(1, {2}, AllModes)>>,
               <<Term(1, {2}, {"shared-read", "mediated"}), Term(3, {}, AllModes)>>}

Owning(claims, taxonomy) ==
    Static([i \in DOMAIN claims |-> Payload(i, <<>>, <<>>, claims[i])], taxonomy)

Ownerships ==
    {Owning(c, t) : c \in [1..2 -> OneClaim \cup TwoClaims], t \in Taxonomies}
    \cup {Owning(c, t) : c \in [1..3 -> {<<Res(n, u[1], u[2])>> : n \in {1, 2}, u \in Uses}],
                         t \in {NoTaxonomy, <<Term(1, {2}, AllModes)>>}}

\* Extension 1 provides capability 1 and requires capability 2 of extension 2.
Item(event, direction, capability) ==
    [event |-> event, direction |-> direction, capability |-> capability]

Items == {Item(e, d, c) : e \in {"loaded", "health-observed"},
                          d \in {"provides", "requires"}, c \in 1..2}

Duty(item, kind, completion, quorum) ==
    [event |-> item.event, direction |-> item.direction, capability |-> item.capability,
     authority |-> kind, completion |-> completion, quorum |-> quorum]

Duties == {Duty(i, k, "all", 0) : i \in Items, k \in {"runtime", "provider"}}

Lists ==
    {<<d>> : d \in Duties} \cup {<<>>}
    \cup {<<Duty(Item("loaded", "requires", 2), "runtime", "quorum", q), d>> :
             q \in 0..1, d \in Duties}

Grants ==
    {[NoGrants EXCEPT !.runtime = r, !.provider = p] :
        r \in {<<>>, <<Item("loaded", "requires", 2)>>,
               <<Item("loaded", "requires", 2), Item("loaded", "provides", 1)>>,
               <<Item("loaded", "provides", 1), Item("loaded", "provides", 1)>>},
        p \in {<<>>} \cup {<<i>> : i \in Items}}

Provider ==
    [Payload(2, <<Cap(2, 1)>>, <<>>, <<>>) EXCEPT
        !.obligations = <<Duty(Item("health-observed", "provides", 2), "provider", "all", 0)>>,
        !.grants.provider = <<Item("health-observed", "provides", 2)>>]

Consumer(duties, grants) ==
    [Payload(1, <<Cap(1, 1)>>, <<Req(2, {1})>>, <<>>) EXCEPT
        !.obligations = duties, !.grants = grants]

Manifests(payloads, taxonomy) ==
    [payloads |-> payloads, taxonomy |-> taxonomy, manifests |-> TRUE]

Duteous == {Manifests(<<Consumer(l, g), Provider>>, NoTaxonomy) : l \in Lists, g \in Grants}

\* Several defects in one set.
Defects == {"host", "duplicate", "unknown", "mode", "grant", "missing", "cycle", "owners",
            "mediator", "presence", "parse", "taxonomy"}

\* One decides, a second must not change it, a third may hide another.
MaxDefects == 3

Defective(D) ==
    LET has(d, x, y) == IF d \in D THEN x ELSE y
        loaded == Item("loaded", "requires", 2)
        first ==
            [Consumer(<<Duty(loaded, "runtime", "all", 0)>>, [NoGrants EXCEPT
                         !.runtime = has("grant", <<>>, <<loaded>>)]) EXCEPT
                !.host = has("host", "other", "compatible"),
                !.requires = has("missing", <<Req(2, {1}), Req(3, {1})>>, @),
                !.resources = <<Res(has("unknown", 3, 1), has("owners", "exclusive", "mediated"),
                                    has("owners", NoMediator, 1))>>]
        second ==
            [Provider EXCEPT
                !.id = has("duplicate", 1, 2),
                !.requires = has("cycle", <<Req(1, {1})>>, <<>>),
                !.resources = <<Res(2, "mediated",
                                    has("presence", 3, has("mediator", 2,
                                        has("parse", NoMediator, 1))))>>]
    IN Manifests(<<first, second>>,
                 <<Term(1, has("taxonomy", {1, 2}, {2}),
                        has("mode", {"shared-read"}, AllModes))>>)

MCInputs ==
    Graphs \cup Versions \cup Ownerships \cup Duteous
    \cup {Defective(D) : D \in {X \in SUBSET Defects : Cardinality(X) <= MaxDefects}}
    \cup {Static(<<>>, NoTaxonomy)}
=============================================================================
