------------------------- MODULE MCExtensionManager -------------------------
(***************************************************************************)
(* A small instance.  app requires dep; a later dep requires app, so the    *)
(* two can come to require each other; a later app is descriptor-only.      *)
(* dep and the first rival both own the StateAxis processes and a resource; *)
(* app and the later rival both are vLLM plugins.                           *)
(***************************************************************************)
EXTENDS ExtensionManager, TLC

CONSTANTS s1, s2

Plain ==
    [provider |-> "vllm", in_process |-> TRUE, whole_tree |-> TRUE, active |-> TRUE,
     native |-> FALSE, needs_service |-> FALSE, requires |-> {},
     range |-> [e \in Ext |-> Versions], claims |-> [r \in Resources |-> "none"],
     plugins |-> {}, entries |-> {"plugin"}]

Dep1 == [Plain EXCEPT !.provider = "stateaxis", !.needs_service = TRUE,
                      !.claims["kv"] = "exclusive", !.entries = {"carrier"}]
Dep2 == [Dep1 EXCEPT !.requires = {"app"}]
App1 == [Plain EXCEPT !.requires = {"dep"}, !.range["dep"] = {"v1"},
                      !.plugins = {"plugin"}]
App2 == [App1 EXCEPT !.range["dep"] = Versions, !.active = FALSE]
Rival1 == [Plain EXCEPT !.provider = "stateaxis", !.claims["kv"] = "shared"]
Rival2 == [Plain EXCEPT !.plugins = {"carrier"}, !.native = TRUE]

Releases(first, second) == [v \in Versions |-> IF v = "v1" THEN first ELSE second]

MCManifest == [e \in Ext |-> CASE e = "dep" -> Releases(Dep1, Dep2)
                               [] e = "app" -> Releases(App1, App2)
                               [] e = "rival" -> Releases(Rival1, Rival2)]

\* The tuned configuration names a host version that nothing supports.
MCCheck ==
    [e \in Ext |-> [v \in Versions |-> [c \in Confs |->
        [compatible |-> IF c = Default THEN "yes" ELSE "no",
         configured |-> TRUE, experiment |-> TRUE]]]]

MCShipped == {[e \in Ext |-> "v1"]}
MCLegacy == {{}, {"dep"}, {"app", "dep"}}
ShellSymmetry == Permutations(Shells)
=============================================================================
