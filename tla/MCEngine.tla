------------------------------ MODULE MCEngine ------------------------------
(* A run of one stage and one of two stages on the same input, the first of *)
(* them the same computation, sharing the cache.                            *)
EXTENDS Engine, TLC

PipeTask == {"x1", "x2", "y2"}
PipeJobOf == ("x1" :> "j1") @@ ("x2" :> "j2") @@ ("y2" :> "j2")
PipeDeps == ("x1" :> {}) @@ ("x2" :> {}) @@ ("y2" :> {"x2"})
PipeRank == ("x1" :> 0) @@ ("x2" :> 0) @@ ("y2" :> 1)
PipeKindOf == ("x1" :> "x") @@ ("x2" :> "x") @@ ("y2" :> "y")
PipeRef == {"e", "px", "py", "x(e)", "y(x(e))", "other"}
PipePlaceholder == ("x1" :> "px") @@ ("x2" :> "px") @@ ("y2" :> "py")
PipeInputs == ("x1" :> {"e"}) @@ ("x2" :> {"e"}) @@ ("y2" :> {"px"})
PipeResult ==
    [k \in {"x", "y"} |-> [I \in SUBSET PipeRef |->
        CASE k = "x" /\ I = {"e"}    -> <<"x(e)">>
          [] k = "y" /\ I = {"x(e)"} -> <<"y(x(e))">>
          [] OTHER                   -> <<"other">>]]

=============================================================================
