---------------------------- MODULE MCScheduler ----------------------------
(***************************************************************************)
(* A chain of three tasks a, b, d; d is on a strict path.  b converts what *)
(* a made back into what a was given, so d is the computation of a again   *)
(* and comes from the cache, unless the artifact has gone.                 *)
(***************************************************************************)
EXTENDS Scheduler, TLC

MCTask == {"a", "b", "d"}
MCJobOf == [t \in MCTask |-> "j"]
MCDeps == ("a" :> {}) @@ ("b" :> {"a"}) @@ ("d" :> {"b"})
MCRank == ("a" :> 0) @@ ("b" :> 1) @@ ("d" :> 2)
MCKind == {"forth", "back"}
MCKindOf == ("a" :> "forth") @@ ("b" :> "back") @@ ("d" :> "forth")
MCRef == {"ext", "pa", "pb", "pd", "made", "other"}
MCPlaceholder == ("a" :> "pa") @@ ("b" :> "pb") @@ ("d" :> "pd")
MCDeclaredInputs == ("a" :> {"ext"}) @@ ("b" :> {"pa"}) @@ ("d" :> {"pb"})
MCResult ==
    [k \in MCKind |-> [I \in SUBSET MCRef |->
        CASE k = "forth" /\ I = {"ext"} -> <<"made">>
          [] k = "back" /\ I = {"made"} -> <<"ext">>
          [] OTHER                      -> <<"other">>]]

=============================================================================
