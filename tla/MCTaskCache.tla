---------------------------- MODULE MCTaskCache ----------------------------
(***************************************************************************)
(* Two contents, the second made from the first, each with a cache key.    *)
(***************************************************************************)
EXTENDS TaskCache, TLC

MCInputs == ("img" :> {}) @@ ("feat" :> {"img"})
MCOutputOf == ("k1" :> "img") @@ ("k2" :> "feat")
=============================================================================
