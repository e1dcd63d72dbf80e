------------------------- MODULE MCSparseCorrection -------------------------
(***************************************************************************)
(* Two documents, one of them without points; three frames a second apart, *)
(* of which the last matches both others equally well, and one candidate   *)
(* for each source; votes for a clear winner, for two and for a winner     *)
(* without a majority.                                                     *)
(***************************************************************************)
EXTENDS SparseCorrection, TLC

MCHasPoints == ("d1" :> TRUE) @@ ("d2" :> FALSE)

MCFrameTime == <<1, 2, 3>>
MCMatchScore == <<<<0, 0, 0>>, <<1, 0, 0>>, <<2, 2, 0>>>>
MCVoteSamples == {<<0, 2, 1, 0>>, <<2, 0, 2, 0>>, <<1, 0, 0, 0>>}
=============================================================================
