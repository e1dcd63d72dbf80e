------------------------- MODULE MCProcessExecutor -------------------------
(***************************************************************************)
(* Two tasks of one and two artifacts.                                     *)
(***************************************************************************)
EXTENDS ProcessExecutor, TLC

MCTask == {"t", "u"}
MCOutput == ("t" :> <<"r">>) @@ ("u" :> <<"r", "s">>)
=============================================================================
