------------------------ MODULE MCInProcessExecutor ------------------------
(***************************************************************************)
(* Two tasks: one that emits two artifacts and one that emits none.        *)
(***************************************************************************)
EXTENDS InProcessExecutor, TLC

MCTask == {"t", "u"}
MCOutput == ("t" :> <<"r", "s">>) @@ ("u" :> <<>>)
=============================================================================
