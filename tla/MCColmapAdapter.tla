-------------------------- MODULE MCColmapAdapter --------------------------
(* The documents: blank, the default inside the compiler's envelope, stages  *)
(* listed out of order, a bundle adjuster with and without its seed, and one *)
(* for each rule FromJson rejects by.                                        *)
EXTENDS ColmapAdapter

\* The readers of the two streams run the same code: one of them suffices to fill a
\* pipe while the other ends at once.
MCOutput == [stdout |-> 0, stderr |-> 2]

Empty == [s \in Range(ColmapStage) |-> {}]
Base == [form |-> "bare", keys |-> {}, section |-> Empty, typed |-> TRUE,
         refinesIntrinsics |-> FALSE, seed |-> FALSE, stages |-> <<>>]

Listed(stages) == [Base EXCEPT !.keys = {"enabled_stages"}, !.stages = stages]

Blank == [Base EXCEPT !.form = "blank"]

Others ==
    { [Base EXCEPT !.form = "invalid"],
      Listed(<<"mapper", "matcher">>),
      [Listed(<<"mapper", "bundle_adjuster">>) EXCEPT !.form = "envelope",
                                                      !.keys = @ \cup {"seed"}, !.seed = TRUE],
      Listed(<<"mapper", "mapper">>),
      Listed(<<"bundle_adjuster">>),
      [Base EXCEPT !.section = [@ EXCEPT !["mapper"] = {"fx"}], !.keys = {"mapper"}],
      [Base EXCEPT !.keys = {"calibration"}],
      [Base EXCEPT !.section = [@ EXCEPT !["matcher"] = {"detector"}], !.keys = {"matcher"}],
      [Base EXCEPT !.keys = {"threads"}, !.typed = FALSE],
      [Base EXCEPT !.keys = {"bundle_adjuster"}, !.refinesIntrinsics = TRUE] }

\* The two platforms share their control; the longest plan runs on one of them.
MCBuild == {<<"win32", Blank>>} \cup {<<"posix", d>> : d \in Others}
=============================================================================
