-------------------------- MODULE SparseCorrection --------------------------
(***************************************************************************)
(* engine/pipeline/sparse_correction_runner.cpp: the two in-process tasks  *)
(* that turn images into a reconstruction document (sparse_reconstruction) *)
(* and a document into a chain of revisions of the scene of a project      *)
(* (sparse_correction):                                                    *)
(*                                                                         *)
(*   v1  the worker's document, committed                                  *)
(*   v2  poses corrected by an optimized loop closure      (may be absent) *)
(*   v3  points triangulated again under the poses of v2   (may be absent) *)
(*   v4  bundle adjustment of v3, or of v1 when there is no v3             *)
(*                                                                         *)
(* and, beside them, the two calls on the loop closures of a trajectory:   *)
(* DetectLoopClosureCandidates (loop_closure_detection.cpp) and            *)
(* LoopClosureOptimizePipeline (loop_closure_optimize_pipeline.cpp).       *)
(*                                                                         *)
(* Every row and every CAS payload is a step; between two of them the      *)
(* process may end, the call may throw, and Cancel may be called.  Clocks  *)
(* are wall clock readings, at least two apart: the +100 ns that orders    *)
(* the revisions of one chain is 1 here.                                   *)
(***************************************************************************)
EXTENDS LoopClosure

CONSTANTS
    Doc,        \* documents, by reconstruction_id
    HasPoints,  \* [Doc -> BOOLEAN], points3D is not empty
    OldDocs,    \* those an earlier session left in the CAS
    Backend,    \* the ReconstructionOptimizer that was injected, "gtsam" or "colmap"
    MaxRuns,    \* bound on executions of the two tasks and of the two calls
    DetectionRuns, \* bound: the executions that may be detections
    MaxCrashes  \* bound on ends of the process

ASSUME DocAssumption == Doc # {} /\ HasPoints \in [Doc -> BOOLEAN] /\ OldDocs \subseteq Doc
ASSUME BackendAssumption == Backend \in {"gtsam", "colmap"}
ASSUME CorrectionBounds == MaxRuns \in Nat /\ MaxCrashes \in Nat

VARIABLES
    revs,      \* the reconstructions table of the scene
    candidates, \* the loop_closure_candidates table
    closures,  \* the loop_closures table
    graphs,    \* the pose_graphs table
    results,   \* the optimization_results table
    payloads,  \* the CAS: <<artifact type, run>>, or the id of a row of the pipeline
    docs,      \* [Doc -> Nat], created_at_ns of a document in the CAS; 0 when absent
    pc, run, doc, cancel,
    verdict,   \* what loop-closure verification found in this run
    closure,   \* the closure this run works on, by the run that recorded it
    stamp,     \* created_at_ns of that closure
    found,     \* candidates a detection has still to record
    heard,     \* an event of the worker has come that ends nothing
    ended,     \* [1..MaxRuns -> how the run ended]
    crashes

evidence == <<candidates, closures, graphs, results>>
tablesC  == <<revs, evidence>>
localC   == <<doc, verdict, closure, stamp, found, heard>>
corrVars == <<tablesC, payloads, docs, pc, run, localC, cancel, ended, crashes>>

Runs    == 1..MaxRuns
Kind    == {"v1", "v2", "v3", "v4"}
Status  == {"succeeded", "superseded"}
Verdict == {"none", "rejected", "visual", "metric"}
Outcome == {"none", "produced", "cancelled", "threw", "gate", "crashed", "returned"}
Producer == {"runner", "pipeline"}
SolverOutcome == {"converged", "diverged", "failed"}

\* Where the two calls are; they are no tasks and cannot be cancelled.
CallSteps == {"record", "upsert", "graphDoc", "graphRow", "solve", "resultRow"}

-----------------------------------------------------------------------------
(* What a segment asks of its inputs before it writes; each of these throws when *)
(* it is missing.                                                              *)

ConfigItems      == {"project_id", "random_seed", "optimizer", "input", "document", "status"}
TrajectoryItems  == {"nodes", "basis"}
ClosureItems     == {"candidate", "frames"}
SegmentItems     == {"both halves", "seams", "cameras"}
FeatureItems     == {"artifacts"} \cup PayloadItems
OptimizerItems   == {"seam", "converged", "size", "result_id", "finite", "trace"}
ApplyItems       == {"nodes", "same frame", "known frames", "finite", "valid", "updated"}
ObservationItems == {"known image", "one feature set", "artifact", "index in range"}
GeometryItems    == {"accepted points"}
GtsamItems       == {"seed", "projections", "exact camera model", "camera of image", "solution"}
ColmapItems      == {"seed", "frame_id", "keypoints", "completed", "exit code", "model files"}
BackendItems     == IF Backend = "gtsam" THEN GtsamItems ELSE ColmapItems

VerifyItems ==
    TrajectoryItems \cup ClosureItems \cup SegmentItems \cup FeatureItems \cup VerifierItems

-----------------------------------------------------------------------------
(* The tables. *)

ReconstructionRow ==
    [doc : Doc, run : 0..MaxRuns, kind : Kind, status : Status, clock : Nat]

\* A candidate and a closure carry fresh ids.  So do the graph and the result of
\* the runner, one of each for a closure; those of the pipeline are named after it.
CandidateRow == [id : Runs \X (Frame \X Frame), trajectory : Doc]
ClosureRow ==
    [id : Runs, trajectory : Doc, verdict : Verdict \ {"none"}, separated : BOOLEAN, clock : Nat]
GraphId   == Producer \X Runs
GraphRow  == [id : GraphId, trajectory : Doc, clock : Nat]
ResultRow == [id : GraphId, trajectory : Doc, status : SolverOutcome, clock : Nat]

Artifact == {"candidates", "loop_closure", "pose_graph", "optimization_result", "v2", "v3", "v4"}
PipelineArtifact == {"pipeline_graph", "pipeline_result"}

CorrectionTypeOK ==
    /\ revs \subseteq ReconstructionRow
    /\ candidates \subseteq CandidateRow /\ closures \subseteq ClosureRow
    /\ graphs \subseteq GraphRow /\ results \subseteq ResultRow
    /\ payloads \subseteq (Artifact \cup PipelineArtifact) \X Runs
    /\ docs \in [Doc -> Nat]
    /\ pc \in {"idle", "worker", "reported", "verify", "closurePut", "scene", "graph",
               "graphPut", "optimize", "resultPut", "apply", "applyPut", "triangulate",
               "pointsPut", "compact", "adjust", "emit"} \cup CallSteps
    /\ run \in 0..MaxRuns /\ doc \in Doc /\ verdict \in Verdict /\ stamp \in Nat
    /\ closure \in 0..MaxRuns /\ found \subseteq Frame \X Frame
    /\ cancel \in BOOLEAN /\ heard \in BOOLEAN
    /\ ended \in [Runs -> Outcome] /\ crashes \in 0..MaxCrashes

\* The identity of a row: v1 carries the id of the document, the others a fresh one.
Key(k) == IF k = "v1" THEN <<doc, 0, k>> ELSE <<doc, run, k>>
KeyOf(r) == <<r.doc, r.run, r.kind>>
HasRow(k) == \E r \in revs : KeyOf(r) = Key(k)
RowOf(k) == CHOOSE r \in revs : KeyOf(r) = Key(k)

\* The wall clock: every reading is later than every clock written before.
Now == 2 * (run + 1) + 4 * run

NewRow(k, t) ==
    [doc |-> doc, run |-> Key(k)[2], kind |-> k, status |-> "succeeded", clock |-> t]

\* AddReconstruction is a plain INSERT: a second row of the same id throws.
Insert(rows, r) == rows \cup {r}
CanInsert(k) == ~HasRow(k)

\* SetReconstructionStatus(id, "superseded").
Supersede(rows, k) ==
    {IF KeyOf(r) = Key(k) THEN [r EXCEPT !.status = "superseded"] ELSE r : r \in rows}
CanSupersede(k) == HasRow(k) /\ RowOf(k).status = "succeeded"

\* The rows of the scene with the greatest created_at_ns.
Newest == {r \in revs : \A s \in revs : s.clock <= r.clock}

-----------------------------------------------------------------------------
(* How a task ends, and how it goes on. *)

\* What a run knows ends with it.
NoDoc == CHOOSE d \in Doc : TRUE
Forget ==
    /\ doc' = NoDoc /\ verdict' = "none" /\ closure' = 0 /\ stamp' = 0 /\ found' = {}
    /\ heard' = FALSE

End(how) == pc' = "idle" /\ ended' = [ended EXCEPT ![run] = how] /\ cancel' = FALSE /\ Forget

\* The check of cancelled() between two segments.
Continue(next) ==
    \/ ~cancel /\ pc' = next /\ UNCHANGED <<ended, cancel, localC>>
    \/ cancel /\ End("cancelled")

\* On to the next call of the same segment.
Step(next) == pc' = next /\ UNCHANGED <<ended, cancel, localC>>

Begin(d, next) ==
    /\ pc = "idle" /\ run < MaxRuns
    /\ run' = run + 1 /\ pc' = next /\ doc' = d
    /\ UNCHANGED <<tablesC, payloads, verdict, closure, stamp, found, heard, ended, crashes, cancel>>

\* A run that is over at once.
Over(how) ==
    /\ pc = "idle" /\ run < MaxRuns
    /\ run' = run + 1 /\ ended' = [ended EXCEPT ![run + 1] = how]
    /\ UNCHANGED <<tablesC, payloads, docs, pc, localC, crashes, cancel>>

-----------------------------------------------------------------------------
(* sparse_reconstruction. *)

\* Images mode: the nested ProcessExecutor starts the COLMAP worker.
SubmitWorker(d) == Begin(d, "worker") /\ docs[d] = 0 /\ UNCHANGED docs

Waiting == pc \in {"worker", "reported"}

\* An event that ends nothing: progress, a log line, a heartbeat.
WorkerReports ==
    /\ Waiting /\ ~heard /\ heard' = TRUE
    /\ UNCHANGED <<tablesC, payloads, docs, pc, run, doc, verdict, closure, stamp, found, cancel,
                   ended, crashes>>

\* The runner asks for the next event; its 15 seconds begin anew.
WaitAgain ==
    /\ Waiting /\ heard /\ heard' = FALSE
    /\ UNCHANGED <<tablesC, payloads, docs, pc, run, doc, verdict, closure, stamp, found, cancel,
                   ended, crashes>>

\* kArtifactProduced: the worker has put its document into the CAS.
WorkerProduced ==
    /\ pc = "worker"
    /\ docs' = [docs EXCEPT ![doc] = Now]
    /\ Step("reported")
    /\ UNCHANGED <<tablesC, payloads, run, crashes>>

\* kCompleted: cancelled() is asked only now; without an artifact the stage throws.
WorkerCompleted ==
    /\ \/ pc = "reported" /\ (IF cancel THEN End("cancelled") ELSE End("produced"))
       \/ pc = "worker" /\ End("threw")
    /\ UNCHANGED <<tablesC, payloads, docs, run, crashes>>

\* kCancelled reported by the worker itself.
WorkerCancelled ==
    /\ Waiting /\ End("cancelled")
    /\ UNCHANGED <<tablesC, payloads, docs, run, crashes>>

\* kFailed reported by the worker.
WorkerFailed ==
    /\ Waiting /\ End("threw")
    /\ UNCHANGED <<tablesC, payloads, docs, run, crashes>>

\* Faulty variant: a wait that brought no event is begun anew.
WaitWhenSilent ==
    /\ Waiting /\ heard' = FALSE
    /\ UNCHANGED <<tablesC, payloads, docs, pc, run, doc, verdict, closure, stamp, found, cancel,
                   ended, crashes>>

\* No event for 15 seconds.
WorkerSilent ==
    /\ Waiting /\ ~heard /\ End("threw")
    /\ UNCHANGED <<tablesC, payloads, docs, run, crashes>>

\* Reconstruction mode: the document is passed on.
PassThrough(d) == docs[d] # 0 /\ Over("produced")

-----------------------------------------------------------------------------
(* sparse_correction. *)

\* The checks before the first write: the document is there, and the newest
\* revision of the scene, of any status, is a succeeded one (N4/N6).  ORDER BY
\* created_at_ns leaves the last of equal clocks open.
Preflight(d) ==
    /\ docs[d] # 0
    /\ revs = {} \/ \E r \in Newest : r.status = "succeeded"

StartCorrection(d, given) ==
    /\ given = ConfigItems /\ Preflight(d)
    /\ Begin(d, "verify") /\ UNCHANGED docs

\* The configuration, the document or the history of the scene is refused.
RefuseCorrection(d, given) ==
    (given # ConfigItems \/ ~Preflight(d)) /\ Over("threw")

\* A segment does not get what it needs: the task fails where it is.
Refuse(where, given, needed) ==
    /\ pc = where /\ given # needed /\ End("threw")
    /\ UNCHANGED <<tablesC, payloads, docs, run, crashes>>

\* MaybeRunLoopClosureVerification without a segment in the configuration.
SkipVerification ==
    /\ pc = "verify" /\ Continue("scene")
    /\ UNCHANGED <<tablesC, payloads, docs, run, crashes>>

\* VerifyLoopClosureGeometry: the closure is recorded, accepted or not; a metric
\* relative pose needs an eligible basis and a resolved scale.
VerifyLoopClosure(v, given) ==
    /\ pc = "verify" /\ given = VerifyItems
    /\ verdict' = v /\ closure' = run /\ stamp' = Now
    /\ closures' = AddLoopClosure(closures,
                        [id |-> run, trajectory |-> doc, verdict |-> v,
                         separated |-> FALSE, clock |-> Now])
    /\ pc' = "closurePut"
    /\ UNCHANGED <<revs, candidates, graphs, results, payloads, docs, run, doc, found, heard,
                   ended, cancel, crashes>>

\* The CAS payload that goes with a row is put after the row.
PutPayload(from, type, next) ==
    /\ pc = from
    /\ payloads' = payloads \cup {<<type, run>>}
    /\ Continue(next)
    /\ UNCHANGED <<tablesC, docs, run, crashes>>

PutLoopClosure == PutPayload("closurePut", "loop_closure", "scene")

\* Faulty variant: the commit replaces the row of a document committed before.
CommitReplacing ==
    /\ pc = "scene"
    /\ revs' = Insert({r \in revs : KeyOf(r) # Key("v1")}, NewRow("v1", docs[doc]))
    /\ Continue("graph")
    /\ UNCHANGED <<evidence, payloads, docs, run, crashes>>

\* FindOrCreateScene and CommitWorkerReconstructionArtifact.
Commit ==
    /\ pc = "scene" /\ CanInsert("v1")
    /\ revs' = Insert(revs, NewRow("v1", docs[doc]))
    /\ Continue("graph")
    /\ UNCHANGED <<evidence, payloads, docs, run, crashes>>

\* The document was committed before: the INSERT violates the primary key.
CommitClashes ==
    /\ pc = "scene" /\ ~CanInsert("v1") /\ End("threw")
    /\ UNCHANGED <<tablesC, payloads, docs, run, crashes>>

\* MaybePersistLoopClosurePoseGraph: a graph "ready" with a metric edge only.
PersistPoseGraph(given) ==
    /\ pc = "graph" /\ MetricEdge(verdict, given)
    /\ graphs' = AddPoseGraph(graphs,
                      [id |-> <<"runner", closure>>, trajectory |-> doc, clock |-> stamp])
    /\ Step("graphPut")
    /\ UNCHANGED <<revs, candidates, closures, results, payloads, docs, run, crashes>>

\* Without a metric edge there is nothing to optimize, apply or triangulate.
NoPoseGraph(given) ==
    /\ pc = "graph" /\ ~MetricEdge(verdict, given) /\ Continue("adjust")
    /\ UNCHANGED <<tablesC, payloads, docs, run, crashes>>

PutPoseGraph == PutPayload("graphPut", "pose_graph", "optimize")

\* MaybeRunTrajectoryOptimization: a converged, complete and finite result.
RecordOptimization(given) ==
    /\ pc = "optimize" /\ given = OptimizerItems
    /\ results' = AddOptimizationResult(results,
                       [id |-> <<"runner", closure>>, trajectory |-> doc,
                        status |-> "converged", clock |-> stamp])
    /\ Step("resultPut")
    /\ UNCHANGED <<revs, candidates, closures, graphs, payloads, docs, run, crashes>>

PutOptimization == PutPayload("resultPut", "optimization_result", "apply")

\* ApplyOptimizedTrajectory: a fresh id, and the clock of the optimization result,
\* which is that of the closure.
AppliedRow == NewRow("v2", stamp)

\* Faulty variant: v2 supersedes v1 there and then.
ApplySuperseding(given) ==
    /\ pc = "apply" /\ given = ApplyItems /\ CanInsert("v2")
    /\ revs' = Supersede(Insert(revs, AppliedRow), "v1")
    /\ Step("applyPut")
    /\ UNCHANGED <<evidence, payloads, docs, run, crashes>>

\* MaybeApplyOptimizedTrajectory: v2 stands beside v1.
ApplyTrajectory(given) ==
    /\ pc = "apply" /\ given = ApplyItems /\ CanInsert("v2")
    /\ revs' = Insert(revs, AppliedRow)
    /\ Step("applyPut")
    /\ UNCHANGED <<evidence, payloads, docs, run, crashes>>

PutApplied == PutPayload("applyPut", "v2", "triangulate")

\* Faulty variant: v3 is added and v2 superseded in two transactions.
RetriangulateInTwo(given) ==
    /\ pc = "triangulate" /\ HasPoints[doc]
    /\ \/ CanSupersede("v2") /\ revs' = Supersede(revs, "v2") /\ Step("triangulate")
       \/ ~CanSupersede("v2") /\ revs' = Insert(revs, NewRow("v3", stamp + 1)) /\ Step("pointsPut")
    /\ UNCHANGED <<evidence, payloads, docs, run, crashes>>

\* MaybeRetriangulateAppliedRevision: v3 in, v2 superseded, in one transaction.
Retriangulate(given) ==
    /\ pc = "triangulate" /\ HasPoints[doc]
    /\ given = ObservationItems \cup GeometryItems
    /\ CanInsert("v3") /\ CanSupersede("v2")
    /\ revs' = Supersede(Insert(revs, NewRow("v3", stamp + 1)), "v2")
    /\ Step("pointsPut")
    /\ UNCHANGED <<evidence, payloads, docs, run, crashes>>

\* A document without points has no v3; bundle adjustment goes back to v1.
NothingToTriangulate ==
    /\ pc = "triangulate" /\ ~HasPoints[doc] /\ Continue("adjust")
    /\ UNCHANGED <<tablesC, payloads, docs, run, crashes>>

PutPoints == PutPayload("pointsPut", "v3", "compact")

\* Once v3 is there, v1 is superseded before the bundle adjustment.
CompactChain ==
    /\ pc = "compact" /\ CanSupersede("v1")
    /\ revs' = Supersede(revs, "v1")
    /\ Step("adjust")
    /\ UNCHANGED <<evidence, payloads, docs, run, crashes>>

-----------------------------------------------------------------------------
(* BundleAdjustmentOptimizePipeline. *)

SourceKind == IF HasRow("v3") THEN "v3" ELSE "v1"

\* created_at_ns of the document the optimizer returns.
BaClock(source) == IF Backend = "gtsam" THEN source.clock + 1 ELSE 0

\* The v4 document of the optimizer.
AdjustedRow == NewRow("v4", BaClock(RowOf(SourceKind)))

\* Residuals in tenths of a pixel; PassesReprojectionGate with the factor 0.9.
Residual == {0, 9, 10}
Passes(after, before) == 10 * after < 9 * before

\* EvaluateReprojection over no observations: both residuals are 0.  Only the
\* chain that reached v3 resolves observations.
Residuals == IF HasRow("v3") THEN Residual \X Residual ELSE {<<0, 0>>}

\* BuildBundleAdjustmentObservations resolves the observations of v3 once more, and
\* fails closed exactly like the triangulation.
ObservationsMissing(given) == HasRow("v3") /\ Refuse("adjust", given, ObservationItems)

\* The optimizer throws.
BackendFails(given) == Refuse("adjust", given, BackendItems)

\* v4 in and its source superseded, in one transaction.
Adjust ==
    /\ pc = "adjust"
    /\ CanInsert("v4") /\ CanSupersede(SourceKind)
    /\ \E rms \in Residuals : Passes(rms[2], rms[1])
    /\ revs' = Supersede(Insert(revs, AdjustedRow), SourceKind)
    /\ Continue("emit")
    /\ UNCHANGED <<evidence, payloads, docs, run, crashes>>

\* The gate refuses: nothing is written and the stage throws.
GateRejects ==
    /\ pc = "adjust"
    /\ \E rms \in Residuals : ~Passes(rms[2], rms[1])
    /\ End("gate")
    /\ UNCHANGED <<tablesC, payloads, docs, run, crashes>>

\* EmitProduced: v4 into the CAS, then the events.
Produce ==
    /\ pc = "emit"
    /\ payloads' = payloads \cup {<<"v4", run>>}
    /\ End("produced")
    /\ UNCHANGED <<tablesC, docs, run, crashes>>

-----------------------------------------------------------------------------
(* DetectLoopClosureCandidates. *)

\* The frames are resolved, in their order; one that cannot be is skipped.
StartDetection(d, frames) ==
    /\ pc = "idle" /\ run < MaxRuns /\ run + 1 \in DetectionRuns
    /\ run' = run + 1 /\ doc' = d
    /\ found' \in GenerateLoopClosureCandidates(frames)
    /\ pc' = "record"
    /\ UNCHANGED <<tablesC, payloads, docs, verdict, closure, stamp, heard, ended, crashes, cancel>>

\* A feature payload that does not parse: the call throws before it writes.
MalformedFeatures(given) == given # PayloadItems /\ Over("threw")

\* The candidates are recorded one by one, in the order of the list.
RecordCandidate ==
    /\ pc = "record"
    /\ \E c \in found :
          /\ \A other \in found : Precedes(c, other)
          /\ candidates' = AddLoopClosureCandidate(candidates,
                                [id |-> <<run, c>>, trajectory |-> doc])
          /\ found' = found \ {c}
    /\ UNCHANGED <<revs, closures, graphs, results, payloads, docs, pc, run, doc, verdict,
                   closure, stamp, heard, cancel, ended, crashes>>

\* The payload that lists them all comes last.
ListCandidates ==
    /\ pc = "record" /\ found = {}
    /\ payloads' = payloads \cup {<<"candidates", run>>}
    /\ End("returned")
    /\ UNCHANGED <<tablesC, docs, run, crashes>>

-----------------------------------------------------------------------------
(* LoopClosureOptimizePipeline, called for a closure recorded before.  What it *)
(* names after the closure it replaces when it is called again.                *)

\* Without a trajectory or a database there is nothing to do.
StartPipeline(c) ==
    /\ pc = "idle" /\ run < MaxRuns
    /\ run' = run + 1 /\ doc' = c.trajectory
    /\ verdict' = c.verdict /\ closure' = c.id /\ stamp' = c.clock /\ found' = {}
    /\ pc' = "upsert"
    /\ UNCHANGED <<tablesC, payloads, docs, heard, ended, crashes, cancel>>

\* The row of the closure again, with the separation of its two frames; then on
\* only with an optimizer and a metric edge.
UpsertClosure(given, optimizer) ==
    /\ pc = "upsert"
    /\ closures' = UpsertLoopClosure(closures,
                        [id |-> closure, trajectory |-> doc, verdict |-> verdict,
                         separated |-> TRUE, clock |-> stamp])
    /\ \/ optimizer /\ MetricEdge(verdict, given) /\ Step("graphDoc")
       \/ ~(optimizer /\ MetricEdge(verdict, given)) /\ End("returned")
    /\ UNCHANGED <<revs, candidates, graphs, results, payloads, docs, run, crashes>>

\* Here the payload is put before the row.
WriteCasArtifact(from, type, next) ==
    /\ pc = from
    /\ payloads' = payloads \cup {<<type, closure>>}
    /\ Step(next)
    /\ UNCHANGED <<tablesC, docs, run, crashes>>

PutPipelineGraph == WriteCasArtifact("graphDoc", "pipeline_graph", "graphRow")

\* The graph keeps the clock of its trajectory.
UpsertGraph ==
    /\ pc = "graphRow"
    /\ graphs' = UpsertPoseGraph(graphs,
                      [id |-> <<"pipeline", closure>>, trajectory |-> doc,
                       clock |-> TrajectoryClock])
    /\ Step("solve")
    /\ UNCHANGED <<revs, candidates, closures, results, payloads, docs, run, crashes>>

\* The optimizer reports a status and never throws; its payload says so.
Solve == WriteCasArtifact("solve", "pipeline_result", "resultRow")

\* The result is recorded whatever its status, with the clock of the closure.
UpsertResult(status) ==
    /\ pc = "resultRow"
    /\ results' = UpsertOptimizationResult(results,
                       [id |-> <<"pipeline", closure>>, trajectory |-> doc,
                        status |-> status, clock |-> stamp])
    /\ End("returned")
    /\ UNCHANGED <<revs, candidates, closures, graphs, payloads, docs, run, crashes>>

-----------------------------------------------------------------------------
(* What may happen at any step. *)

\* The database or the store throws: the task fails.
Throws ==
    /\ pc \notin {"idle", "worker", "reported"} /\ End("threw")
    /\ UNCHANGED <<tablesC, payloads, docs, run, crashes>>

Cancel ==
    /\ pc \notin {"idle"} \cup CallSteps /\ ~cancel /\ cancel' = TRUE
    /\ UNCHANGED <<tablesC, payloads, docs, pc, run, localC, ended, crashes>>

Crash ==
    /\ pc # "idle" /\ crashes < MaxCrashes
    /\ crashes' = crashes + 1 /\ End("crashed")
    /\ UNCHANGED <<tablesC, payloads, docs, run>>

CorrectionInit ==
    /\ revs = {} /\ candidates = {} /\ closures = {} /\ graphs = {} /\ results = {}
    /\ payloads = {} /\ closure = 0 /\ found = {}
    /\ docs = [d \in Doc |-> IF d \in OldDocs THEN 1 ELSE 0]
    /\ pc = "idle" /\ run = 0 /\ doc = NoDoc /\ verdict = "none" /\ stamp = 0
    /\ cancel = FALSE /\ heard = FALSE /\ ended = [n \in Runs |-> "none"] /\ crashes = 0

Reconstruct ==
    \/ WorkerReports \/ WaitAgain
    \/ WorkerProduced \/ WorkerCompleted \/ WorkerCancelled \/ WorkerFailed \/ WorkerSilent

Verify ==
    \E given \in Inputs(VerifyItems) :
        (\E v \in MeasuredVerdicts : VerifyLoopClosure(v, given)) \/ Refuse("verify", given, VerifyItems)

BuildGraph == \E given \in Inputs(EdgeItems) : PersistPoseGraph(given) \/ NoPoseGraph(given)

Optimize ==
    \E given \in Inputs(OptimizerItems) :
        RecordOptimization(given) \/ Refuse("optimize", given, OptimizerItems)

Apply ==
    \E given \in Inputs(ApplyItems) :
        ApplyTrajectory(given) \/ Refuse("apply", given, ApplyItems)

Triangulate ==
    \E given \in Inputs(ObservationItems \cup GeometryItems) :
        \/ Retriangulate(given)
        \/ HasPoints[doc] /\ Refuse("triangulate", given, ObservationItems \cup GeometryItems)

Correct ==
    \/ SkipVerification \/ Verify \/ PutLoopClosure
    \/ Commit \/ CommitClashes
    \/ BuildGraph \/ PutPoseGraph
    \/ Optimize \/ PutOptimization
    \/ Apply \/ PutApplied
    \/ Triangulate \/ NothingToTriangulate \/ PutPoints
    \/ CompactChain
    \/ (\E given \in Inputs(ObservationItems) : ObservationsMissing(given))
    \/ (\E given \in Inputs(BackendItems) : BackendFails(given))
    \/ Adjust \/ GateRejects \/ Produce

Detect == RecordCandidate \/ ListCandidates

OptimizeClosure ==
    \/ \E given \in Inputs(EdgeItems), optimizer \in BOOLEAN : UpsertClosure(given, optimizer)
    \/ PutPipelineGraph \/ UpsertGraph \/ Solve
    \/ \E status \in SolverStatuses : UpsertResult(status)

CorrectionNext ==
    \/ \E d \in Doc : SubmitWorker(d) \/ PassThrough(d)
    \/ \E d \in Doc, given \in Inputs(ConfigItems) :
          StartCorrection(d, given) \/ RefuseCorrection(d, given)
    \/ \E d \in Doc, frames \in ResolvableFrames : StartDetection(d, frames)
    \/ \E given \in Inputs(PayloadItems) : MalformedFeatures(given)
    \/ \E d \in Doc : \E c \in FindLoopClosuresByTrajectory(closures, d) : StartPipeline(c)
    \/ Reconstruct \/ Correct \/ Detect \/ OptimizeClosure
    \/ Throws \/ Cancel \/ Crash

\* The runner takes its own steps, and the seams it calls return.  Of the nested
\* worker nothing is assumed.
CorrectionSpec ==
    /\ CorrectionInit /\ [][CorrectionNext]_corrVars
    /\ WF_corrVars(WaitAgain) /\ WF_corrVars(WorkerSilent)
    /\ WF_corrVars(Correct \/ Detect \/ OptimizeClosure)

-----------------------------------------------------------------------------
(* Properties. *)

ChainOf(n) == {r \in revs : r.run = n}

\* "A scene whose NEWEST reconstruction (any status) is not succeeded may not be
\* superseded by a correction" (N4/N6): however a correction ends - produced,
\* refused by the gate, cancelled, by an exception or with the process - the
\* newest revision is a succeeded one, so that the scene can be corrected again.
SceneStaysCorrectable == \A r \in Newest : r.status = "succeeded"

\* "No half-persisted correction" (P12): of a chain that has reached v3, exactly
\* one revision is succeeded once v1 is compacted, whatever the run came to; and
\* before that the latest of them is.
ChainCompacts ==
    \A r \in revs : r.kind = "v3" =>
        LET chain == {s \in revs : s.doc = r.doc /\ s.run \in {0, r.run}}
            alive == {s \in chain : s.status = "succeeded"}
        IN  /\ Cardinality(alive \ {s \in chain : s.kind = "v1"}) = 1
            /\ (ended[r.run] \in {"produced", "gate"}) => Cardinality(alive) = 1

\* The evidence a revision rests on is complete: v2 has an optimization result, a
\* graph and a metric closure of the same run, and the payload of every artifact
\* that came before it is in the CAS; v3 has v2's payload, v4 of a corrected
\* chain v3's.
EvidenceComplete ==
    /\ \A g \in graphs :
          /\ \E c \in closures : c.id = g.id[2] /\ c.verdict = "metric"
          /\ g.id[1] = "runner" => <<"loop_closure", g.id[2]>> \in payloads
          /\ g.id[1] = "pipeline" => <<"pipeline_graph", g.id[2]>> \in payloads
    /\ \A r \in results :
          /\ \E g \in graphs : g.id = r.id
          /\ r.id[1] = "runner" => r.status = "converged" /\ <<"pose_graph", r.id[2]>> \in payloads
          /\ r.id[1] = "pipeline" => <<"pipeline_result", r.id[2]>> \in payloads
    /\ \A r \in revs :
          /\ r.kind = "v2" => /\ \E x \in results : x.id = <<"runner", r.run>>
                             /\ <<"optimization_result", r.run>> \in payloads
          /\ r.kind = "v3" => <<"v2", r.run>> \in payloads
          /\ r.kind = "v4" => \E s \in revs : s.run = r.run /\ s.kind = "v3" /\ <<"v3", r.run>> \in payloads

\* What is recorded about the closures of a trajectory stays one story when a
\* closure is processed again, after a crash or by the other of the two producers:
\* a row per id ("Upsert* overwrites the same canonical rows instead of creating
\* duplicates or contradictions"); the latest result is of the newest closure that
\* was optimized, also after an older one is processed again; only accepted
\* closures have graphs; and a detection whose payload is there has recorded a
\* whole candidate list; a frame is matched with earlier ones only.
ClosuresOneStory ==
    /\ \A rows \in {closures, graphs, results} : \A r, s \in rows : r.id = s.id => r = s
    /\ \A d \in Doc :
          LET latest == QueryLatestOptimizationResultByTrajectory(results, d)
              of     == {c \in FindAcceptedLoopClosuresByTrajectory(closures, d) :
                           \E r \in FindOptimizationResultsByTrajectory(results, d) : r.id[2] = c.id}
          IN  {c \in of : \E r \in latest : r.id[2] = c.id} = Latest(of)
    /\ \A d \in Doc : \A g \in FindPoseGraphsByTrajectory(graphs, d) :
          \E c \in FindAcceptedLoopClosuresByTrajectory(closures, d) : c.id = g.id[2]
    /\ \A n \in Runs : <<"candidates", n>> \in payloads =>
          {r.id[2] : r \in {c \in candidates : c.id[1] = n}} \in DetectableLists
    /\ \A d \in Doc : \A r \in FindLoopClosureCandidatesByTrajectory(candidates, d) :
          r.id[2][2] < r.id[2][1]

\* The history of a scene is append-only: a revision keeps its clock, is never
\* taken back, and a superseded one never comes back, not even when a document
\* is corrected a second time after a crash.
HistoryAppendOnly ==
    [][\A r \in revs : r \in revs' \/ (r.status = "succeeded"
                                       /\ [r EXCEPT !.status = "superseded"] \in revs')]_corrVars

\* A run that was cancelled, or that threw, hands no artifact to the pipeline
\* afterwards; and a v4 that was handed on is the revision the scene shows.
ProducedIsCurrent ==
    \A n \in Runs : <<"v4", n>> \in payloads =>
        /\ ended[n] = "produced"
        /\ \E r \in ChainOf(n) : r.kind = "v4" /\ r.status = "succeeded"
                                 /\ \A s \in ChainOf(n) : s.clock <= r.clock

\* "A here-and-now supersede inside Step 7 would corrupt those transitions
\* (double-supersede throw)": each of the three places that supersede a revision
\* finds it there and succeeded, so that none of the transactions throws.
TransitionsLegal ==
    /\ CorrectionTypeOK
    /\ pc = "triangulate" => CanSupersede("v2")
    /\ pc = "compact" => CanSupersede("v1")
    /\ pc = "adjust" => CanSupersede(SourceKind)

\* Every execution ends, cancelled or not, when the nested worker stays silent from
\* some time on: answers, dies without a word or hangs.  It need not end while the
\* worker sends events: each begins the 15 seconds anew, and a cancellation is not
\* passed on to it (sparse_correction_runner.cpp:1476-1514).
TaskEnds == <>[]~heard => (pc # "idle" ~> pc = "idle")

\* A correction is whole at every step and after every end of the process: each
\* supersede finds its revision, the chain compacts to one live revision, every
\* revision has its evidence, the closures of a trajectory are one story, and what
\* was handed on is what the scene shows.
CorrectionWhole ==
    /\ TransitionsLegal
    /\ ChainCompacts
    /\ EvidenceComplete
    /\ ClosuresOneStory
    /\ ProducedIsCurrent
=============================================================================
