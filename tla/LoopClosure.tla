---------------------------- MODULE LoopClosure ----------------------------
(***************************************************************************)
(* Loop closures, from the feature sets of frames to an optimized pose     *)
(* graph, as operators: the tables of project.db they are kept in          *)
(* (core/storage/metadata_db.cpp), candidate generation, the calibrated    *)
(* verifier, the resolution of a metric edge, and the status of the        *)
(* optimizer.  A check that refuses for want of something is a set of      *)
(* items: the check passes when all of them are there.  SparseCorrection   *)
(* uses these operators in its actions.                                    *)
(***************************************************************************)
EXTENDS Integers, FiniteSets

CONSTANTS
    FrameTime,   \* [1..n -> Nat], timestamps of the frames of a trajectory, ascending
    MatchScore,  \* [source |-> [target |-> score]] of the matcher
    Window, MinSeparation, MinScore, TopK,  \* LoopClosureDetectionOptions; 0 is no limit
    VoteSamples  \* tallies of the cheirality vote, [1..4 -> 0..InlierTotal]

InlierTotal == 3

Frame == DOMAIN FrameTime

ASSUME FrameAssumption ==
    /\ FrameTime \in [Frame -> Nat] /\ \A f \in Frame : f \in Nat
    /\ MatchScore \in [Frame -> [Frame -> Nat]]
ASSUME DetectionOptions ==
    Window \in Nat /\ MinSeparation \in Nat /\ MinScore \in Nat /\ TopK \in Nat
ASSUME VoteAssumption == VoteSamples \subseteq [1..4 -> 0..InlierTotal]

\* The inputs that lack at most one of the items.
Inputs(items) == {items} \cup {items \ {x} : x \in items}

-----------------------------------------------------------------------------
(* The tables.  Each has a primary key and no other constraint: INSERT of a  *)
(* key that is there fails, INSERT OR REPLACE takes the place of the row.    *)

InsertRow(rows, r) == rows \cup {r}
ReplaceRow(rows, r) == {s \in rows : s.id # r.id} \cup {r}

AddLoopClosureCandidate(rows, r) == InsertRow(rows, r)
AddLoopClosure(rows, r) == InsertRow(rows, r)
AddPoseGraph(rows, r) == InsertRow(rows, r)
AddOptimizationResult(rows, r) == InsertRow(rows, r)

UpsertLoopClosure(rows, r) == ReplaceRow(rows, r)
UpsertPoseGraph(rows, r) == ReplaceRow(rows, r)
UpsertOptimizationResult(rows, r) == ReplaceRow(rows, r)

FindLoopClosureCandidatesByTrajectory(rows, t) == {r \in rows : r.trajectory = t}
FindLoopClosuresByTrajectory(rows, t) == {r \in rows : r.trajectory = t}
FindPoseGraphsByTrajectory(rows, t) == {r \in rows : r.trajectory = t}
FindOptimizationResultsByTrajectory(rows, t) == {r \in rows : r.trajectory = t}

FindAcceptedLoopClosuresByTrajectory(rows, t) ==
    {r \in rows : r.trajectory = t /\ r.verdict # "rejected"}

\* The rows ORDER BY created_at_ns DESC LIMIT 1 may return: equal clocks are open.
Latest(rows) == {r \in rows : \A s \in rows : s.clock <= r.clock}

QueryLatestPoseGraphByTrajectory(rows, t) == Latest(FindPoseGraphsByTrajectory(rows, t))
QueryLatestOptimizationResultByTrajectory(rows, t) ==
    Latest(FindOptimizationResultsByTrajectory(rows, t))

-----------------------------------------------------------------------------
(* Detection. *)

\* A feature payload that parses; one that does not throws.
PayloadItems == {"json", "keypoints", "descriptors"}

\* The frames LoadFeatureDescriptors resolves: those whose artifact is in the CAS
\* and is a feature set.  At most one is missing.
ResolvableFrames == Inputs(Frame)

\* Position of a frame among the resolved ones: the window counts these.
Rank(frames, f) == Cardinality({g \in frames : g < f})

\* The older frames a source is matched with, before the ranking.
MatchedTargets(frames, i) ==
    {j \in frames :
        /\ j < i
        /\ Window = 0 \/ Rank(frames, i) - Rank(frames, j) <= Window
        /\ FrameTime[i] - FrameTime[j] >= MinSeparation
        /\ MatchScore[i][j] >= MinScore}

\* The first TopK of them by score; the sort leaves equal scores in any order.
BestTargets(targets, i) ==
    {kept \in SUBSET targets :
        /\ Cardinality(kept) = IF TopK = 0 \/ Cardinality(targets) <= TopK
                               THEN Cardinality(targets) ELSE TopK
        /\ \A j \in kept, k \in targets \ kept : MatchScore[i][j] >= MatchScore[i][k]}

\* The candidate lists a detection over these frames may come to.
GenerateLoopClosureCandidates(frames) ==
    {{c \in frames \X frames : c[2] \in chosen[c[1]]} :
        chosen \in {c \in [frames -> SUBSET frames] :
                       \A i \in frames : c[i] \in BestTargets(MatchedTargets(frames, i), i)}}

\* What any detection may come to.
DetectableLists == UNION {GenerateLoopClosureCandidates(frames) : frames \in ResolvableFrames}

\* The order of a list: by source, then by falling score.
Precedes(c, d) == c[1] < d[1] \/ (c[1] = d[1] /\ MatchScore[c[1]][c[2]] >= MatchScore[d[1]][d[2]])

-----------------------------------------------------------------------------
(* The calibrated verifier. *)

\* One candidate pose of the four: more votes lead, as many votes make a tie.
Tally(best, votes, k) ==
    IF votes[k] > best.votes THEN [votes |-> votes[k], k |-> k, tie |-> FALSE]
    ELSE [best EXCEPT !.tie = @ \/ votes[k] = best.votes]

\* VoteCheirality: the candidate that wins, 0 when the geometry is ambiguous.
VoteCheirality(votes, total) ==
    LET none   == [votes |-> 0, k |-> 0, tie |-> FALSE]
        first  == Tally(none, votes, 1)
        second == Tally(first, votes, 2)
        third  == Tally(second, votes, 3)
        last   == Tally(third, votes, 4)
    IN  IF last.tie \/ 2 * last.votes <= total THEN 0 ELSE last.k

\* What makes the verifier throw.
VerifierItems == {"features", "counts", "frame ids", "indices", "camera models"}

\* What makes it reject: the gates before the estimation, the estimation itself,
\* the gates on its quality, and the conversion of the winner into a unit pose.
EntryGates   == {"separation", "correspondences", "cameras", "finite rays"}
ModelGates   == {"eight points", "eight inliers", "refined"}
QualityGates == {"inliers", "ratio", "residual", "confidence"}
PoseGates    == {"finite essential", "translation", "rotation"}
VerifierGates == EntryGates \cup ModelGates \cup QualityGates \cup PoseGates

Accepts(gates, votes) == gates = VerifierGates /\ VoteCheirality(votes, InlierTotal) # 0

-----------------------------------------------------------------------------
(* From a unit pose to a metric edge. *)

\* ResolveMetricTranslationFromUnitDirection.
ScaleItems == {"distinct frames", "nodes", "direction", "baseline", "agreement", "scale"}

\* What VerifyLoopClosureGeometry records: an accepted closure is metric only when
\* the trajectory is eligible and the scale is resolved, else visual only.
MeasuredVerdict(gates, votes, eligible, scale) ==
    CASE ~Accepts(gates, votes)           -> "rejected"
      [] eligible /\ scale = ScaleItems
         /\ Accepts(gates, votes)         -> "metric"
      [] OTHER                            -> "visual"

MeasuredVerdicts ==
    {MeasuredVerdict(gates, votes, eligible, scale) :
        gates \in Inputs(VerifierGates), votes \in VoteSamples,
        eligible \in BOOLEAN, scale \in Inputs(ScaleItems)}

\* BuildMetricLoopClosureEdge asks for these beside a measured, accepted closure.
EdgeItems == {"basis", "distinct frames", "nodes", "baseline", "agreement", "information"}

\* LoopClosureToPoseGraph: there is an edge.
MetricEdge(verdict, given) == verdict = "metric" /\ given = EdgeItems

-----------------------------------------------------------------------------
(* The pose graph and its optimizer. *)

\* AssemblePoseGraph stamps the graph with the clock of the trajectory, which was
\* imported before any of its closures.
TrajectoryClock == 0

\* Whether there is anything to solve: nodes, edges and one factor.
GraphItems == {"nodes", "edges", "factors"}
\* What the solver may throw on.
SolverItems == {"initial error", "solution", "final error"}

\* Errors of the initial and the final values.
Error == {0, 1, 11}

\* The status optimize reports.
SolverStatus(graph, solver, initial, final) ==
    CASE graph # GraphItems \/ solver # SolverItems -> "failed"
      [] /\ graph = GraphItems /\ solver = SolverItems
         /\ final > 10 * initial /\ initial > 0     -> "diverged"
      [] OTHER                                      -> "converged"

SolverStatuses ==
    {SolverStatus(graph, solver, initial, final) :
        graph \in Inputs(GraphItems), solver \in Inputs(SolverItems),
        initial \in Error, final \in Error}
=============================================================================
