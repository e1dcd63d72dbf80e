----------------------- MODULE SparseCorrectionProofs -----------------------
(***************************************************************************)
(* Proofs about SparseCorrection for any documents, any number of runs and *)
(* any placement of throws, cancellations and ends of the process: the     *)
(* history of a scene is append-only, and, with an optimizer that stamps   *)
(* its document after its source, a scene stays correctable and a          *)
(* correction whole.                                                       *)
(***************************************************************************)
EXTENDS SparseCorrection, FiniteSetTheorems, TLAPS

-----------------------------------------------------------------------------
(* The inductive invariant. *)

CorrectionSteps ==
    {"verify", "closurePut", "scene", "graph", "graphPut", "optimize", "resultPut", "apply",
     "applyPut", "triangulate", "pointsPut", "compact", "adjust", "emit"}
MetricSteps ==
    {"graphPut", "optimize", "resultPut", "apply", "applyPut", "triangulate", "pointsPut",
     "compact"}
PipelineSteps == {"upsert", "graphDoc", "graphRow", "solve", "resultRow"}
RevisionSteps == {"applyPut", "triangulate", "pointsPut", "compact", "adjust", "emit"}
Unfinished == {"threw", "cancelled", "crashed"}

\* What a run knows of itself: its number, its verdict, and how far it has come.
Locals ==
    /\ pc # "idle" => run \in Runs
    /\ \A n \in Runs : (n > run \/ (n = run /\ pc # "idle")) => ended[n] = "none"
    /\ pc \in {"idle", "worker", "reported", "verify", "record"} => verdict = "none"
    /\ pc = "closurePut" => verdict # "none"
    /\ pc \in MetricSteps \cup (PipelineSteps \ {"upsert"}) => verdict = "metric"
    /\ (pc \in CorrectionSteps /\ verdict # "none") => closure = run /\ stamp = Now

\* The closure a run works on is in the table as the run knows it.
KnownClosure ==
    ((pc \in CorrectionSteps /\ verdict # "none") \/ pc \in PipelineSteps) =>
        \E c \in closures : /\ c.id = closure /\ c.trajectory = doc
                            /\ c.verdict = verdict /\ c.clock = stamp

\* Rows and payloads carry the numbers and the clocks of runs that have begun; what a
\* run is still to write is not there yet.
Numbered ==
    /\ \A c \in closures : c.id <= run
    /\ \A c \in candidates : c.id[1] <= run
    /\ \A p \in payloads : p[2] <= run
    /\ \A r \in revs : r.run <= run /\ (r.kind = "v1" => r.run = 0 /\ r.clock <= Now)
    /\ \A r \in revs : r.kind # "v1" => r.run # 0
    /\ \A d \in Doc : docs[d] <= Now
    /\ pc = "verify" => \A c \in closures : c.id # run
    /\ pc # "idle" => <<"candidates", run>> \notin payloads /\ <<"v4", run>> \notin payloads
    /\ pc \in {"verify", "closurePut", "scene", "graph"} =>
          \A g \in graphs : g.id # <<"runner", run>>
    /\ pc \in {"verify", "closurePut", "scene", "graph", "graphPut", "optimize"} =>
          \A r \in results : r.id # <<"runner", run>>

\* One row for an id, and a graph or a result belongs to the trajectory and the clock
\* of a metric closure.
ClosureKeys ==
    /\ \A c, d \in closures : c.id = d.id => c = d
    /\ \A g, h \in graphs : g.id = h.id => g = h
    /\ \A r, s \in results : r.id = s.id => r = s

GraphEvidence ==
    \A g \in graphs :
        /\ \E c \in closures : /\ c.id = g.id[2] /\ c.verdict = "metric"
                               /\ c.trajectory = g.trajectory
        /\ g.id[1] = "runner" => <<"loop_closure", g.id[2]>> \in payloads
        /\ g.id[1] = "pipeline" => <<"pipeline_graph", g.id[2]>> \in payloads

ResultEvidence ==
    \A r \in results :
        /\ \E g \in graphs : g.id = r.id
        /\ \E c \in closures : /\ c.id = r.id[2] /\ c.verdict = "metric"
                               /\ c.trajectory = r.trajectory /\ c.clock = r.clock
        /\ r.id[1] = "runner" => r.status = "converged" /\ <<"pose_graph", r.id[2]>> \in payloads
        /\ r.id[1] = "pipeline" => <<"pipeline_result", r.id[2]>> \in payloads

RevisionEvidence ==
    \A r \in revs :
        /\ r.kind = "v2" => /\ \E x \in results : x.id = <<"runner", r.run>>
                            /\ <<"optimization_result", r.run>> \in payloads
        /\ r.kind = "v3" => <<"v2", r.run>> \in payloads
        /\ r.kind = "v4" => <<"v3", r.run>> \in payloads

\* The evidence a run has gathered so far.
Gathered ==
    /\ (pc \in CorrectionSteps \ {"verify", "closurePut"} /\ verdict # "none") =>
          <<"loop_closure", run>> \in payloads
    /\ pc \in {"graphPut", "optimize"} => \E g \in graphs : g.id = <<"runner", run>>
    /\ pc \in {"optimize"} => <<"pose_graph", run>> \in payloads
    /\ pc \in {"resultPut", "apply"} => \E r \in results : r.id = <<"runner", run>>
    /\ pc = "apply" => <<"optimization_result", run>> \in payloads
    /\ pc = "triangulate" => <<"v2", run>> \in payloads
    /\ pc = "compact" => <<"v3", run>> \in payloads
    /\ pc = "adjust" => \A r \in revs : (r.run = run /\ r.kind = "v3") => <<"v3", run>> \in payloads
    /\ pc \in {"graphRow", "solve"} => <<"pipeline_graph", closure>> \in payloads
    /\ pc \in {"solve", "resultRow"} => \E g \in graphs : g.id = <<"pipeline", closure>>
    /\ pc = "resultRow" => <<"pipeline_result", closure>> \in payloads

\* What a detection has recorded and has still to record is a list it may come to.
Recorded(n) == {r.id[2] : r \in {c \in candidates : c.id[1] = n}}
Detected ==
    /\ pc = "record" => Recorded(run) \cup found \in DetectableLists
    /\ pc = "record" => \A c \in found : c[2] < c[1]
    /\ \A n \in Runs : <<"candidates", n>> \in payloads => Recorded(n) \in DetectableLists
    /\ \A c \in candidates : c.id[2][2] < c.id[2][1]

\* A revision is known by its document, its run and its kind, and a run has one document.
RevisionKeys ==
    /\ \A r, s \in revs : (r.doc = s.doc /\ r.run = s.run /\ r.kind = s.kind) => r = s
    /\ \A r, s \in revs : (r.run = s.run /\ r.run # 0) => r.doc = s.doc

\* A superseded revision was overtaken by one with a later clock.
Overtaken ==
    Backend = "gtsam" =>
        \A r \in revs : r.status = "superseded" => \E s \in revs : r.clock < s.clock

\* Every chain stands on a v1.  In that of a v3, v2 is superseded and older, v3 is live
\* until there is a v4, and v1 is compacted unless the run has not come to it or never
\* will.
Chains ==
    /\ \A r \in revs : r.kind # "v1" => \E s \in revs : s.kind = "v1" /\ s.doc = r.doc
    /\ \A r \in revs : r.kind = "v3" =>
          /\ \A s \in revs : (s.run = r.run /\ s.kind = "v2") =>
                                s.status = "superseded" /\ s.clock < r.clock
          /\ r.status = "succeeded" \/ \E s \in revs : s.run = r.run /\ s.kind = "v4"
          /\ \A s \in revs : (s.doc = r.doc /\ s.kind = "v1") =>
                \/ s.status = "superseded"
                \/ r.run = run /\ pc \in {"pointsPut", "compact"}
                \/ ended[r.run] \in Unfinished
    /\ \A r \in revs : r.kind = "v4" =>
          /\ r.status = "succeeded"
          /\ \E s \in revs : s.run = r.run /\ s.kind = "v3"
          /\ \A s \in revs : (s.run = r.run /\ s.kind = "v3") =>
                s.status = "superseded" /\ (Backend = "gtsam" => s.clock < r.clock)

\* How far the chain of the present run has come.
ChainSoFar ==
    /\ pc # "idle" => \A r \in revs : r.run = run => r.doc = doc
    /\ pc \notin {"idle"} \cup RevisionSteps => \A r \in revs : r.run # run
    /\ pc \in {"graph"} \cup MetricSteps =>
          \E r \in revs : r.doc = doc /\ r.kind = "v1" /\ r.status = "succeeded"
    /\ pc \in {"applyPut", "triangulate"} =>
          /\ \E r \in revs : r.run = run /\ r.kind = "v2"
          /\ \A r \in revs : r.run = run =>
                r.kind = "v2" /\ r.status = "succeeded" /\ r.clock = stamp
    /\ pc \in {"pointsPut", "compact"} =>
          \E r \in revs : r.run = run /\ r.kind = "v3" /\ r.clock = stamp + 1
    /\ pc \in {"pointsPut", "compact", "adjust"} =>
          \A r \in revs : r.run = run => r.kind \in {"v2", "v3"}
    /\ pc = "adjust" =>
          \/ \E r \in revs : r.run = run /\ r.kind = "v3"
          \/ \E r \in revs : r.doc = doc /\ r.kind = "v1" /\ r.status = "succeeded"
    /\ pc = "emit" => \E r \in revs : r.run = run /\ r.kind = "v4"

\* A v4 that was handed on is in the table, and its run ended with it.
HandedOn ==
    \A n \in Runs : <<"v4", n>> \in payloads =>
        ended[n] = "produced" /\ \E r \in revs : r.run = n /\ r.kind = "v4"

CorrectionInv ==
    /\ CorrectionTypeOK /\ Locals /\ KnownClosure /\ Numbered
    /\ ClosureKeys /\ GraphEvidence /\ ResultEvidence /\ RevisionEvidence /\ Gathered
    /\ Detected /\ RevisionKeys /\ Overtaken /\ Chains /\ ChainSoFar /\ HandedOn

-----------------------------------------------------------------------------
(* What the operators of the model do. *)

\* Superseding replaces the one row it names and leaves its identity and clock alone.
Superseded(r, k) == IF KeyOf(r) = Key(k) THEN [r EXCEPT !.status = "superseded"] ELSE r

LEMMA SupersededRow ==
    ASSUME NEW r \in ReconstructionRow, NEW k \in Kind
    PROVE  /\ Superseded(r, k) \in ReconstructionRow
           /\ Superseded(r, k).doc = r.doc /\ Superseded(r, k).run = r.run
           /\ Superseded(r, k).kind = r.kind /\ Superseded(r, k).clock = r.clock
           /\ KeyOf(r) = Key(k) => Superseded(r, k).status = "superseded"
           /\ KeyOf(r) # Key(k) => Superseded(r, k) = r
  BY DEF Superseded, ReconstructionRow, Status

LEMMA SupersedeRows ==
    ASSUME NEW rows, NEW k
    PROVE  Supersede(rows, k) = {Superseded(r, k) : r \in rows}
  BY DEF Supersede, Superseded

\* The verdicts of the verifier and the statuses of the solver.
LEMMA VerdictsKnown == MeasuredVerdicts \subseteq Verdict \ {"none"}
  BY DEF MeasuredVerdicts, MeasuredVerdict, Verdict

LEMMA StatusesKnown == SolverStatuses \subseteq SolverOutcome
  BY DEF SolverStatuses, SolverStatus, SolverOutcome

\* A detection only matches a frame with earlier ones.
LEMMA ListsLookBack ==
    ASSUME NEW frames \in ResolvableFrames, NEW list \in GenerateLoopClosureCandidates(frames)
    PROVE  /\ list \in DetectableLists /\ list \subseteq Frame \X Frame
           /\ \A c \in list : c[2] < c[1]
  <1>1. frames \subseteq Frame
    BY DEF ResolvableFrames, Inputs
  <1>2. PICK chosen \in [frames -> SUBSET frames] :
           /\ \A i \in frames : chosen[i] \in BestTargets(MatchedTargets(frames, i), i)
           /\ list = {c \in frames \X frames : c[2] \in chosen[c[1]]}
    BY DEF GenerateLoopClosureCandidates
  <1>3. \A i \in frames : \A j \in chosen[i] : j < i
    BY <1>2 DEF BestTargets, MatchedTargets
  <1> QED
    BY <1>1, <1>2, <1>3 DEF DetectableLists

\* Only a chain with a v3 has residuals that pass the gate.
LEMMA GateNeedsPoints ==
    ASSUME \E rms \in Residuals : Passes(rms[2], rms[1])
    PROVE  HasRow("v3")
  BY DEF Residuals, Passes

-----------------------------------------------------------------------------
(* The first state, and the steps that write no row and no payload. *)

USE DEF corrVars, tablesC, evidence, localC, Runs

\* An empty project with the documents of an earlier session.
LEMMA InitEstablishes == CorrectionInit => CorrectionInv
  <1> SUFFICES ASSUME CorrectionInit PROVE CorrectionInv
    OBVIOUS
  <1> USE DocAssumption, CorrectionBounds DEF CorrectionInit
  <1>1. NoDoc \in Doc
    BY DEF NoDoc
  <1>2. CorrectionTypeOK
    <2>1. docs \in [Doc -> Nat] /\ ended \in [Runs -> Outcome]
      BY DEF Outcome
    <2>2. /\ revs \subseteq ReconstructionRow /\ candidates \subseteq CandidateRow
          /\ closures \subseteq ClosureRow /\ graphs \subseteq GraphRow
          /\ results \subseteq ResultRow /\ found \subseteq Frame \X Frame
          /\ payloads \subseteq (Artifact \cup PipelineArtifact) \X Runs
      BY Zenon
    <2>3. cancel \in BOOLEAN
      OBVIOUS
    <2>4. /\ run \in 0..MaxRuns /\ stamp \in Nat /\ closure \in 0..MaxRuns
          /\ crashes \in 0..MaxCrashes /\ verdict \in Verdict
      BY DEF Verdict
    <2> QED
      BY <1>1, <2>1, <2>2, <2>3, <2>4, Zenon DEF CorrectionTypeOK
  <1>3. Locals /\ KnownClosure /\ Gathered
    BY DEF Locals, KnownClosure, Gathered, CorrectionSteps, MetricSteps, PipelineSteps
  <1>4. Numbered
    BY DEF Numbered, Now
  <1>5. ClosureKeys /\ GraphEvidence /\ ResultEvidence /\ RevisionEvidence
    BY DEF ClosureKeys, GraphEvidence, ResultEvidence, RevisionEvidence
  <1>6. Detected /\ HandedOn
    BY DEF Detected, HandedOn
  <1>7. RevisionKeys /\ Overtaken /\ Chains /\ ChainSoFar
    BY DEF RevisionKeys, Overtaken, Chains, ChainSoFar, MetricSteps, RevisionSteps
  <1> QED
    BY <1>2, <1>3, <1>4, <1>5, <1>6, <1>7 DEF CorrectionInv

\* While the tables stay and payloads are only added, what rests on them stands.
LEMMA EvidenceStays ==
    ASSUME CorrectionInv, UNCHANGED tablesC, payloads \subseteq payloads'
    PROVE  /\ ClosureKeys' /\ GraphEvidence' /\ ResultEvidence' /\ RevisionEvidence'
           /\ RevisionKeys' /\ Overtaken'
  <1>1. ClosureKeys' /\ GraphEvidence'
    BY DEF CorrectionInv, ClosureKeys, GraphEvidence
  <1>2. ResultEvidence'
    BY DEF CorrectionInv, ResultEvidence
  <1>3. RevisionEvidence' /\ RevisionKeys' /\ Overtaken'
    BY DEF CorrectionInv, RevisionEvidence, RevisionKeys, Overtaken
  <1> QED
    BY <1>1, <1>2, <1>3

\* The beginning of a run: it has a number of its own and has written nothing.
LEMMA BeginKeeps ==
    ASSUME CorrectionInv, pc = "idle", run < MaxRuns, run' = run + 1,
           UNCHANGED <<tablesC, payloads, docs>>,
           pc' \in {"idle", "worker", "verify", "record", "upsert"},
           ended' \in [Runs -> Outcome], \A n \in Runs : n # run + 1 => ended'[n] = ended[n]
    PROVE  Numbered' /\ Gathered' /\ Chains' /\ ChainSoFar' /\ HandedOn'
  <1> USE CorrectionBounds DEF CorrectionInv
  <1>1. run \in Nat /\ run' \in Nat /\ Now \in Nat /\ Now' > Now
    BY DEF CorrectionTypeOK, Now
  <1>2. \A r \in revs : r.run \in Nat /\ r.clock \in Nat
    BY DEF CorrectionTypeOK, ReconstructionRow
  <1>3. \A n \in Runs : <<"v4", n>> \in payloads => n # run + 1
    BY <1>1 DEF Numbered
  <1>4. Numbered'
    <2>1. \A c \in closures : c.id \in Nat /\ c.id <= run
      BY DEF CorrectionTypeOK, ClosureRow, Numbered
    <2>2. \A c \in candidates : c.id[1] \in Nat
      BY DEF CorrectionTypeOK, CandidateRow
    <2>3. \A p \in payloads : p[2] \in Nat
      BY DEF CorrectionTypeOK
    <2>4. \A d \in Doc : docs[d] \in Nat
      BY DEF CorrectionTypeOK
    <2>5. /\ \A g \in graphs : g.id # <<"runner", run'>>
          /\ \A r \in results : r.id # <<"runner", run'>>
      <3>1. /\ \A g \in graphs : g.id[2] # run'
            /\ \A r \in results : r.id[2] # run'
        <4>1. ASSUME NEW n, \E c \in closures : c.id = n PROVE n # run'
          BY <1>1, <2>1, <4>1
        <4> QED
          BY <4>1 DEF GraphEvidence, ResultEvidence
      <3> QED
        BY <3>1
    <2>6. <<"candidates", run'>> \notin payloads /\ <<"v4", run'>> \notin payloads
      BY <1>1 DEF Numbered
    <2>7. /\ \A c \in closures : c.id <= run' /\ c.id # run'
          /\ \A c \in candidates : c.id[1] <= run'
          /\ \A p \in payloads : p[2] <= run'
      BY <1>1, <2>1, <2>2, <2>3 DEF Numbered
    <2>8. /\ \A r \in revs : r.run <= run' /\ (r.kind = "v1" => r.run = 0 /\ r.clock <= Now')
          /\ \A d \in Doc : docs[d] <= Now'
      BY <1>1, <1>2, <2>4 DEF Numbered, Now
    <2> QED
      BY <2>5, <2>6, <2>7, <2>8 DEF Numbered
  <1>5. Gathered'
    BY DEF Gathered, CorrectionSteps
  <1>6. Chains'
    BY <1>1, <1>2 DEF Chains, Numbered, CorrectionTypeOK
  <1>7. ChainSoFar'
    BY <1>1, <1>2 DEF ChainSoFar, Numbered, MetricSteps, RevisionSteps
  <1>8. HandedOn'
    BY <1>3 DEF HandedOn
  <1> QED
    BY <1>4, <1>5, <1>6, <1>7, <1>8

LEMMA StartsKeep ==
    ASSUME CorrectionInv,
           \/ \E d \in Doc : SubmitWorker(d) \/ PassThrough(d)
           \/ \E d \in Doc, given \in Inputs(ConfigItems) :
                 StartCorrection(d, given) \/ RefuseCorrection(d, given)
           \/ \E d \in Doc, frames \in ResolvableFrames : StartDetection(d, frames)
           \/ \E given \in Inputs(PayloadItems) : MalformedFeatures(given)
           \/ \E d \in Doc : \E c \in FindLoopClosuresByTrajectory(closures, d) : StartPipeline(c)
    PROVE  CorrectionInv'
  <1> USE CorrectionBounds DEF CorrectionInv
  <1>1. ASSUME NEW d \in Doc, NEW next \in {"worker", "verify"}, Begin(d, next), UNCHANGED docs
        PROVE  CorrectionInv'
    <2>1. CorrectionTypeOK'
      BY <1>1 DEF CorrectionTypeOK, Begin
    <2>2. Locals' /\ KnownClosure'
      BY <1>1 DEF Locals, KnownClosure, Begin, CorrectionTypeOK, MetricSteps, PipelineSteps
    <2>3. Detected'
      BY <1>1 DEF Detected, Recorded, Begin
    <2>4. Numbered' /\ Gathered' /\ Chains' /\ ChainSoFar' /\ HandedOn'
      BY <1>1, BeginKeeps DEF Begin, CorrectionTypeOK
    <2> QED
      BY <1>1, <2>1, <2>2, <2>3, <2>4, EvidenceStays DEF Begin
  <1>2. ASSUME NEW how \in Outcome, Over(how)
        PROVE  CorrectionInv'
    <2>1. CorrectionTypeOK'
      BY <1>2 DEF CorrectionTypeOK, Over
    <2>2. Locals' /\ KnownClosure'
      BY <1>2 DEF Locals, KnownClosure, Over, CorrectionTypeOK, CorrectionSteps, MetricSteps, PipelineSteps
    <2>3. Detected'
      BY <1>2 DEF Detected, Recorded, Over
    <2>4. Numbered' /\ Gathered' /\ Chains' /\ ChainSoFar' /\ HandedOn'
      BY <1>2, <2>1, BeginKeeps DEF Over, CorrectionTypeOK
    <2> QED
      BY <1>2, <2>1, <2>2, <2>3, <2>4, EvidenceStays DEF Over
  <1>3. ASSUME NEW d \in Doc, NEW frames \in ResolvableFrames, StartDetection(d, frames)
        PROVE  CorrectionInv'
    <2>1. /\ found' \in DetectableLists /\ found' \subseteq Frame \X Frame
          /\ \A c \in found' : c[2] < c[1]
      BY <1>3, ListsLookBack DEF StartDetection
    <2>2. CorrectionTypeOK'
      BY <1>3, <2>1 DEF CorrectionTypeOK, StartDetection, CallSteps
    <2>3. Locals' /\ KnownClosure'
      BY <1>3 DEF Locals, KnownClosure, StartDetection, CorrectionTypeOK, CorrectionSteps, MetricSteps, PipelineSteps
    <2>4. Detected'
      <3>1. Recorded(run)' = {}
        BY <1>3 DEF Recorded, StartDetection, CorrectionTypeOK, CandidateRow, Numbered
      <3> QED
        BY <1>3, <2>1, <3>1 DEF Detected, Recorded, StartDetection
    <2>5. Numbered' /\ Gathered' /\ Chains' /\ ChainSoFar' /\ HandedOn'
      BY <1>3, BeginKeeps DEF StartDetection, CorrectionTypeOK
    <2> QED
      BY <1>3, <2>2, <2>3, <2>4, <2>5, EvidenceStays DEF StartDetection
  <1>4. ASSUME NEW c \in closures, StartPipeline(c)
        PROVE  CorrectionInv'
    <2>1. c \in ClosureRow
      BY DEF CorrectionTypeOK
    <2>2. CorrectionTypeOK'
      BY <1>4, <2>1 DEF CorrectionTypeOK, StartPipeline, CallSteps, ClosureRow
    <2>3. Locals' /\ KnownClosure'
      BY <1>4 DEF Locals, KnownClosure, StartPipeline, CorrectionTypeOK, CorrectionSteps, MetricSteps, PipelineSteps
    <2>4. Detected'
      BY <1>4 DEF Detected, Recorded, StartPipeline
    <2>5. Numbered' /\ Gathered' /\ Chains' /\ ChainSoFar' /\ HandedOn'
      BY <1>4, BeginKeeps DEF StartPipeline, CorrectionTypeOK
    <2> QED
      BY <1>4, <2>2, <2>3, <2>4, <2>5, EvidenceStays DEF StartPipeline
  <1> QED
    BY <1>1, <1>2, <1>3, <1>4
    DEF SubmitWorker, PassThrough, StartCorrection, RefuseCorrection, MalformedFeatures,
        FindLoopClosuresByTrajectory, Outcome

-----------------------------------------------------------------------------
(* How a run ends, and how it goes on with a payload at most. *)

\* A run ends where it is, perhaps with the payload it was writing.
LEMMA EndKeeps ==
    ASSUME CorrectionInv, NEW how \in Outcome, pc # "idle", End(how),
           UNCHANGED <<tablesC, docs, run>>, crashes' \in 0..MaxCrashes,
           pc \in {"pointsPut", "compact"} => how \in Unfinished,
           payloads' = payloads
              \/ \E type \in Artifact \ {"candidates", "v4"} : payloads' = payloads \cup {<<type, run>>}
    PROVE  CorrectionInv'
  <1> USE CorrectionBounds DEF CorrectionInv
  <1>1. /\ pc' = "idle" /\ verdict' = "none" /\ closure' = 0 /\ stamp' = 0 /\ found' = {}
        /\ cancel' = FALSE /\ heard' = FALSE /\ doc' \in Doc /\ ended' = [ended EXCEPT ![run] = how]
    BY DocAssumption DEF End, Forget, NoDoc
  <1>2. run \in Runs /\ ended' \in [Runs -> Outcome] /\ \A n \in Runs : n # run => ended'[n] = ended[n]
    BY <1>1 DEF Locals, CorrectionTypeOK
  <1>3. /\ payloads' \subseteq (Artifact \cup PipelineArtifact) \X Runs
        /\ payloads \subseteq payloads' /\ \A p \in payloads' : p[2] <= run
        /\ \A n \in Runs : /\ <<"v4", n>> \in payloads' => <<"v4", n>> \in payloads
                           /\ <<"candidates", n>> \in payloads' => <<"candidates", n>> \in payloads
    BY <1>2 DEF CorrectionTypeOK, Numbered
  <1>4. CorrectionTypeOK'
    <2>1. closure' \in 0..MaxRuns /\ stamp' \in Nat /\ found' \subseteq Frame \X Frame /\ verdict' \in Verdict
      BY <1>1 DEF Verdict
    <2>2. cancel' \in BOOLEAN
      BY <1>1
    <2> QED
      BY <1>1, <1>2, <1>3, <2>1, <2>2, Zenon DEF CorrectionTypeOK
  <1>5. Locals' /\ KnownClosure' /\ Gathered'
    BY <1>1, <1>2 DEF Locals, KnownClosure, Gathered, CorrectionTypeOK, CorrectionSteps, MetricSteps, PipelineSteps
  <1>6. Numbered'
    BY <1>1, <1>3 DEF Numbered, Now
  <1>7. Detected'
    BY <1>1, <1>3 DEF Detected, Recorded
  <1>8. Chains'
    <2>1. \A r \in revs : r.kind = "v3" => r.run \in Runs
      BY DEF Numbered, CorrectionTypeOK, ReconstructionRow
    <2>2. \A r \in revs : r.kind = "v3" =>
             \A s \in revs : (s.doc = r.doc /\ s.kind = "v1") =>
                s.status = "superseded" \/ ended'[r.run] \in Unfinished
      BY <1>1, <1>2, <2>1 DEF Chains, Locals, CorrectionTypeOK, Unfinished
    <2> QED
      BY <1>1, <2>2 DEF Chains
  <1>9. ChainSoFar'
    BY <1>1 DEF ChainSoFar, MetricSteps
  <1>10. HandedOn'
    BY <1>1, <1>2, <1>3 DEF HandedOn, Numbered
  <1> QED
    BY <1>3, <1>4, <1>5, <1>6, <1>7, <1>8, <1>9, <1>10, EvidenceStays

\* An event of the worker that ends nothing, and the next wait.
LEMMA WaitingKeeps == ASSUME CorrectionInv, WorkerReports \/ WaitAgain PROVE CorrectionInv'
  <1> USE DEF CorrectionInv
  <1>1. /\ UNCHANGED <<tablesC, payloads, docs, pc, run, doc, verdict, closure, stamp, found, cancel,
                      ended, crashes>>
        /\ heard' \in BOOLEAN
    BY DEF WorkerReports, WaitAgain
  <1>2. CorrectionTypeOK'
    BY <1>1 DEF CorrectionTypeOK
  <1>3. Locals' /\ KnownClosure' /\ Numbered' /\ Gathered'
    BY <1>1 DEF Locals, KnownClosure, Numbered, Gathered, Now
  <1>4. Detected' /\ HandedOn' /\ Chains' /\ ChainSoFar'
    BY <1>1 DEF Detected, HandedOn, Chains, ChainSoFar, Recorded
  <1> QED
    BY <1>1, <1>2, <1>3, <1>4, EvidenceStays

\* The steps that only end a run.
LEMMA EndsKeep ==
    ASSUME CorrectionInv,
           \/ WorkerCompleted \/ WorkerCancelled \/ WorkerFailed \/ WorkerSilent
           \/ \E where, given, needed : Refuse(where, given, needed) /\ where # "idle"
           \/ CommitClashes \/ GateRejects \/ Throws \/ Crash
    PROVE  CorrectionInv'
  <1>1. crashes \in 0..MaxCrashes /\ crashes' \in 0..MaxCrashes
    BY CorrectionBounds
    DEF CorrectionInv, CorrectionTypeOK, WorkerCompleted, WorkerCancelled, WorkerFailed, WorkerSilent, Refuse,
        CommitClashes, GateRejects, Throws, Crash
  <1>2. /\ pc # "idle" /\ UNCHANGED <<tablesC, docs, run, payloads>>
        /\ \E how \in Outcome : /\ End(how)
                                /\ pc \in {"pointsPut", "compact"} => how \in Unfinished
    BY DEF WorkerCompleted, WorkerCancelled, WorkerFailed, WorkerSilent, Waiting, Refuse,
           CommitClashes, GateRejects, Throws, Crash, Outcome, Unfinished
  <1> QED
    BY <1>1, <1>2, EndKeeps

\* The steps that only move on, and a cancellation that nobody has seen yet.
LEMMA MovesKeep ==
    ASSUME CorrectionInv,
           SkipVerification \/ (\E given : NoPoseGraph(given)) \/ NothingToTriangulate \/ Cancel
    PROVE  CorrectionInv'
  <1> USE DEF CorrectionInv
  <1>1. CASE End("cancelled") /\ ~Cancel
    BY <1>1, EndKeeps
    DEF SkipVerification, NoPoseGraph, NothingToTriangulate, Outcome, CorrectionTypeOK
  <1>2. CASE ~End("cancelled") \/ Cancel
    <2>0. cancel' = TRUE \/ cancel' = cancel
      BY <1>2 DEF SkipVerification, NoPoseGraph, NothingToTriangulate, Continue, Cancel
    <2>1. /\ UNCHANGED <<tablesC, payloads, docs, run, localC, ended, crashes>>
          /\ \/ pc = "verify" /\ pc' = "scene"
             \/ pc = "graph" /\ pc' = "adjust"
             \/ pc = "triangulate" /\ pc' = "adjust"
             \/ pc # "idle" /\ pc' = pc
      BY <1>2 DEF SkipVerification, NoPoseGraph, NothingToTriangulate, Continue, Cancel
    <2>2. CorrectionTypeOK'
      BY <2>0, <2>1 DEF CorrectionTypeOK
    <2>3. Locals' /\ KnownClosure'
      BY <2>1 DEF Locals, KnownClosure, CorrectionSteps, MetricSteps, PipelineSteps, Now
    <2>4. Numbered' /\ Detected' /\ HandedOn'
      BY <2>1 DEF Numbered, Detected, HandedOn, Recorded, Now
    <2>5. Gathered'
      BY <2>1 DEF Gathered, CorrectionSteps, ChainSoFar, RevisionSteps, Locals
    <2>6. Chains'
      BY <2>1 DEF Chains
    <2>7. ChainSoFar'
      BY <2>1 DEF ChainSoFar, MetricSteps, RevisionSteps
    <2> QED
      BY <2>1, <2>2, <2>3, <2>4, <2>5, <2>6, <2>7, EvidenceStays
  <1> QED
    BY <1>1, <1>2

-----------------------------------------------------------------------------
(* The steps that write into the CAS. *)

\* The worker's document: its clock is that of its run.
LEMMA WorkerProducedKeeps == ASSUME CorrectionInv, WorkerProduced PROVE CorrectionInv'
  <1> USE DEF CorrectionInv
  <1>1. /\ UNCHANGED <<tablesC, payloads, run, localC, ended, crashes, cancel>>
        /\ docs' = [docs EXCEPT ![doc] = Now] /\ pc = "worker" /\ pc' = "reported"
    BY DEF WorkerProduced, Step
  <1>2. Now \in Nat /\ Now' = Now /\ docs' \in [Doc -> Nat] /\ \A d \in Doc : docs'[d] <= Now
    BY <1>1 DEF CorrectionTypeOK, Now, Numbered
  <1>3. CorrectionTypeOK'
    BY <1>1, <1>2 DEF CorrectionTypeOK
  <1>4. Locals' /\ KnownClosure' /\ Gathered'
    BY <1>1 DEF Locals, KnownClosure, Gathered, CorrectionSteps, MetricSteps, PipelineSteps
  <1>5. Numbered'
    BY <1>1, <1>2 DEF Numbered
  <1>6. Detected' /\ HandedOn'
    BY <1>1 DEF Detected, HandedOn, Recorded
  <1>7. Chains' /\ ChainSoFar'
    BY <1>1 DEF Chains, ChainSoFar, MetricSteps, RevisionSteps
  <1> QED
    BY <1>1, <1>3, <1>4, <1>5, <1>6, <1>7, EvidenceStays

\* The payloads of sparse_correction that go with a row.
LEMMA PayloadsKeep ==
    ASSUME CorrectionInv,
           PutLoopClosure \/ PutPoseGraph \/ PutOptimization \/ PutApplied \/ PutPoints
    PROVE  CorrectionInv'
  <1> USE DEF CorrectionInv
  <1>1. PICK type \in {"loop_closure", "pose_graph", "optimization_result", "v2", "v3"},
             from \in {"closurePut", "graphPut", "resultPut", "applyPut", "pointsPut"},
             next \in {"scene", "optimize", "apply", "triangulate", "compact"} :
           /\ PutPayload(from, type, next)
           /\ type = "loop_closure" => from = "closurePut" /\ next = "scene"
           /\ type = "pose_graph" => from = "graphPut" /\ next = "optimize"
           /\ type = "optimization_result" => from = "resultPut" /\ next = "apply"
           /\ type = "v2" => from = "applyPut" /\ next = "triangulate"
           /\ type = "v3" => from = "pointsPut" /\ next = "compact"
    BY DEF PutLoopClosure, PutPoseGraph, PutOptimization, PutApplied, PutPoints
  <1>2. /\ pc = from /\ payloads' = payloads \cup {<<type, run>>}
        /\ UNCHANGED <<tablesC, docs, run, crashes>> /\ Continue(next)
    BY <1>1 DEF PutPayload
  <1>3. run \in Runs
    BY <1>2 DEF Locals
  <1>4. CASE End("cancelled")
    BY <1>2, <1>4, EndKeeps DEF Outcome, Unfinished, Artifact, CorrectionTypeOK
  <1>5. CASE ~End("cancelled")
    <2>1. pc' = next /\ UNCHANGED <<localC, ended, cancel>>
      BY <1>2, <1>5 DEF Continue
    <2>2. /\ payloads' \subseteq (Artifact \cup PipelineArtifact) \X Runs
          /\ payloads \subseteq payloads' /\ \A p \in payloads' : p[2] <= run
          /\ \A n \in Runs : /\ <<"v4", n>> \in payloads' => <<"v4", n>> \in payloads
                             /\ <<"candidates", n>> \in payloads' => <<"candidates", n>> \in payloads
      BY <1>2, <1>3 DEF CorrectionTypeOK, Numbered, Artifact
    <2>3. CorrectionTypeOK'
      BY <1>2, <2>1, <2>2 DEF CorrectionTypeOK
    <2>4. Locals' /\ KnownClosure'
      BY <1>1, <1>2, <2>1 DEF Locals, KnownClosure, CorrectionSteps, MetricSteps, PipelineSteps, Now
    <2>5. Numbered'
      BY <1>1, <1>2, <1>3, <2>1, <2>2 DEF Numbered, Now
    <2>6. Gathered'
      BY <1>1, <1>2, <2>1, <2>2 DEF Gathered, CorrectionSteps
    <2>7. Detected' /\ HandedOn'
      BY <1>1, <1>2, <2>1, <2>2 DEF Detected, HandedOn, Recorded
    <2>8. Chains'
      BY <1>1, <1>2, <2>1 DEF Chains
    <2>9. ChainSoFar'
      BY <1>1, <1>2, <2>1 DEF ChainSoFar, MetricSteps, RevisionSteps
    <2> QED
      BY <1>2, <2>2, <2>3, <2>4, <2>5, <2>6, <2>7, <2>8, <2>9, EvidenceStays
  <1> QED
    BY <1>4, <1>5

\* EmitProduced: v4 into the CAS, and the run ends as produced.
LEMMA ProduceKeeps == ASSUME CorrectionInv, Produce PROVE CorrectionInv'
  <1> USE CorrectionBounds DEF CorrectionInv
  <1>1. /\ pc = "emit" /\ payloads' = payloads \cup {<<"v4", run>>}
        /\ UNCHANGED <<tablesC, docs, run, crashes>>
        /\ pc' = "idle" /\ verdict' = "none" /\ closure' = 0 /\ stamp' = 0 /\ found' = {}
        /\ cancel' = FALSE /\ heard' = FALSE /\ doc' \in Doc /\ ended' = [ended EXCEPT ![run] = "produced"]
    BY DocAssumption DEF Produce, End, Forget, NoDoc
  <1>2. /\ run \in Runs /\ ended' \in [Runs -> Outcome] /\ ended'[run] = "produced"
        /\ \A n \in Runs : n # run => ended'[n] = ended[n]
    BY <1>1 DEF Locals, CorrectionTypeOK, Outcome
  <1>3. /\ payloads' \subseteq (Artifact \cup PipelineArtifact) \X Runs
        /\ payloads \subseteq payloads' /\ \A p \in payloads' : p[2] <= run
        /\ \A n \in Runs : <<"candidates", n>> \in payloads' => <<"candidates", n>> \in payloads
        /\ \A n \in Runs : <<"v4", n>> \in payloads' => <<"v4", n>> \in payloads \/ n = run
    BY <1>1, <1>2 DEF CorrectionTypeOK, Numbered, Artifact
  <1>4. CorrectionTypeOK'
    <2>1. closure' \in 0..MaxRuns /\ stamp' \in Nat /\ found' \subseteq Frame \X Frame /\ verdict' \in Verdict
      BY <1>1 DEF Verdict
    <2>2. cancel' \in BOOLEAN
      BY <1>1
    <2> QED
      BY <1>1, <1>2, <1>3, <2>1, <2>2, Zenon DEF CorrectionTypeOK
  <1>5. Locals' /\ KnownClosure' /\ Gathered'
    BY <1>1, <1>2 DEF Locals, KnownClosure, Gathered, CorrectionTypeOK, CorrectionSteps, MetricSteps, PipelineSteps
  <1>6. Numbered'
    BY <1>1, <1>3 DEF Numbered, Now
  <1>7. Detected'
    BY <1>1, <1>3 DEF Detected, Recorded
  <1>8. Chains'
    BY <1>1, <1>2 DEF Chains, Locals, CorrectionTypeOK, ReconstructionRow, Unfinished
  <1>9. ChainSoFar'
    BY <1>1 DEF ChainSoFar, MetricSteps
  <1>10. HandedOn'
    BY <1>1, <1>2, <1>3 DEF HandedOn, ChainSoFar, Numbered
  <1> QED
    BY <1>1, <1>3, <1>4, <1>5, <1>6, <1>7, <1>8, <1>9, <1>10, EvidenceStays

-----------------------------------------------------------------------------
(* The rows of loop closures, pose graphs and results. *)

\* While the revisions stay, no result is lost and payloads are only added, what is
\* said of the revisions stands.
LEMMA RevisionsStay ==
    ASSUME CorrectionInv, UNCHANGED revs, payloads \subseteq payloads',
           \A x \in results : \E y \in results' : y.id = x.id
    PROVE  RevisionEvidence' /\ RevisionKeys' /\ Overtaken'
  <1>1. RevisionEvidence'
    BY DEF CorrectionInv, RevisionEvidence
  <1> QED
    BY <1>1 DEF CorrectionInv, RevisionKeys, Overtaken

\* VerifyLoopClosureGeometry: the first closure with the number of this run.
LEMMA VerifyKeeps ==
    ASSUME CorrectionInv, NEW v \in MeasuredVerdicts, NEW given, VerifyLoopClosure(v, given)
    PROVE  CorrectionInv'
  <1> USE CorrectionBounds DEF CorrectionInv
  <1> DEFINE new == [id |-> run, trajectory |-> doc, verdict |-> v,
                     separated |-> FALSE, clock |-> Now]
  <1>1. /\ pc = "verify" /\ pc' = "closurePut" /\ verdict' = v /\ closure' = run /\ stamp' = Now
        /\ closures' = closures \cup {new}
        /\ UNCHANGED <<revs, candidates, graphs, results, payloads, docs, run, doc, found, heard,
                       ended, cancel, crashes>>
    BY DEF VerifyLoopClosure, AddLoopClosure, InsertRow
  <1>2. v \in Verdict \ {"none"} /\ run \in Runs /\ run \in Nat /\ Now \in Nat /\ Now' = Now /\ doc \in Doc
    BY <1>1, VerdictsKnown DEF Locals, CorrectionTypeOK, Now
  <1>3. new \in ClosureRow /\ new.id = run /\ new.trajectory = doc /\ new.verdict = v /\ new.clock = Now
    BY <1>2 DEF ClosureRow
  <1> HIDE DEF new
  <1>4. CorrectionTypeOK'
    BY <1>1, <1>2, <1>3 DEF CorrectionTypeOK
  <1>5. Locals' /\ KnownClosure'
    BY <1>1, <1>2, <1>3 DEF Locals, KnownClosure, CorrectionSteps, MetricSteps, PipelineSteps
  <1>6. Numbered'
    BY <1>1, <1>2, <1>3 DEF Numbered, CorrectionTypeOK
  <1>7. ClosureKeys'
    BY <1>1, <1>2, <1>3 DEF Numbered, ClosureKeys
  <1>8. GraphEvidence'
    BY <1>1 DEF GraphEvidence
  <1>9. ResultEvidence'
    BY <1>1 DEF ResultEvidence
  <1>10. Gathered' /\ Detected' /\ HandedOn'
    BY <1>1 DEF Gathered, Detected, HandedOn, Recorded, CorrectionSteps
  <1>11. Chains' /\ ChainSoFar'
    BY <1>1 DEF Chains, ChainSoFar, MetricSteps, RevisionSteps
  <1>12. RevisionEvidence' /\ RevisionKeys' /\ Overtaken'
    BY <1>1, RevisionsStay
  <1> QED
    BY <1>4, <1>5, <1>6, <1>7, <1>8, <1>9, <1>10, <1>11, <1>12

\* MaybePersistLoopClosurePoseGraph: the graph of the metric closure of this run.
LEMMA PersistKeeps ==
    ASSUME CorrectionInv, NEW given, PersistPoseGraph(given) PROVE CorrectionInv'
  <1> USE CorrectionBounds DEF CorrectionInv
  <1> DEFINE new == [id |-> <<"runner", closure>>, trajectory |-> doc, clock |-> stamp]
  <1>1. /\ pc = "graph" /\ verdict = "metric" /\ pc' = "graphPut"
        /\ graphs' = graphs \cup {new}
        /\ UNCHANGED <<revs, candidates, closures, results, payloads, docs, run, crashes, ended,
                       cancel, localC>>
    BY DEF PersistPoseGraph, MetricEdge, Step, AddPoseGraph, InsertRow
  <1>2. closure = run /\ run \in Runs /\ stamp \in Nat /\ doc \in Doc
    BY <1>1 DEF Locals, CorrectionTypeOK, CorrectionSteps
  <1>3. /\ new \in GraphRow /\ new.trajectory = doc
        /\ new.id = <<"runner", run>> /\ new.id[1] = "runner" /\ new.id[2] = run
    BY <1>2 DEF GraphRow, GraphId, Producer
  <1> HIDE DEF new
  <1>4. CorrectionTypeOK'
    BY <1>1, <1>3 DEF CorrectionTypeOK
  <1>5. Locals' /\ KnownClosure'
    BY <1>1 DEF Locals, KnownClosure, CorrectionSteps, MetricSteps, PipelineSteps, Now
  <1>6. Numbered'
    BY <1>1 DEF Numbered, Now
  <1>7. ClosureKeys'
    BY <1>1, <1>3 DEF Numbered, ClosureKeys
  <1>8. GraphEvidence'
    <2>1. /\ <<"loop_closure", run>> \in payloads
          /\ \E c \in closures : c.id = run /\ c.verdict = "metric" /\ c.trajectory = doc
      BY <1>1, <1>2 DEF Gathered, KnownClosure, CorrectionSteps
    <2> QED
      BY <1>1, <1>3, <2>1 DEF GraphEvidence
  <1>9. ResultEvidence'
    BY <1>1 DEF ResultEvidence
  <1>10. Gathered'
    BY <1>1, <1>3 DEF Gathered, CorrectionSteps
  <1>11. Detected' /\ HandedOn'
    BY <1>1 DEF Detected, HandedOn, Recorded
  <1>12. Chains' /\ ChainSoFar'
    BY <1>1 DEF Chains, ChainSoFar, MetricSteps, RevisionSteps
  <1>13. RevisionEvidence' /\ RevisionKeys' /\ Overtaken'
    BY <1>1, RevisionsStay
  <1> QED
    BY <1>4, <1>5, <1>6, <1>7, <1>8, <1>9, <1>10, <1>11, <1>12, <1>13

\* MaybeRunTrajectoryOptimization: the result of that graph.
LEMMA RecordKeeps ==
    ASSUME CorrectionInv, NEW given, RecordOptimization(given) PROVE CorrectionInv'
  <1> USE CorrectionBounds DEF CorrectionInv
  <1> DEFINE new == [id |-> <<"runner", closure>>, trajectory |-> doc,
                     status |-> "converged", clock |-> stamp]
  <1>1. /\ pc = "optimize" /\ pc' = "resultPut"
        /\ results' = results \cup {new}
        /\ UNCHANGED <<revs, candidates, closures, graphs, payloads, docs, run, crashes, ended,
                       cancel, localC>>
    BY DEF RecordOptimization, Step, AddOptimizationResult, InsertRow
  <1>2. verdict = "metric" /\ closure = run /\ run \in Runs /\ stamp \in Nat /\ doc \in Doc
    BY <1>1 DEF Locals, CorrectionTypeOK, CorrectionSteps, MetricSteps
  <1>3. /\ new \in ResultRow /\ new.trajectory = doc /\ new.status = "converged" /\ new.clock = stamp
        /\ new.id = <<"runner", run>> /\ new.id[1] = "runner" /\ new.id[2] = run
    BY <1>2 DEF ResultRow, GraphId, Producer, SolverOutcome
  <1> HIDE DEF new
  <1>4. CorrectionTypeOK'
    BY <1>1, <1>3 DEF CorrectionTypeOK
  <1>5. Locals' /\ KnownClosure'
    BY <1>1 DEF Locals, KnownClosure, CorrectionSteps, MetricSteps, PipelineSteps, Now
  <1>6. Numbered'
    BY <1>1 DEF Numbered, Now
  <1>7. ClosureKeys'
    BY <1>1, <1>3 DEF Numbered, ClosureKeys
  <1>8. GraphEvidence'
    BY <1>1 DEF GraphEvidence
  <1>9. ResultEvidence'
    <2>1. /\ <<"pose_graph", run>> \in payloads /\ \E g \in graphs : g.id = <<"runner", run>>
          /\ \E c \in closures : /\ c.id = run /\ c.verdict = "metric" /\ c.trajectory = doc
                                 /\ c.clock = stamp
      BY <1>1, <1>2 DEF Gathered, KnownClosure, CorrectionSteps
    <2> SUFFICES ASSUME NEW r \in results'
                 PROVE  /\ \E g \in graphs : g.id = r.id
                        /\ \E c \in closures : /\ c.id = r.id[2] /\ c.verdict = "metric"
                                               /\ c.trajectory = r.trajectory /\ c.clock = r.clock
                        /\ r.id[1] = "runner" => r.status = "converged" /\ <<"pose_graph", r.id[2]>> \in payloads
                        /\ r.id[1] = "pipeline" => <<"pipeline_result", r.id[2]>> \in payloads
      BY <1>1 DEF ResultEvidence
    <2>2. CASE r \in results
      BY <2>2 DEF ResultEvidence
    <2>3. CASE r = new
      BY <1>3, <2>1, <2>3
    <2> QED
      BY <1>1, <2>2, <2>3
  <1>10. Gathered'
    BY <1>1, <1>3 DEF Gathered, CorrectionSteps
  <1>11. Detected' /\ HandedOn'
    BY <1>1 DEF Detected, HandedOn, Recorded
  <1>12. Chains' /\ ChainSoFar'
    BY <1>1 DEF Chains, ChainSoFar, MetricSteps, RevisionSteps
  <1>13. RevisionEvidence' /\ RevisionKeys' /\ Overtaken'
    BY <1>1, RevisionsStay
  <1> QED
    BY <1>4, <1>5, <1>6, <1>7, <1>8, <1>9, <1>10, <1>11, <1>12, <1>13

-----------------------------------------------------------------------------
(* DetectLoopClosureCandidates and LoopClosureOptimizePipeline. *)

\* A candidate moves from the list into the table.
LEMMA RecordCandidateKeeps == ASSUME CorrectionInv, RecordCandidate PROVE CorrectionInv'
  <1> USE CorrectionBounds DEF CorrectionInv
  <1>1. PICK c \in found : /\ candidates' = candidates \cup {[id |-> <<run, c>>, trajectory |-> doc]}
                           /\ found' = found \ {c}
    BY DEF RecordCandidate, AddLoopClosureCandidate, InsertRow
  <1> DEFINE new == [id |-> <<run, c>>, trajectory |-> doc]
  <1>2. /\ pc = "record"
        /\ UNCHANGED <<revs, closures, graphs, results, payloads, docs, pc, run, doc, verdict,
                       closure, stamp, heard, cancel, ended, crashes>>
    BY DEF RecordCandidate
  <1>3. run \in Runs /\ run \in Nat /\ c \in Frame \X Frame /\ doc \in Doc /\ c[2] < c[1]
    BY <1>2 DEF Locals, CorrectionTypeOK, Detected
  <1>4. new \in CandidateRow /\ new.id[1] = run /\ new.id[2] = c /\ candidates' = candidates \cup {new}
    BY <1>1, <1>3 DEF CandidateRow
  <1> HIDE DEF new
  <1>5. CorrectionTypeOK'
    BY <1>1, <1>2, <1>4 DEF CorrectionTypeOK
  <1>6. Locals' /\ KnownClosure' /\ Gathered'
    BY <1>2 DEF Locals, KnownClosure, Gathered, CorrectionSteps, MetricSteps, PipelineSteps
  <1>7. Numbered'
    BY <1>2, <1>3, <1>4 DEF Numbered, Now
  <1>8. Detected'
    <2>1. Recorded(run)' = Recorded(run) \cup {c}
      BY <1>2, <1>4 DEF Recorded
    <2>2. \A n \in Runs : n # run => Recorded(n)' = Recorded(n)
      BY <1>2, <1>4 DEF Recorded
    <2>3. Recorded(run)' \cup found' = Recorded(run) \cup found
      BY <1>1, <2>1
    <2>4. pc' = "record" => Recorded(run)' \cup found' \in DetectableLists
      BY <1>2, <2>3 DEF Detected
    <2>5. \A n \in Runs : <<"candidates", n>> \in payloads' => Recorded(n)' \in DetectableLists
      BY <1>2, <2>2 DEF Detected, Numbered
    <2>6. \A k \in candidates' : k.id[2][2] < k.id[2][1]
      BY <1>3, <1>4 DEF Detected
    <2> QED
      BY <1>1, <1>2, <2>4, <2>5, <2>6 DEF Detected
  <1>9. HandedOn' /\ Chains' /\ ChainSoFar'
    BY <1>2 DEF HandedOn, Chains, ChainSoFar, MetricSteps, RevisionSteps
  <1>10. ClosureKeys' /\ GraphEvidence' /\ ResultEvidence'
    BY <1>2 DEF ClosureKeys, GraphEvidence, ResultEvidence
  <1>11. RevisionEvidence' /\ RevisionKeys' /\ Overtaken'
    BY <1>2, RevisionsStay
  <1> QED
    BY <1>5, <1>6, <1>7, <1>8, <1>9, <1>10, <1>11

\* The payload comes when the list is recorded.
LEMMA ListCandidatesKeeps == ASSUME CorrectionInv, ListCandidates PROVE CorrectionInv'
  <1> USE CorrectionBounds DEF CorrectionInv
  <1>1. /\ pc = "record" /\ found = {} /\ payloads' = payloads \cup {<<"candidates", run>>}
        /\ UNCHANGED <<tablesC, docs, run, crashes>>
        /\ pc' = "idle" /\ verdict' = "none" /\ closure' = 0 /\ stamp' = 0 /\ found' = {}
        /\ cancel' = FALSE /\ heard' = FALSE /\ doc' \in Doc /\ ended' = [ended EXCEPT ![run] = "returned"]
    BY DocAssumption DEF ListCandidates, End, Forget, NoDoc
  <1>2. /\ run \in Runs /\ ended' \in [Runs -> Outcome]
        /\ \A n \in Runs : n # run => ended'[n] = ended[n]
    BY <1>1 DEF Locals, CorrectionTypeOK, Outcome
  <1>3. /\ payloads' \subseteq (Artifact \cup PipelineArtifact) \X Runs
        /\ payloads \subseteq payloads' /\ \A p \in payloads' : p[2] <= run
        /\ \A n \in Runs : <<"candidates", n>> \in payloads' => <<"candidates", n>> \in payloads \/ n = run
        /\ \A n \in Runs : <<"v4", n>> \in payloads' => <<"v4", n>> \in payloads
    BY <1>1, <1>2 DEF CorrectionTypeOK, Numbered, Artifact
  <1>4. CorrectionTypeOK'
    <2>1. closure' \in 0..MaxRuns /\ stamp' \in Nat /\ found' \subseteq Frame \X Frame /\ verdict' \in Verdict
      BY <1>1 DEF Verdict
    <2>2. cancel' \in BOOLEAN
      BY <1>1
    <2> QED
      BY <1>1, <1>2, <1>3, <2>1, <2>2, Zenon DEF CorrectionTypeOK
  <1>5. Locals' /\ KnownClosure' /\ Gathered'
    BY <1>1, <1>2 DEF Locals, KnownClosure, Gathered, CorrectionTypeOK, CorrectionSteps, MetricSteps, PipelineSteps
  <1>6. Numbered'
    BY <1>1, <1>3 DEF Numbered, Now
  <1>7. Detected'
    <2>1. Recorded(run) \in DetectableLists
      BY <1>1 DEF Detected
    <2> QED
      BY <1>1, <1>3, <2>1 DEF Detected, Recorded
  <1>8. Chains'
    BY <1>1, <1>2 DEF Chains, Locals, ChainSoFar, RevisionSteps, CorrectionTypeOK, ReconstructionRow
  <1>9. ChainSoFar'
    BY <1>1 DEF ChainSoFar, MetricSteps
  <1>10. HandedOn'
    BY <1>1, <1>2, <1>3 DEF HandedOn, Numbered
  <1> QED
    BY <1>1, <1>3, <1>4, <1>5, <1>6, <1>7, <1>8, <1>9, <1>10, EvidenceStays

\* The row of the closure again: nothing that rests on it changes.
LEMMA UpsertClosureKeeps ==
    ASSUME CorrectionInv, NEW given, NEW optimizer \in BOOLEAN, UpsertClosure(given, optimizer)
    PROVE  CorrectionInv'
  <1> USE CorrectionBounds DEF CorrectionInv
  <1> DEFINE new == [id |-> closure, trajectory |-> doc, verdict |-> verdict,
                     separated |-> TRUE, clock |-> stamp]
  <1>1. /\ pc = "upsert" /\ closures' = {c \in closures : c.id # new.id} \cup {new}
        /\ UNCHANGED <<revs, candidates, graphs, results, payloads, docs, run, crashes>>
    BY DEF UpsertClosure, UpsertLoopClosure, ReplaceRow
  <1>2. \/ /\ pc' = "graphDoc" /\ verdict = "metric" /\ UNCHANGED <<ended, cancel, localC>>
        \/ /\ pc' = "idle" /\ verdict' = "none" /\ closure' = 0 /\ stamp' = 0 /\ found' = {}
           /\ cancel' = FALSE /\ heard' = FALSE /\ doc' \in Doc /\ ended' = [ended EXCEPT ![run] = "returned"]
    BY DocAssumption DEF UpsertClosure, MetricEdge, Step, End, Forget, NoDoc
  <1>3. PICK old \in closures : /\ old.id = closure /\ old.trajectory = doc
                                /\ old.verdict = verdict /\ old.clock = stamp
    BY <1>1 DEF KnownClosure, PipelineSteps
  <1>4. old \in ClosureRow /\ run \in Runs
    BY <1>1 DEF CorrectionTypeOK, Locals
  <1>5. /\ new \in ClosureRow /\ new.id = old.id /\ new.trajectory = old.trajectory
        /\ new.verdict = old.verdict /\ new.clock = old.clock
    BY <1>3, <1>4 DEF ClosureRow
  <1> HIDE DEF new
  <1>6. \A c \in closures : \E d \in closures' : /\ d.id = c.id /\ d.trajectory = c.trajectory
                                                /\ d.verdict = c.verdict /\ d.clock = c.clock
    BY <1>1, <1>5 DEF ClosureKeys
  <1>7. \A d \in closures' : d \in ClosureRow /\ \E c \in closures : c.id = d.id
    BY <1>1, <1>5 DEF CorrectionTypeOK
  <1>8. /\ ended' \in [Runs -> Outcome] /\ \A n \in Runs : n # run => ended'[n] = ended[n]
        /\ pc' = "graphDoc" => ended' = ended
    BY <1>2, <1>4 DEF CorrectionTypeOK, Outcome
  <1>9. CorrectionTypeOK'
    <2>1. /\ closure' \in 0..MaxRuns /\ stamp' \in Nat /\ found' \subseteq Frame \X Frame
          /\ verdict' \in Verdict /\ doc' \in Doc
      BY <1>2 DEF Verdict, CorrectionTypeOK
    <2>2. cancel' \in BOOLEAN
      BY <1>2 DEF CorrectionTypeOK
    <2> QED
      BY <1>1, <1>2, <1>7, <1>8, <2>1, <2>2, Zenon DEF CorrectionTypeOK, CallSteps
  <1>10. Locals'
    BY <1>1, <1>2, <1>8 DEF Locals, CorrectionTypeOK, CorrectionSteps, MetricSteps, PipelineSteps
  <1>11. KnownClosure'
    BY <1>2, <1>3, <1>6 DEF KnownClosure, CorrectionSteps, PipelineSteps
  <1>12. Numbered'
    BY <1>1, <1>2, <1>7 DEF Numbered, Now
  <1>13. ClosureKeys'
    BY <1>1 DEF ClosureKeys
  <1>14. GraphEvidence' /\ ResultEvidence'
    <2>1. UNCHANGED <<graphs, results, payloads>>
      BY <1>1
    <2>2. ASSUME NEW g \in graphs
          PROVE  \E c \in closures' : /\ c.id = g.id[2] /\ c.verdict = "metric"
                                      /\ c.trajectory = g.trajectory
      <3>1. PICK c \in closures : /\ c.id = g.id[2] /\ c.verdict = "metric"
                                  /\ c.trajectory = g.trajectory
        BY DEF GraphEvidence
      <3> QED
        BY <1>6, <3>1
    <2>3. ASSUME NEW r \in results
          PROVE  \E c \in closures' : /\ c.id = r.id[2] /\ c.verdict = "metric"
                                      /\ c.trajectory = r.trajectory /\ c.clock = r.clock
      <3>1. PICK c \in closures : /\ c.id = r.id[2] /\ c.verdict = "metric"
                                  /\ c.trajectory = r.trajectory /\ c.clock = r.clock
        BY DEF ResultEvidence
      <3> QED
        BY <1>6, <3>1
    <2>4. GraphEvidence'
      BY <2>1, <2>2 DEF GraphEvidence
    <2>5. ResultEvidence'
      BY <2>1, <2>3 DEF ResultEvidence
    <2> QED
      BY <2>4, <2>5
  <1>15. Gathered' /\ Detected'
    BY <1>1, <1>2 DEF Gathered, Detected, Recorded, CorrectionSteps
  <1>16. HandedOn'
    BY <1>1, <1>4, <1>8 DEF HandedOn, Numbered
  <1>17. Chains' /\ ChainSoFar'
    <2>1. \A r \in revs : r.run # run /\ (r.kind = "v3" => r.run \in Runs)
      BY <1>1 DEF ChainSoFar, RevisionSteps, Numbered, CorrectionTypeOK, ReconstructionRow
    <2>2. Chains'
      BY <1>1, <1>8, <2>1 DEF Chains
    <2>3. ChainSoFar'
      BY <1>1, <1>2, <2>1 DEF ChainSoFar, MetricSteps, RevisionSteps
    <2> QED
      BY <2>2, <2>3
  <1>18. RevisionEvidence' /\ RevisionKeys' /\ Overtaken'
    BY <1>1, RevisionsStay
  <1> QED
    BY <1>9, <1>10, <1>11, <1>12, <1>13, <1>14, <1>15, <1>16, <1>17, <1>18

\* The payloads of the pipeline, named after the closure.
LEMMA PipelinePayloadsKeep ==
    ASSUME CorrectionInv, PutPipelineGraph \/ Solve PROVE CorrectionInv'
  <1> USE CorrectionBounds DEF CorrectionInv
  <1>1. PICK type \in PipelineArtifact :
           /\ payloads' = payloads \cup {<<type, closure>>}
           /\ UNCHANGED <<tablesC, docs, run, crashes, ended, cancel, localC>>
           /\ \/ type = "pipeline_graph" /\ pc = "graphDoc" /\ pc' = "graphRow"
              \/ type = "pipeline_result" /\ pc = "solve" /\ pc' = "resultRow"
    BY DEF PutPipelineGraph, Solve, WriteCasArtifact, Step, PipelineArtifact
  <1>2. run \in Runs /\ closure \in Runs /\ closure <= run
    <2>1. PICK c \in closures : c.id = closure
      BY <1>1 DEF KnownClosure, PipelineSteps
    <2> QED
      BY <1>1, <2>1 DEF Locals, CorrectionTypeOK, ClosureRow, Numbered
  <1>3. /\ payloads' \subseteq (Artifact \cup PipelineArtifact) \X Runs
        /\ payloads \subseteq payloads' /\ \A p \in payloads' : p[2] <= run
        /\ \A n \in Runs : /\ <<"v4", n>> \in payloads' => <<"v4", n>> \in payloads
                           /\ <<"candidates", n>> \in payloads' => <<"candidates", n>> \in payloads
    BY <1>1, <1>2 DEF CorrectionTypeOK, Numbered, PipelineArtifact
  <1>4. CorrectionTypeOK'
    BY <1>1, <1>3 DEF CorrectionTypeOK, CallSteps
  <1>5. Locals' /\ KnownClosure'
    BY <1>1 DEF Locals, KnownClosure, CorrectionSteps, MetricSteps, PipelineSteps, Now
  <1>6. Numbered'
    BY <1>1, <1>2, <1>3 DEF Numbered, Now
  <1>7. Gathered'
    BY <1>1 DEF Gathered, CorrectionSteps
  <1>8. Detected' /\ HandedOn'
    BY <1>1, <1>3 DEF Detected, HandedOn, Recorded
  <1>9. Chains' /\ ChainSoFar'
    BY <1>1 DEF Chains, ChainSoFar, MetricSteps, RevisionSteps
  <1> QED
    BY <1>1, <1>3, <1>4, <1>5, <1>6, <1>7, <1>8, <1>9, EvidenceStays

\* The graph of the pipeline, in the place of an earlier one.
LEMMA UpsertGraphKeeps == ASSUME CorrectionInv, UpsertGraph PROVE CorrectionInv'
  <1> USE CorrectionBounds DEF CorrectionInv
  <1> DEFINE new == [id |-> <<"pipeline", closure>>, trajectory |-> doc, clock |-> TrajectoryClock]
  <1>1. /\ pc = "graphRow" /\ pc' = "solve"
        /\ graphs' = {g \in graphs : g.id # new.id} \cup {new}
        /\ UNCHANGED <<revs, candidates, closures, results, payloads, docs, run, crashes, ended,
                       cancel, localC>>
    BY DEF UpsertGraph, UpsertPoseGraph, ReplaceRow, Step
  <1>2. PICK c \in closures : /\ c.id = closure /\ c.trajectory = doc
                              /\ c.verdict = verdict /\ c.clock = stamp
    BY <1>1 DEF KnownClosure, PipelineSteps
  <1>3. verdict = "metric" /\ closure \in Runs /\ doc \in Doc /\ run \in Runs
    BY <1>1, <1>2 DEF Locals, CorrectionTypeOK, ClosureRow, PipelineSteps
  <1>4. /\ new \in GraphRow /\ new.trajectory = doc
        /\ new.id = <<"pipeline", closure>> /\ new.id[1] = "pipeline" /\ new.id[2] = closure
    BY <1>3 DEF GraphRow, GraphId, Producer, TrajectoryClock
  <1> HIDE DEF new
  <1>5. CorrectionTypeOK'
    BY <1>1, <1>4 DEF CorrectionTypeOK, CallSteps
  <1>6. Locals' /\ KnownClosure'
    BY <1>1 DEF Locals, KnownClosure, CorrectionSteps, MetricSteps, PipelineSteps, Now
  <1>7. Numbered'
    BY <1>1 DEF Numbered, Now
  <1>8. ClosureKeys'
    BY <1>1 DEF ClosureKeys
  <1>9. GraphEvidence'
    <2> SUFFICES ASSUME NEW g \in graphs'
                 PROVE  /\ \E k \in closures : /\ k.id = g.id[2] /\ k.verdict = "metric"
                                               /\ k.trajectory = g.trajectory
                        /\ g.id[1] = "runner" => <<"loop_closure", g.id[2]>> \in payloads
                        /\ g.id[1] = "pipeline" => <<"pipeline_graph", g.id[2]>> \in payloads
      BY <1>1 DEF GraphEvidence
    <2>1. CASE g \in graphs
      BY <2>1 DEF GraphEvidence
    <2>2. CASE g = new
      <3>1. <<"pipeline_graph", closure>> \in payloads
        BY <1>1 DEF Gathered
      <3> QED
        BY <1>2, <1>3, <1>4, <2>2, <3>1
    <2> QED
      BY <1>1, <2>1, <2>2
  <1>10. ResultEvidence'
    <2>1. ASSUME NEW r \in results PROVE \E g \in graphs' : g.id = r.id
      <3>1. PICK g \in graphs : g.id = r.id
        BY DEF ResultEvidence
      <3> QED
        BY <1>1, <3>1
    <2> QED
      BY <1>1, <2>1 DEF ResultEvidence
  <1>11. Gathered'
    BY <1>1, <1>4 DEF Gathered, CorrectionSteps
  <1>12. Detected' /\ HandedOn'
    BY <1>1 DEF Detected, HandedOn, Recorded
  <1>13. Chains' /\ ChainSoFar'
    BY <1>1 DEF Chains, ChainSoFar, MetricSteps, RevisionSteps
  <1>14. RevisionEvidence' /\ RevisionKeys' /\ Overtaken'
    BY <1>1, RevisionsStay
  <1> QED
    BY <1>5, <1>6, <1>7, <1>8, <1>9, <1>10, <1>11, <1>12, <1>13, <1>14

\* The result of the pipeline, whatever its status, and the end of the call.
LEMMA UpsertResultKeeps ==
    ASSUME CorrectionInv, NEW status \in SolverStatuses, UpsertResult(status)
    PROVE  CorrectionInv'
  <1> USE CorrectionBounds DEF CorrectionInv
  <1> DEFINE new == [id |-> <<"pipeline", closure>>, trajectory |-> doc,
                     status |-> status, clock |-> stamp]
  <1>1. /\ pc = "resultRow" /\ results' = {r \in results : r.id # new.id} \cup {new}
        /\ UNCHANGED <<revs, candidates, closures, graphs, payloads, docs, run, crashes>>
        /\ pc' = "idle" /\ verdict' = "none" /\ closure' = 0 /\ stamp' = 0 /\ found' = {}
        /\ cancel' = FALSE /\ heard' = FALSE /\ doc' \in Doc /\ ended' = [ended EXCEPT ![run] = "returned"]
    BY DocAssumption DEF UpsertResult, UpsertOptimizationResult, ReplaceRow, End, Forget, NoDoc
  <1>2. PICK c \in closures : /\ c.id = closure /\ c.trajectory = doc
                              /\ c.verdict = verdict /\ c.clock = stamp
    BY <1>1 DEF KnownClosure, PipelineSteps
  <1>3. verdict = "metric" /\ closure \in Runs /\ doc \in Doc /\ run \in Runs /\ stamp \in Nat
    BY <1>1, <1>2 DEF Locals, CorrectionTypeOK, ClosureRow, PipelineSteps
  <1>4. /\ new \in ResultRow /\ new.trajectory = doc /\ new.clock = stamp
        /\ new.id = <<"pipeline", closure>> /\ new.id[1] = "pipeline" /\ new.id[2] = closure
    BY <1>3, StatusesKnown DEF ResultRow, GraphId, Producer
  <1> HIDE DEF new
  <1>5. /\ ended' \in [Runs -> Outcome] /\ \A n \in Runs : n # run => ended'[n] = ended[n]
    BY <1>1, <1>3 DEF CorrectionTypeOK, Outcome
  <1>6. CorrectionTypeOK'
    <2>1. /\ closure' \in 0..MaxRuns /\ stamp' \in Nat /\ found' \subseteq Frame \X Frame
          /\ verdict' \in Verdict /\ results' \subseteq ResultRow
      BY <1>1, <1>4 DEF Verdict, CorrectionTypeOK
    <2>2. cancel' \in BOOLEAN
      BY <1>1
    <2> QED
      BY <1>1, <1>5, <2>1, <2>2, Zenon DEF CorrectionTypeOK
  <1>7. Locals' /\ KnownClosure' /\ Gathered'
    BY <1>1, <1>3, <1>5 DEF Locals, KnownClosure, Gathered, CorrectionTypeOK, CorrectionSteps, MetricSteps, PipelineSteps
  <1>8. Numbered'
    BY <1>1 DEF Numbered, Now
  <1>9. ClosureKeys' /\ GraphEvidence'
    BY <1>1 DEF ClosureKeys, GraphEvidence
  <1>10. ResultEvidence'
    <2> SUFFICES ASSUME NEW r \in results'
                 PROVE  /\ \E g \in graphs : g.id = r.id
                        /\ \E k \in closures : /\ k.id = r.id[2] /\ k.verdict = "metric"
                                               /\ k.trajectory = r.trajectory /\ k.clock = r.clock
                        /\ r.id[1] = "runner" => r.status = "converged" /\ <<"pose_graph", r.id[2]>> \in payloads
                        /\ r.id[1] = "pipeline" => <<"pipeline_result", r.id[2]>> \in payloads
      BY <1>1 DEF ResultEvidence
    <2>1. CASE r \in results
      BY <2>1 DEF ResultEvidence
    <2>2. CASE r = new
      <3>1. <<"pipeline_result", closure>> \in payloads /\ \E g \in graphs : g.id = <<"pipeline", closure>>
        BY <1>1 DEF Gathered
      <3> QED
        BY <1>2, <1>3, <1>4, <2>2, <3>1
    <2> QED
      BY <1>1, <2>1, <2>2
  <1>11. Detected'
    BY <1>1 DEF Detected, Recorded
  <1>12. HandedOn'
    BY <1>1, <1>3, <1>5 DEF HandedOn, Numbered
  <1>13. Chains' /\ ChainSoFar'
    <2>1. \A r \in revs : r.run # run /\ (r.kind = "v3" => r.run \in Runs)
      BY <1>1 DEF ChainSoFar, RevisionSteps, Numbered, CorrectionTypeOK, ReconstructionRow
    <2>2. Chains'
      BY <1>1, <1>5, <2>1 DEF Chains
    <2>3. ChainSoFar'
      BY <1>1 DEF ChainSoFar, MetricSteps
    <2> QED
      BY <2>2, <2>3
  <1>14. RevisionEvidence' /\ RevisionKeys' /\ Overtaken'
    <2>1. \A x \in results : \E y \in results' : y.id = x.id
      BY <1>1
    <2> QED
      BY <1>1, <2>1, RevisionsStay
  <1> QED
    BY <1>6, <1>7, <1>8, <1>9, <1>10, <1>11, <1>12, <1>13, <1>14

-----------------------------------------------------------------------------
(* The steps that write revisions. *)

\* A row that a segment adds.
LEMMA NewRowFields ==
    ASSUME CorrectionTypeOK, NEW k \in Kind, NEW t \in Nat
    PROVE  /\ NewRow(k, t) \in ReconstructionRow
           /\ NewRow(k, t).doc = doc /\ NewRow(k, t).kind = k /\ NewRow(k, t).clock = t
           /\ NewRow(k, t).status = "succeeded"
           /\ NewRow(k, t).run = IF k = "v1" THEN 0 ELSE run
  BY CorrectionBounds DEF NewRow, Key, ReconstructionRow, CorrectionTypeOK, Status

\* The identity of a row, field by field.
LEMMA KeyFields ==
    ASSUME NEW r, NEW k
    PROVE  KeyOf(r) = Key(k) <=> r.doc = doc /\ r.kind = k /\ r.run = (IF k = "v1" THEN 0 ELSE run)
  BY DEF KeyOf, Key

LEMMA RowOfKey ==
    ASSUME RevisionKeys, NEW k, NEW r \in revs, KeyOf(r) = Key(k)
    PROVE  RowOf(k) = r
  <1>1. RowOf(k) \in revs /\ KeyOf(RowOf(k)) = Key(k)
    BY DEF RowOf
  <1> QED
    BY <1>1, KeyFields DEF RevisionKeys

\* FindOrCreateScene and the commit of v1: the first row of the document.
LEMMA CommitKeeps == ASSUME CorrectionInv, Commit PROVE CorrectionInv'
  <1> USE CorrectionBounds DEF CorrectionInv
  <1> DEFINE new == NewRow("v1", docs[doc])
  <1>1. /\ pc = "scene" /\ revs' = revs \cup {new}
        /\ UNCHANGED <<evidence, payloads, docs, run, crashes>>
    BY DEF Commit, Insert
  <1>2. \/ pc' = "graph" /\ UNCHANGED <<ended, cancel, localC>>
        \/ /\ pc' = "idle" /\ verdict' = "none" /\ closure' = 0 /\ stamp' = 0 /\ found' = {}
           /\ cancel' = FALSE /\ heard' = FALSE /\ doc' \in Doc /\ ended' = [ended EXCEPT ![run] = "cancelled"]
    BY DocAssumption DEF Commit, Continue, End, Forget, NoDoc
  <1>3. /\ new \in ReconstructionRow /\ new.doc = doc /\ new.kind = "v1" /\ new.clock = docs[doc]
        /\ new.status = "succeeded" /\ new.run = 0
    BY NewRowFields DEF CorrectionTypeOK, Kind
  <1> HIDE DEF new
  <1>4. \A r \in revs : ~(r.doc = doc /\ r.kind = "v1")
    <2>1. \A r \in revs : r.kind = "v1" => r.run = 0
      BY DEF Numbered
    <2> QED
      BY <2>1, KeyFields DEF Commit, CanInsert, HasRow
  <1>5. /\ run \in Runs /\ \A r \in revs : r.run # run
        /\ \A r \in revs : r.kind \in {"v3", "v4"} => r.run \in Runs
    BY <1>1 DEF Locals, ChainSoFar, RevisionSteps, Numbered, CorrectionTypeOK, ReconstructionRow
  <1>6. /\ ended' \in [Runs -> Outcome] /\ \A n \in Runs : n # run => ended'[n] = ended[n]
        /\ pc' = "graph" => ended' = ended
    BY <1>2, <1>5 DEF CorrectionTypeOK, Outcome
  <1>7. CorrectionTypeOK'
    <2>1. /\ closure' \in 0..MaxRuns /\ stamp' \in Nat /\ found' \subseteq Frame \X Frame
          /\ verdict' \in Verdict /\ doc' \in Doc
      BY <1>2 DEF Verdict, CorrectionTypeOK
    <2>2. cancel' \in BOOLEAN
      BY <1>2 DEF CorrectionTypeOK
    <2>3. revs' \subseteq ReconstructionRow
      BY <1>1, <1>3 DEF CorrectionTypeOK
    <2> QED
      BY <1>1, <1>2, <1>6, <2>1, <2>2, <2>3, Zenon DEF CorrectionTypeOK
  <1>8. Locals'
    BY <1>1, <1>2, <1>5, <1>6 DEF Locals, CorrectionTypeOK, CorrectionSteps, MetricSteps, PipelineSteps, Now
  <1>9. KnownClosure' /\ Gathered'
    BY <1>1, <1>2 DEF KnownClosure, Gathered, CorrectionSteps, PipelineSteps
  <1>10. Numbered'
    BY <1>1, <1>2, <1>3 DEF Numbered, Now, CorrectionTypeOK
  <1>11. ClosureKeys' /\ GraphEvidence' /\ ResultEvidence'
    BY <1>1 DEF ClosureKeys, GraphEvidence, ResultEvidence
  <1>12. RevisionEvidence' /\ RevisionKeys'
    BY <1>1, <1>3, <1>4 DEF RevisionEvidence, RevisionKeys
  <1>13. Overtaken'
    BY <1>1, <1>3 DEF Overtaken
  <1>14. Chains'
    <2>1. \A r \in revs : ~(r.kind = "v3" /\ r.doc = doc)
      BY <1>4 DEF Chains
    <2>2. \A r \in revs : r.kind = "v3" =>
             \A s \in revs : (s.doc = r.doc /\ s.kind = "v1") =>
                s.status = "superseded" \/ ended'[r.run] \in Unfinished
      BY <1>1, <1>5, <1>6 DEF Chains
    <2> QED
      BY <1>1, <1>3, <2>1, <2>2 DEF Chains
  <1>15. ChainSoFar'
    BY <1>1, <1>2, <1>3, <1>5 DEF ChainSoFar, MetricSteps, RevisionSteps
  <1>16. Detected'
    BY <1>1, <1>2 DEF Detected, Recorded
  <1>17. HandedOn'
    BY <1>1, <1>5, <1>6 DEF HandedOn, Numbered
  <1> QED
    BY <1>7, <1>8, <1>9, <1>10, <1>11, <1>12, <1>13, <1>14, <1>15, <1>16, <1>17

\* MaybeApplyOptimizedTrajectory: v2 beside v1, with the clock of the closure.
LEMMA ApplyKeeps ==
    ASSUME CorrectionInv, NEW given, ApplyTrajectory(given) PROVE CorrectionInv'
  <1> USE CorrectionBounds DEF CorrectionInv
  <1> DEFINE new == NewRow("v2", stamp)
  <1>1. /\ pc = "apply" /\ pc' = "applyPut" /\ revs' = revs \cup {new}
        /\ UNCHANGED <<evidence, payloads, docs, run, crashes, ended, cancel, localC>>
    BY DEF ApplyTrajectory, AppliedRow, Insert, Step
  <1>2. /\ new \in ReconstructionRow /\ new.doc = doc /\ new.kind = "v2" /\ new.clock = stamp
        /\ new.status = "succeeded" /\ new.run = run
    BY NewRowFields DEF CorrectionTypeOK, Kind
  <1> HIDE DEF new
  <1>3. run \in Runs /\ \A r \in revs : r.run # run
    BY <1>1 DEF Locals, ChainSoFar, RevisionSteps
  <1>4. CorrectionTypeOK'
    BY <1>1, <1>2 DEF CorrectionTypeOK
  <1>5. Locals' /\ KnownClosure'
    BY <1>1 DEF Locals, KnownClosure, CorrectionSteps, MetricSteps, PipelineSteps, Now
  <1>6. Numbered'
    BY <1>1, <1>2, <1>3 DEF Numbered, Now
  <1>7. ClosureKeys' /\ GraphEvidence' /\ ResultEvidence'
    BY <1>1 DEF ClosureKeys, GraphEvidence, ResultEvidence
  <1>8. RevisionEvidence'
    <2>1. /\ \E x \in results : x.id = <<"runner", run>>
          /\ <<"optimization_result", run>> \in payloads
      BY <1>1 DEF Gathered
    <2> QED
      BY <1>1, <1>2, <2>1 DEF RevisionEvidence
  <1>9. Gathered'
    BY <1>1 DEF Gathered, CorrectionSteps
  <1>10. RevisionKeys' /\ Overtaken'
    BY <1>1, <1>2, <1>3 DEF RevisionKeys, Overtaken
  <1>11. Chains'
    <2>1. \E r \in revs : r.doc = doc /\ r.kind = "v1"
      BY <1>1 DEF ChainSoFar, MetricSteps
    <2> QED
      BY <1>1, <1>2, <1>3, <2>1 DEF Chains
  <1>12. ChainSoFar'
    BY <1>1, <1>2, <1>3 DEF ChainSoFar, MetricSteps, RevisionSteps
  <1>13. Detected' /\ HandedOn'
    BY <1>1 DEF Detected, HandedOn, Recorded
  <1> QED
    BY <1>4, <1>5, <1>6, <1>7, <1>8, <1>9, <1>10, <1>11, <1>12, <1>13

\* What a transaction that adds a row and supersedes another one leaves in the table.
LEMMA RowsRewritten ==
    ASSUME CorrectionTypeOK, NEW k \in Kind, NEW new \in ReconstructionRow, KeyOf(new) # Key(k),
           revs' = Supersede(revs \cup {new}, k)
    PROVE  /\ revs' \subseteq ReconstructionRow
           /\ new \in revs' /\ \A r \in revs : Superseded(r, k) \in revs'
           /\ \A s \in revs' : s = new \/ \E r \in revs : s = Superseded(r, k)
  <1>1. revs \subseteq ReconstructionRow
    BY DEF CorrectionTypeOK
  <1>2. revs' = {Superseded(r, k) : r \in revs \cup {new}}
    BY SupersedeRows
  <1>3. Superseded(new, k) = new
    BY SupersededRow
  <1>4. \A r \in revs \cup {new} : Superseded(r, k) \in ReconstructionRow
    BY <1>1, SupersededRow
  <1> QED
    BY <1>2, <1>3, <1>4

\* MaybeRetriangulateAppliedRevision: v3 in, v2 superseded.
LEMMA RetriangulateKeeps ==
    ASSUME CorrectionInv, NEW given, Retriangulate(given) PROVE CorrectionInv'
  <1> USE CorrectionBounds DEF CorrectionInv
  <1> DEFINE new == NewRow("v3", stamp + 1)
             Sup(r) == Superseded(r, "v2")
  <1>1. /\ pc = "triangulate" /\ pc' = "pointsPut" /\ revs' = Supersede(revs \cup {new}, "v2")
        /\ UNCHANGED <<evidence, payloads, docs, run, crashes, ended, cancel, localC>>
    BY DEF Retriangulate, Insert, Step
  <1>2. /\ new \in ReconstructionRow /\ new.doc = doc /\ new.kind = "v3" /\ new.clock = stamp + 1
        /\ new.status = "succeeded" /\ new.run = run
    BY NewRowFields DEF CorrectionTypeOK, Kind
  <1> HIDE DEF new
  <1>3. /\ revs' \subseteq ReconstructionRow /\ new \in revs' /\ \A r \in revs : Sup(r) \in revs'
        /\ \A s \in revs' : s = new \/ \E r \in revs : s = Sup(r)
    <2>1. KeyOf(new) # Key("v2") /\ "v2" \in Kind
      BY <1>2, KeyFields DEF Kind
    <2> QED
      BY <1>1, <1>2, <2>1, RowsRewritten
  <1>4. /\ run \in Runs /\ stamp \in Nat
        /\ \A r \in revs : r.run = run => /\ r.doc = doc /\ r.kind = "v2" /\ r.clock = stamp
                                          /\ r.status = "succeeded"
    BY <1>1 DEF Locals, ChainSoFar, CorrectionTypeOK
  <1>5. \A r \in revs : /\ Sup(r).doc = r.doc /\ Sup(r).run = r.run /\ Sup(r).kind = r.kind
                        /\ Sup(r).clock = r.clock
                        /\ r.run = run => Sup(r).status = "superseded"
                        /\ r.run # run => Sup(r) = r
    <2> SUFFICES ASSUME NEW r \in revs
                 PROVE  /\ Sup(r).doc = r.doc /\ Sup(r).run = r.run /\ Sup(r).kind = r.kind
                        /\ Sup(r).clock = r.clock
                        /\ r.run = run => Sup(r).status = "superseded"
                        /\ r.run # run => Sup(r) = r
      OBVIOUS
    <2>1. r \in ReconstructionRow /\ (KeyOf(r) = Key("v2") <=> r.run = run)
      BY <1>4, KeyFields DEF CorrectionTypeOK
    <2> QED
      BY <2>1, SupersededRow DEF Kind
  <1> HIDE DEF Sup
  <1>6. CorrectionTypeOK'
    BY <1>1, <1>3 DEF CorrectionTypeOK
  <1>7. Locals' /\ KnownClosure'
    BY <1>1 DEF Locals, KnownClosure, CorrectionSteps, MetricSteps, PipelineSteps, Now
  <1>8. Numbered'
    <2>1. \A s \in revs' : /\ s.run <= run /\ (s.kind = "v1" => s.run = 0 /\ s.clock <= Now)
                           /\ s.kind # "v1" => s.run # 0
      BY <1>2, <1>3, <1>4, <1>5 DEF Numbered
    <2> QED
      BY <1>1, <2>1 DEF Numbered, Now
  <1>9. ClosureKeys' /\ GraphEvidence' /\ ResultEvidence'
    BY <1>1 DEF ClosureKeys, GraphEvidence, ResultEvidence
  <1>10. RevisionEvidence'
    <2>1. <<"v2", run>> \in payloads
      BY <1>1 DEF Gathered
    <2>2. \A s \in revs' : /\ s.kind = "v2" => /\ \E x \in results : x.id = <<"runner", s.run>>
                                              /\ <<"optimization_result", s.run>> \in payloads
                           /\ s.kind = "v3" => <<"v2", s.run>> \in payloads
                           /\ s.kind = "v4" => <<"v3", s.run>> \in payloads
      <3> SUFFICES ASSUME NEW s \in revs'
                   PROVE  /\ s.kind = "v2" => /\ \E x \in results : x.id = <<"runner", s.run>>
                                              /\ <<"optimization_result", s.run>> \in payloads
                          /\ s.kind = "v3" => <<"v2", s.run>> \in payloads
                          /\ s.kind = "v4" => <<"v3", s.run>> \in payloads
        OBVIOUS
      <3>1. CASE s = new
        BY <1>2, <2>1, <3>1
      <3>2. ASSUME NEW r \in revs, s = Sup(r) PROVE s.kind = r.kind /\ s.run = r.run
        BY <1>5, <3>2
      <3> QED
        BY <1>3, <3>1, <3>2 DEF RevisionEvidence
    <2> QED
      BY <1>1, <2>2 DEF RevisionEvidence
  <1>11. Gathered'
    BY <1>1 DEF Gathered, CorrectionSteps
  <1>12. RevisionKeys'
    BY <1>2, <1>3, <1>4, <1>5 DEF RevisionKeys
  <1>13. Overtaken'
    <2> SUFFICES ASSUME Backend = "gtsam", NEW s \in revs', s.status = "superseded"
                 PROVE  \E t \in revs' : s.clock < t.clock
      BY DEF Overtaken
    <2>1. PICK r \in revs : s = Sup(r)
      BY <1>2, <1>3
    <2>2. CASE r.run = run
      BY <1>2, <1>3, <1>4, <1>5, <2>1, <2>2
    <2>3. CASE r.run # run
      <3>1. PICK t \in revs : r.clock < t.clock
        BY <1>5, <2>1, <2>3 DEF Overtaken
      <3> QED
        BY <1>3, <1>5, <2>1, <3>1
    <2> QED
      BY <2>2, <2>3
  <1>14. Chains'
    <2>1. PICK v1 \in revs : v1.doc = doc /\ v1.kind = "v1"
      BY <1>1 DEF ChainSoFar, MetricSteps
    <2>2. \A s \in revs' : s.kind # "v1" => \E t \in revs' : t.kind = "v1" /\ t.doc = s.doc
      <3> SUFFICES ASSUME NEW s \in revs', s.kind # "v1" PROVE \E t \in revs' : t.kind = "v1" /\ t.doc = s.doc
        OBVIOUS
      <3>1. PICK t \in revs : t.kind = "v1" /\ t.doc = s.doc
        BY <1>2, <1>3, <1>5, <2>1 DEF Chains
      <3> QED
        BY <1>3, <1>5, <3>1
    <2>3. \A s \in revs' : s.kind = "v3" =>
            /\ \A t \in revs' : (t.run = s.run /\ t.kind = "v2") =>
                                   t.status = "superseded" /\ t.clock < s.clock
            /\ \A t \in revs' : (t.doc = s.doc /\ t.kind = "v1") =>
                  \/ t.status = "superseded"
                  \/ s.run = run' /\ pc' \in {"pointsPut", "compact"}
                  \/ ended'[s.run] \in Unfinished
      <3> SUFFICES ASSUME NEW s \in revs', s.kind = "v3", NEW t \in revs'
                   PROVE  /\ (t.run = s.run /\ t.kind = "v2") =>
                                t.status = "superseded" /\ t.clock < s.clock
                          /\ (t.doc = s.doc /\ t.kind = "v1") =>
                                \/ t.status = "superseded"
                                \/ s.run = run /\ pc' \in {"pointsPut", "compact"}
                                \/ ended[s.run] \in Unfinished
        BY <1>1
      <3>1. CASE s = new
        <4>1. s.run = run /\ s.clock = stamp + 1 /\ pc' = "pointsPut"
          BY <1>1, <1>2, <3>1
        <4>2. ASSUME t.run = run, t.kind = "v2" PROVE t.status = "superseded" /\ t.clock = stamp
          <5>1. PICK r \in revs : t = Sup(r)
            BY <1>2, <1>3, <4>2
          <5> QED
            BY <1>4, <1>5, <4>2, <5>1
        <4> QED
          BY <1>4, <4>1, <4>2
      <3>2. CASE s # new
        <4>1. s \in revs /\ s.run # run
          BY <1>3, <1>4, <1>5, <3>2
        <4>2. CASE t = new
          BY <1>2, <4>1, <4>2
        <4>3. CASE t # new
          <5>1. PICK r \in revs : t = Sup(r)
            BY <1>3, <4>3
          <5> QED
            BY <1>1, <1>5, <4>1, <5>1 DEF Chains
        <4> QED
          BY <4>2, <4>3
      <3> QED
        BY <3>1, <3>2
    <2>4. \A s \in revs' : s.kind = "v3" =>
            s.status = "succeeded" \/ \E t \in revs' : t.run = s.run /\ t.kind = "v4"
      <3> SUFFICES ASSUME NEW s \in revs', s.kind = "v3", s.status # "succeeded", s # new
                   PROVE  \E t \in revs' : t.run = s.run /\ t.kind = "v4"
        BY <1>2
      <3>1. s \in revs
        BY <1>3, <1>4, <1>5
      <3>2. PICK t \in revs : t.run = s.run /\ t.kind = "v4"
        BY <3>1 DEF Chains
      <3> QED
        BY <1>3, <1>5, <3>2
    <2>5. \A s \in revs' : s.kind = "v4" =>
            /\ s.status = "succeeded"
            /\ \E t \in revs' : t.run = s.run /\ t.kind = "v3"
            /\ \A t \in revs' : (t.run = s.run /\ t.kind = "v3") =>
                  t.status = "superseded" /\ (Backend = "gtsam" => t.clock < s.clock)
      <3> SUFFICES ASSUME NEW s \in revs', s.kind = "v4"
                   PROVE  /\ s.status = "succeeded"
                          /\ \E t \in revs' : t.run = s.run /\ t.kind = "v3"
                          /\ \A t \in revs' : (t.run = s.run /\ t.kind = "v3") =>
                                t.status = "superseded" /\ (Backend = "gtsam" => t.clock < s.clock)
        OBVIOUS
      <3>1. s \in revs /\ s.run # run
        BY <1>2, <1>3, <1>4, <1>5
      <3>2. PICK t \in revs : t.run = s.run /\ t.kind = "v3"
        BY <3>1 DEF Chains
      <3>3. \A u \in revs' : u.run = s.run => u \in revs
        BY <1>2, <1>3, <1>5, <3>1
      <3> QED
        BY <1>3, <1>5, <3>1, <3>2, <3>3 DEF Chains
    <2> QED
      BY <2>2, <2>3, <2>4, <2>5 DEF Chains
  <1>15. ChainSoFar'
    <2>1. PICK v1 \in revs : v1.doc = doc /\ v1.kind = "v1" /\ v1.status = "succeeded"
      BY <1>1 DEF ChainSoFar, MetricSteps
    <2>2. v1 \in revs'
      BY <1>3, <1>4, <1>5, <2>1
    <2>3. \A s \in revs' : s.run = run => s.doc = doc /\ s.kind \in {"v2", "v3"}
      BY <1>2, <1>3, <1>4, <1>5
    <2> QED
      BY <1>1, <1>2, <1>3, <2>1, <2>2, <2>3 DEF ChainSoFar, MetricSteps, RevisionSteps
  <1>16. Detected' /\ HandedOn'
    <2>1. \A n \in Runs : (\E r \in revs : r.run = n /\ r.kind = "v4") =>
                           \E s \in revs' : s.run = n /\ s.kind = "v4"
      BY <1>3, <1>5
    <2> QED
      BY <1>1, <2>1 DEF Detected, HandedOn, Recorded
  <1> QED
    BY <1>6, <1>7, <1>8, <1>9, <1>10, <1>11, <1>12, <1>13, <1>14, <1>15, <1>16

\* v1 is superseded once v3 is there.
LEMMA CompactKeeps == ASSUME CorrectionInv, CompactChain PROVE CorrectionInv'
  <1> USE CorrectionBounds DEF CorrectionInv
  <1> DEFINE Sup(r) == Superseded(r, "v1")
  <1>1. /\ pc = "compact" /\ pc' = "adjust" /\ revs' = {Sup(r) : r \in revs}
        /\ UNCHANGED <<evidence, payloads, docs, run, crashes, ended, cancel, localC>>
    BY SupersedeRows DEF CompactChain, Step
  <1>2. \A r \in revs : /\ Sup(r) \in ReconstructionRow
                        /\ Sup(r).doc = r.doc /\ Sup(r).run = r.run /\ Sup(r).kind = r.kind
                        /\ Sup(r).clock = r.clock
                        /\ (r.doc = doc /\ r.kind = "v1") => Sup(r).status = "superseded"
                        /\ ~(r.doc = doc /\ r.kind = "v1") => Sup(r) = r
    <2> SUFFICES ASSUME NEW r \in revs
                 PROVE  /\ Sup(r) \in ReconstructionRow
                        /\ Sup(r).doc = r.doc /\ Sup(r).run = r.run /\ Sup(r).kind = r.kind
                        /\ Sup(r).clock = r.clock
                        /\ (r.doc = doc /\ r.kind = "v1") => Sup(r).status = "superseded"
                        /\ ~(r.doc = doc /\ r.kind = "v1") => Sup(r) = r
      OBVIOUS
    <2>1. r \in ReconstructionRow /\ (KeyOf(r) = Key("v1") <=> r.doc = doc /\ r.kind = "v1")
      BY KeyFields DEF CorrectionTypeOK, Numbered
    <2> QED
      BY <2>1, SupersededRow DEF Kind
  <1>3. /\ \A r \in revs : Sup(r) \in revs'
        /\ \A s \in revs' : \E r \in revs : s = Sup(r)
    BY <1>1
  <1> HIDE DEF Sup
  <1>4. PICK v3 \in revs : v3.run = run /\ v3.kind = "v3" /\ v3.clock = stamp + 1
    BY <1>1 DEF ChainSoFar
  <1>5. /\ run \in Runs /\ stamp \in Nat /\ stamp = Now /\ v3 \in revs'
        /\ \A r \in revs : r.clock \in Nat /\ r.run \in Nat
    BY <1>1, <1>2, <1>3, <1>4
    DEF Locals, CorrectionTypeOK, ReconstructionRow, CorrectionSteps, MetricSteps
  <1>6. CorrectionTypeOK'
    BY <1>1, <1>2 DEF CorrectionTypeOK
  <1>7. Locals' /\ KnownClosure'
    BY <1>1 DEF Locals, KnownClosure, CorrectionSteps, MetricSteps, PipelineSteps, Now
  <1>8. Numbered'
    <2>1. \A s \in revs' : /\ s.run <= run /\ (s.kind = "v1" => s.run = 0 /\ s.clock <= Now)
                           /\ s.kind # "v1" => s.run # 0
      BY <1>2, <1>3 DEF Numbered
    <2> QED
      BY <1>1, <2>1 DEF Numbered, Now
  <1>9. ClosureKeys' /\ GraphEvidence' /\ ResultEvidence'
    BY <1>1 DEF ClosureKeys, GraphEvidence, ResultEvidence
  <1>10. RevisionEvidence'
    <2> SUFFICES ASSUME NEW s \in revs'
                 PROVE  /\ s.kind = "v2" => /\ \E x \in results : x.id = <<"runner", s.run>>
                                            /\ <<"optimization_result", s.run>> \in payloads
                        /\ s.kind = "v3" => <<"v2", s.run>> \in payloads
                        /\ s.kind = "v4" => <<"v3", s.run>> \in payloads
      BY <1>1 DEF RevisionEvidence
    <2>1. PICK r \in revs : r.kind = s.kind /\ r.run = s.run
      BY <1>2, <1>3
    <2> QED
      BY <2>1 DEF RevisionEvidence
  <1>11. Gathered'
    <2>1. <<"v3", run>> \in payloads
      BY <1>1 DEF Gathered
    <2>2. verdict # "none" => <<"loop_closure", run>> \in payloads
      BY <1>1 DEF Gathered, CorrectionSteps
    <2> QED
      BY <1>1, <2>1, <2>2 DEF Gathered, CorrectionSteps
  <1>12. RevisionKeys'
    BY <1>2, <1>3 DEF RevisionKeys
  <1>13. Overtaken'
    <2> SUFFICES ASSUME Backend = "gtsam", NEW s \in revs', s.status = "superseded"
                 PROVE  \E t \in revs' : s.clock < t.clock
      BY DEF Overtaken
    <2>1. PICK r \in revs : s = Sup(r)
      BY <1>3
    <2>2. CASE r.doc = doc /\ r.kind = "v1"
      BY <1>2, <1>4, <1>5, <2>1, <2>2 DEF Numbered
    <2>3. CASE ~(r.doc = doc /\ r.kind = "v1")
      <3>1. PICK t \in revs : r.clock < t.clock
        BY <1>2, <2>1, <2>3 DEF Overtaken
      <3> QED
        BY <1>2, <1>3, <2>1, <3>1
    <2> QED
      BY <2>2, <2>3
  <1>14. Chains'
    <2>1. \A s \in revs' : s.kind # "v1" => s \in revs
      BY <1>2, <1>3
    <2>2. \A s \in revs' : s.kind # "v1" => \E t \in revs' : t.kind = "v1" /\ t.doc = s.doc
      <3> SUFFICES ASSUME NEW s \in revs', s.kind # "v1" PROVE \E t \in revs' : t.kind = "v1" /\ t.doc = s.doc
        OBVIOUS
      <3>1. PICK t \in revs : t.kind = "v1" /\ t.doc = s.doc
        BY <2>1 DEF Chains
      <3> QED
        BY <1>2, <1>3, <3>1
    <2>3. \A s \in revs' : s.kind = "v3" =>
            /\ \A t \in revs' : (t.run = s.run /\ t.kind = "v2") =>
                                   t.status = "superseded" /\ t.clock < s.clock
            /\ \A t \in revs' : (t.doc = s.doc /\ t.kind = "v1") =>
                  t.status = "superseded" \/ ended'[s.run] \in Unfinished
      <3> SUFFICES ASSUME NEW s \in revs', s.kind = "v3", NEW t \in revs'
                   PROVE  /\ (t.run = s.run /\ t.kind = "v2") =>
                                t.status = "superseded" /\ t.clock < s.clock
                          /\ (t.doc = s.doc /\ t.kind = "v1") =>
                                t.status = "superseded" \/ ended[s.run] \in Unfinished
        BY <1>1
      <3>1. s \in revs
        BY <2>1
      <3>2. PICK r \in revs : t = Sup(r)
        BY <1>3
      <3>3. s.run = run => s.doc = doc
        BY <1>1, <3>1 DEF ChainSoFar
      <3> QED
        BY <1>1, <1>2, <2>1, <3>1, <3>2, <3>3 DEF Chains
    <2>4. \A s \in revs' : s.kind = "v3" =>
            s.status = "succeeded" \/ \E t \in revs' : t.run = s.run /\ t.kind = "v4"
      <3> SUFFICES ASSUME NEW s \in revs', s.kind = "v3", s.status # "succeeded"
                   PROVE  \E t \in revs' : t.run = s.run /\ t.kind = "v4"
        OBVIOUS
      <3>1. PICK t \in revs : t.run = s.run /\ t.kind = "v4"
        BY <2>1 DEF Chains
      <3> QED
        BY <1>2, <1>3, <3>1
    <2>5. \A s \in revs' : s.kind = "v4" =>
            /\ s.status = "succeeded"
            /\ \E t \in revs' : t.run = s.run /\ t.kind = "v3"
            /\ \A t \in revs' : (t.run = s.run /\ t.kind = "v3") =>
                  t.status = "superseded" /\ (Backend = "gtsam" => t.clock < s.clock)
      <3> SUFFICES ASSUME NEW s \in revs', s.kind = "v4"
                   PROVE  /\ s.status = "succeeded"
                          /\ \E t \in revs' : t.run = s.run /\ t.kind = "v3"
                          /\ \A t \in revs' : (t.run = s.run /\ t.kind = "v3") =>
                                t.status = "superseded" /\ (Backend = "gtsam" => t.clock < s.clock)
        OBVIOUS
      <3>1. PICK t \in revs : t.run = s.run /\ t.kind = "v3"
        BY <2>1 DEF Chains
      <3> QED
        BY <1>2, <1>3, <2>1, <3>1 DEF Chains
    <2> QED
      BY <2>2, <2>3, <2>4, <2>5 DEF Chains
  <1>15. ChainSoFar'
    <2>1. \A s \in revs' : s.run = run => s.doc = doc /\ s.kind \in {"v2", "v3"}
      BY <1>1, <1>2, <1>3 DEF ChainSoFar
    <2> QED
      BY <1>1, <1>4, <1>5, <2>1 DEF ChainSoFar, MetricSteps, RevisionSteps
  <1>16. Detected' /\ HandedOn'
    <2>1. \A n \in Runs : (\E r \in revs : r.run = n /\ r.kind = "v4") =>
                           \E s \in revs' : s.run = n /\ s.kind = "v4"
      BY <1>2, <1>3
    <2> QED
      BY <1>1, <2>1 DEF Detected, HandedOn, Recorded
  <1> QED
    BY <1>6, <1>7, <1>8, <1>9, <1>10, <1>11, <1>12, <1>13, <1>14, <1>15, <1>16

\* The bundle adjustment: v4 in and v3 superseded, in one transaction.
LEMMA AdjustKeeps == ASSUME CorrectionInv, Adjust PROVE CorrectionInv'
  <1> USE CorrectionBounds DEF CorrectionInv
  <1>1. PICK v3 \in revs : KeyOf(v3) = Key("v3")
    BY GateNeedsPoints DEF Adjust, HasRow
  <1>2. SourceKind = "v3" /\ RowOf("v3") = v3
    BY <1>1, RowOfKey DEF SourceKind, HasRow
  <1>3. /\ v3.doc = doc /\ v3.run = run /\ v3.kind = "v3" /\ v3 \in ReconstructionRow
    BY <1>1, KeyFields DEF CorrectionTypeOK
  <1> DEFINE new == NewRow("v4", BaClock(v3))
             Sup(r) == Superseded(r, "v3")
  <1>4. /\ pc = "adjust" /\ revs' = Supersede(revs \cup {new}, "v3")
        /\ UNCHANGED <<evidence, payloads, docs, run, crashes>>
    BY <1>2 DEF Adjust, Insert, AdjustedRow
  <1>5. \/ pc' = "emit" /\ UNCHANGED <<ended, cancel, localC>>
        \/ /\ pc' = "idle" /\ verdict' = "none" /\ closure' = 0 /\ stamp' = 0 /\ found' = {}
           /\ cancel' = FALSE /\ heard' = FALSE /\ doc' \in Doc /\ ended' = [ended EXCEPT ![run] = "cancelled"]
    BY DocAssumption DEF Adjust, Continue, End, Forget, NoDoc
  <1>6. /\ new \in ReconstructionRow /\ new.doc = doc /\ new.kind = "v4"
        /\ new.status = "succeeded" /\ new.run = run
        /\ Backend = "gtsam" => v3.clock < new.clock
    <2>1. BaClock(v3) \in Nat /\ (Backend = "gtsam" => v3.clock < BaClock(v3))
      BY <1>3 DEF BaClock, ReconstructionRow
    <2> QED
      BY <2>1, NewRowFields DEF Kind
  <1> HIDE DEF new
  <1>7. /\ revs' \subseteq ReconstructionRow /\ new \in revs' /\ \A r \in revs : Sup(r) \in revs'
        /\ \A s \in revs' : s = new \/ \E r \in revs : s = Sup(r)
    <2>1. KeyOf(new) # Key("v3") /\ "v3" \in Kind
      BY <1>6, KeyFields DEF Kind
    <2> QED
      BY <1>4, <1>6, <2>1, RowsRewritten
  <1>8. /\ run \in Runs
        /\ \A r \in revs : r.run = run => r.doc = doc /\ r.kind \in {"v2", "v3"}
        /\ \A r \in revs : (r.run = run /\ r.kind = "v3") => r = v3
        /\ \A r \in revs : r.clock \in Nat
    BY <1>3, <1>4 DEF Locals, ChainSoFar, RevisionKeys, CorrectionTypeOK, ReconstructionRow
  <1>9. \A r \in revs : /\ Sup(r).doc = r.doc /\ Sup(r).run = r.run /\ Sup(r).kind = r.kind
                        /\ Sup(r).clock = r.clock
                        /\ r = v3 => Sup(r).status = "superseded"
                        /\ r # v3 => Sup(r) = r
    <2> SUFFICES ASSUME NEW r \in revs
                 PROVE  /\ Sup(r).doc = r.doc /\ Sup(r).run = r.run /\ Sup(r).kind = r.kind
                        /\ Sup(r).clock = r.clock
                        /\ r = v3 => Sup(r).status = "superseded"
                        /\ r # v3 => Sup(r) = r
      OBVIOUS
    <2>1. r \in ReconstructionRow /\ (KeyOf(r) = Key("v3") <=> r = v3)
      BY <1>3, <1>8, KeyFields DEF CorrectionTypeOK
    <2> QED
      BY <2>1, SupersededRow DEF Kind
  <1> HIDE DEF Sup
  <1>10. \A s \in revs' : \/ s = new
                          \/ s = Sup(v3) /\ s.doc = doc /\ s.run = run /\ s.kind = "v3"
                             /\ s.status = "superseded" /\ s.clock = v3.clock
                          \/ s \in revs /\ s # v3
    BY <1>3, <1>7, <1>9
  <1>11. /\ ended' \in [Runs -> Outcome] /\ \A n \in Runs : n # run => ended'[n] = ended[n]
         /\ pc' = "emit" => ended' = ended
    BY <1>5, <1>8 DEF CorrectionTypeOK, Outcome
  <1>12. CorrectionTypeOK'
    <2>1. /\ closure' \in 0..MaxRuns /\ stamp' \in Nat /\ found' \subseteq Frame \X Frame
          /\ verdict' \in Verdict /\ doc' \in Doc
      BY <1>5 DEF Verdict, CorrectionTypeOK
    <2>2. cancel' \in BOOLEAN
      BY <1>5 DEF CorrectionTypeOK
    <2> QED
      BY <1>4, <1>5, <1>7, <1>11, <2>1, <2>2, Zenon DEF CorrectionTypeOK
  <1>13. Locals' /\ KnownClosure'
    <2>1. Locals'
      BY <1>4, <1>5, <1>8, <1>11 DEF Locals, CorrectionTypeOK, CorrectionSteps, MetricSteps, PipelineSteps, Now
    <2>2. KnownClosure'
      BY <1>4, <1>5 DEF KnownClosure, CorrectionSteps, PipelineSteps
    <2> QED
      BY <2>1, <2>2
  <1>14. Numbered'
    <2>1. \A s \in revs' : /\ s.run <= run /\ (s.kind = "v1" => s.run = 0 /\ s.clock <= Now)
                           /\ s.kind # "v1" => s.run # 0
      BY <1>6, <1>8, <1>10 DEF Numbered
    <2> QED
      BY <1>4, <1>5, <2>1 DEF Numbered, Now
  <1>15. ClosureKeys' /\ GraphEvidence' /\ ResultEvidence'
    BY <1>4 DEF ClosureKeys, GraphEvidence, ResultEvidence
  <1>16. RevisionEvidence'
    <2> SUFFICES ASSUME NEW s \in revs'
                 PROVE  /\ s.kind = "v2" => /\ \E x \in results : x.id = <<"runner", s.run>>
                                            /\ <<"optimization_result", s.run>> \in payloads
                        /\ s.kind = "v3" => <<"v2", s.run>> \in payloads
                        /\ s.kind = "v4" => <<"v3", s.run>> \in payloads
      BY <1>4 DEF RevisionEvidence
    <2>1. CASE s = new
      BY <1>3, <1>4, <1>6, <2>1 DEF Gathered
    <2>2. CASE s # new
      <3>1. PICK r \in revs : r.kind = s.kind /\ r.run = s.run
        BY <1>7, <1>9, <2>2
      <3> QED
        BY <3>1 DEF RevisionEvidence
    <2> QED
      BY <2>1, <2>2
  <1>17. Gathered'
    BY <1>4, <1>5 DEF Gathered, CorrectionSteps
  <1>18. RevisionKeys'
    BY <1>3, <1>6, <1>8, <1>10 DEF RevisionKeys
  <1>19. Overtaken'
    <2> SUFFICES ASSUME Backend = "gtsam", NEW s \in revs', s.status = "superseded"
                 PROVE  \E t \in revs' : s.clock < t.clock
      BY DEF Overtaken
    <2>1. CASE s \in revs
      <3>1. PICK t \in revs : s.clock < t.clock
        BY <2>1 DEF Overtaken
      <3> QED
        BY <1>7, <1>9, <3>1
    <2>2. CASE s \notin revs
      BY <1>6, <1>7, <1>10, <2>2
    <2> QED
      BY <2>1, <2>2
  <1>20. Chains'
    <2>1. \A s \in revs' : s.kind # "v1" => \E t \in revs' : t.kind = "v1" /\ t.doc = s.doc
      <3> SUFFICES ASSUME NEW s \in revs', s.kind # "v1" PROVE \E t \in revs' : t.kind = "v1" /\ t.doc = s.doc
        OBVIOUS
      <3>1. PICK t \in revs : t.kind = "v1" /\ t.doc = s.doc
        BY <1>3, <1>6, <1>10 DEF Chains
      <3> QED
        BY <1>7, <1>9, <3>1
    <2>2. \A s \in revs' : s.kind = "v3" =>
            /\ \A t \in revs' : (t.run = s.run /\ t.kind = "v2") =>
                                   t.status = "superseded" /\ t.clock < s.clock
            /\ \A t \in revs' : (t.doc = s.doc /\ t.kind = "v1") =>
                  t.status = "superseded" \/ ended'[s.run] \in Unfinished
      <3> SUFFICES ASSUME NEW s \in revs', s.kind = "v3", NEW t \in revs', t.kind \in {"v1", "v2"}
                   PROVE  /\ (t.run = s.run /\ t.kind = "v2") =>
                                t.status = "superseded" /\ t.clock < s.clock
                          /\ (t.doc = s.doc /\ t.kind = "v1") =>
                                t.status = "superseded" \/ ended'[s.run] \in Unfinished
        OBVIOUS
      <3>1. t \in revs
        BY <1>6, <1>10
      <3>2. CASE s \in revs /\ s # v3
        <4>1. s.run # run /\ s.run \in Runs
          BY <1>8, <3>2 DEF Numbered, CorrectionTypeOK, ReconstructionRow
        <4> QED
          BY <1>4, <1>11, <3>1, <3>2, <4>1 DEF Chains
      <3>3. CASE ~(s \in revs /\ s # v3)
        <4>1. s.doc = v3.doc /\ s.run = v3.run /\ s.clock = v3.clock
          BY <1>3, <1>6, <1>10, <3>3
        <4>2. ended[v3.run] = "none"
          BY <1>3, <1>4, <1>8 DEF Locals
        <4> QED
          BY <1>3, <1>4, <3>1, <4>1, <4>2 DEF Chains, Unfinished
      <3> QED
        BY <3>2, <3>3
    <2>3. \A s \in revs' : s.kind = "v3" =>
            s.status = "succeeded" \/ \E t \in revs' : t.run = s.run /\ t.kind = "v4"
      <3> SUFFICES ASSUME NEW s \in revs', s.kind = "v3", s.status # "succeeded"
                   PROVE  \E t \in revs' : t.run = s.run /\ t.kind = "v4"
        OBVIOUS
      <3>1. CASE s.run = run
        BY <1>6, <1>7, <3>1
      <3>2. CASE s.run # run
        <4>1. PICK t \in revs : t.run = s.run /\ t.kind = "v4"
          BY <1>6, <1>10, <3>2 DEF Chains
        <4> QED
          BY <1>7, <1>9, <4>1
      <3> QED
        BY <3>1, <3>2
    <2>4. \A s \in revs' : s.kind = "v4" =>
            /\ s.status = "succeeded"
            /\ \E t \in revs' : t.run = s.run /\ t.kind = "v3"
            /\ \A t \in revs' : (t.run = s.run /\ t.kind = "v3") =>
                  t.status = "superseded" /\ (Backend = "gtsam" => t.clock < s.clock)
      <3> SUFFICES ASSUME NEW s \in revs', s.kind = "v4"
                   PROVE  /\ s.status = "succeeded"
                          /\ \E t \in revs' : t.run = s.run /\ t.kind = "v3"
                          /\ \A t \in revs' : (t.run = s.run /\ t.kind = "v3") =>
                                t.status = "superseded" /\ (Backend = "gtsam" => t.clock < s.clock)
        OBVIOUS
      <3>1. CASE s = new
        BY <1>3, <1>6, <1>7, <1>8, <1>9, <1>10, <3>1
      <3>2. CASE s # new
        <4>1. s \in revs /\ s.run # run
          BY <1>8, <1>10, <3>2
        <4>2. PICK t \in revs : t.run = s.run /\ t.kind = "v3"
          BY <4>1 DEF Chains
        <4>3. \A u \in revs' : u.run = s.run => u \in revs
          BY <1>6, <1>10, <4>1
        <4> QED
          BY <1>7, <1>9, <4>1, <4>2, <4>3 DEF Chains
      <3> QED
        BY <3>1, <3>2
    <2> QED
      BY <2>1, <2>2, <2>3, <2>4 DEF Chains
  <1>21. ChainSoFar'
    <2>1. \A s \in revs' : s.run = run => s.doc = doc
      BY <1>6, <1>8, <1>10
    <2> QED
      BY <1>4, <1>5, <1>6, <1>7, <2>1 DEF ChainSoFar, MetricSteps, RevisionSteps
  <1>22. Detected' /\ HandedOn'
    <2>1. \A n \in Runs : (\E r \in revs : r.run = n /\ r.kind = "v4") =>
                           \E s \in revs' : s.run = n /\ s.kind = "v4"
      BY <1>7, <1>9
    <2>2. Detected'
      BY <1>4, <1>5 DEF Detected, Recorded
    <2>3. \A n \in Runs : <<"v4", n>> \in payloads => n # run
      BY <1>4 DEF Numbered
    <2>4. HandedOn'
      BY <1>4, <1>11, <2>1, <2>3 DEF HandedOn
    <2> QED
      BY <2>2, <2>4
  <1> QED
    BY <1>12, <1>13, <1>14, <1>15, <1>16, <1>17, <1>18, <1>19, <1>20, <1>21, <1>22

\* Every step of the two tasks and of the two calls.
LEMMA StepPreserves == ASSUME CorrectionInv, [CorrectionNext]_corrVars PROVE CorrectionInv'
  <1>1. CASE UNCHANGED corrVars
    <2>1. CorrectionTypeOK' /\ Locals' /\ KnownClosure'
      BY <1>1, SMTT(30) DEF CorrectionInv, CorrectionTypeOK, Locals, KnownClosure, Now
    <2>3. Numbered' /\ Gathered'
      BY <1>1 DEF CorrectionInv, Numbered, Gathered, Now
    <2>2. Detected' /\ Chains' /\ ChainSoFar' /\ HandedOn'
      BY <1>1 DEF CorrectionInv, Detected, Recorded, Chains, ChainSoFar, HandedOn
    <2> QED
      BY <1>1, <2>1, <2>2, <2>3, EvidenceStays DEF CorrectionInv
  <1>2. CASE Reconstruct \/ Throws \/ Cancel \/ Crash
    BY <1>2, WaitingKeeps, WorkerProducedKeeps, EndsKeep, MovesKeep DEF Reconstruct
  <1>3. CASE Correct
    <2>1. CASE Verify \/ BuildGraph \/ Optimize \/ Apply \/ Triangulate
      BY <2>1, EndsKeep, MovesKeep, VerifyKeeps, PersistKeeps, RecordKeeps, ApplyKeeps,
         RetriangulateKeeps
      DEF Verify, BuildGraph, Optimize, Apply, Triangulate
    <2>2. CASE \/ (\E given \in Inputs(ObservationItems) : ObservationsMissing(given))
               \/ (\E given \in Inputs(BackendItems) : BackendFails(given))
      BY <2>2, EndsKeep DEF ObservationsMissing, BackendFails
    <2> QED
      BY <1>3, <2>1, <2>2, EndsKeep, MovesKeep, PayloadsKeep, CommitKeeps, CompactKeeps, AdjustKeeps, ProduceKeeps
      DEF Correct
  <1>4. CASE Detect \/ OptimizeClosure
    BY <1>4, RecordCandidateKeeps, ListCandidatesKeeps, UpsertClosureKeeps,
       PipelinePayloadsKeep, UpsertGraphKeeps, UpsertResultKeeps
    DEF Detect, OptimizeClosure
  <1> QED
    BY <1>1, <1>2, <1>3, <1>4, StartsKeep DEF CorrectionNext

-----------------------------------------------------------------------------
(* The theorems. *)

\* The inductive invariant, whichever optimizer was injected.
THEOREM CorrectionInvariance == CorrectionSpec => []CorrectionInv
  BY InitEstablishes, StepPreserves, PTL DEF CorrectionSpec

\* A revision that was there stays, as it was or superseded.
LEMMA RewriteAppends ==
    ASSUME CorrectionInv, NEW k \in Kind, CanSupersede(k),
           \A r \in revs : Superseded(r, k) \in revs'
    PROVE  \A r \in revs : \/ r \in revs'
                           \/ /\ r.status = "succeeded"
                              /\ [r EXCEPT !.status = "superseded"] \in revs'
  <1> SUFFICES ASSUME NEW r \in revs, r \notin revs'
               PROVE  r.status = "succeeded" /\ [r EXCEPT !.status = "superseded"] \in revs'
    OBVIOUS
  <1>1. KeyOf(r) = Key(k)
    BY SupersededRow DEF CorrectionInv, CorrectionTypeOK
  <1>2. RowOf(k) = r
    BY <1>1, RowOfKey DEF CorrectionInv
  <1>3. Superseded(r, k) = [r EXCEPT !.status = "superseded"]
    BY <1>1 DEF Superseded
  <1> QED
    BY <1>2, <1>3 DEF CanSupersede

\* HistoryAppendOnly: no step of a correction, of a second correction of the same
\* document or of the two calls takes a revision back, and none supersedes a
\* revision twice.
THEOREM SpecAppendsOnly == CorrectionSpec => HistoryAppendOnly
  <1> DEFINE Appends == \A r \in revs : r \in revs' \/ (r.status = "succeeded"
                                        /\ [r EXCEPT !.status = "superseded"] \in revs')
  <1>1. ASSUME CorrectionInv, [CorrectionNext]_corrVars PROVE [Appends]_corrVars
    <2> SUFFICES ASSUME CorrectionNext PROVE Appends
      BY <1>1
    <2>1. CASE Commit \/ \E given : ApplyTrajectory(given)
      BY <2>1 DEF Commit, ApplyTrajectory, Insert
    <2>2. CASE \E given : Retriangulate(given)
      <3>1. CanSupersede("v2") /\ revs' = Supersede(Insert(revs, NewRow("v3", stamp + 1)), "v2")
        BY <2>2 DEF Retriangulate
      <3>2. \A r \in revs : Superseded(r, "v2") \in revs'
        BY <3>1, SupersedeRows DEF Insert
      <3> QED
        BY <1>1, <3>1, <3>2, RewriteAppends DEF Kind
    <2>3. CASE CompactChain
      <3>1. CanSupersede("v1") /\ \A r \in revs : Superseded(r, "v1") \in revs'
        BY <2>3, SupersedeRows DEF CompactChain
      <3> QED
        BY <1>1, <3>1, RewriteAppends DEF Kind
    <2>4. CASE Adjust
      <3>1. CanSupersede(SourceKind) /\ SourceKind \in Kind
        BY <2>4 DEF Adjust, SourceKind, Kind
      <3>2. \A r \in revs : Superseded(r, SourceKind) \in revs'
        BY <2>4, SupersedeRows DEF Adjust, Insert
      <3> QED
        BY <1>1, <3>1, <3>2, RewriteAppends
    <2>5. CASE UNCHANGED revs
      BY <2>5
    <2>6. \/ UNCHANGED revs \/ Commit \/ (\E given : ApplyTrajectory(given))
          \/ (\E given : Retriangulate(given)) \/ CompactChain \/ Adjust
      <3>1. CASE Correct
        BY <3>1
        DEF Correct, SkipVerification, Verify, VerifyLoopClosure, Refuse, PutLoopClosure, PutPayload,
            CommitClashes, BuildGraph, PersistPoseGraph, NoPoseGraph, PutPoseGraph, Optimize, RecordOptimization,
            PutOptimization, Apply, PutApplied, Triangulate, NothingToTriangulate, PutPoints,
            ObservationsMissing, BackendFails, GateRejects, Produce
      <3>2. CASE Reconstruct \/ Detect \/ OptimizeClosure \/ Throws \/ Cancel \/ Crash
        BY <3>2
        DEF Reconstruct, WorkerReports, WaitAgain, WorkerProduced, WorkerCompleted, WorkerCancelled, WorkerFailed, WorkerSilent,
            Detect, RecordCandidate, ListCandidates, OptimizeClosure, UpsertClosure,
            PutPipelineGraph, Solve, WriteCasArtifact, UpsertGraph, UpsertResult, Throws, Cancel, Crash
      <3> QED
        BY <3>1, <3>2
        DEF CorrectionNext, SubmitWorker, PassThrough, StartCorrection, RefuseCorrection, Begin, Over,
            StartDetection, MalformedFeatures, StartPipeline
    <2> QED
      BY <2>1, <2>2, <2>3, <2>4, <2>5, <2>6
  <1> QED
    BY <1>1, CorrectionInvariance, PTL DEF CorrectionSpec, HistoryAppendOnly

\* SceneStaysCorrectable: with an optimizer that stamps its document after its source,
\* the newest revision of the scene is a succeeded one at every step, so that Preflight
\* never refuses a scene for what an earlier correction left.
THEOREM SpecStaysCorrectable ==
    ASSUME Backend = "gtsam" PROVE CorrectionSpec => []SceneStaysCorrectable
  <1>1. CorrectionInv => SceneStaysCorrectable
    <2> SUFFICES ASSUME CorrectionInv, NEW r \in Newest, r.status # "succeeded" PROVE FALSE
      BY DEF SceneStaysCorrectable
    <2>1. r \in revs /\ r.status = "superseded" /\ \A s \in revs : s.clock <= r.clock
      BY DEF Newest, CorrectionInv, CorrectionTypeOK, ReconstructionRow, Status
    <2>2. \A s \in revs : s.clock \in Nat
      BY DEF CorrectionInv, CorrectionTypeOK, ReconstructionRow
    <2> QED
      BY <2>1, <2>2 DEF CorrectionInv, Overtaken
  <1> QED
    BY <1>1, CorrectionInvariance, PTL

\* Of the closures that were optimized the newest has the latest result.
LEMMA OneStory == ASSUME CorrectionInv PROVE ClosuresOneStory
  <1> USE DEF CorrectionInv
  <1>1. \A rows \in {closures, graphs, results} : \A r, s \in rows : r.id = s.id => r = s
    BY DEF ClosureKeys
  <1>2. ASSUME NEW d \in Doc
        PROVE  LET latest == QueryLatestOptimizationResultByTrajectory(results, d)
                   of     == {c \in FindAcceptedLoopClosuresByTrajectory(closures, d) :
                                \E r \in FindOptimizationResultsByTrajectory(results, d) : r.id[2] = c.id}
               IN  {c \in of : \E r \in latest : r.id[2] = c.id} = Latest(of)
    <2> DEFINE mine   == FindOptimizationResultsByTrajectory(results, d)
               latest == QueryLatestOptimizationResultByTrajectory(results, d)
               of     == {c \in FindAcceptedLoopClosuresByTrajectory(closures, d) :
                            \E r \in mine : r.id[2] = c.id}
    <2>1. latest = {r \in mine : \A s \in mine : s.clock <= r.clock}
      BY DEF QueryLatestOptimizationResultByTrajectory, Latest
    <2>2. \A r \in mine : \E c \in of : c.id = r.id[2] /\ c.clock = r.clock
      <3> SUFFICES ASSUME NEW r \in mine PROVE \E c \in of : c.id = r.id[2] /\ c.clock = r.clock
        OBVIOUS
      <3>1. r \in results /\ r.trajectory = d
        BY DEF FindOptimizationResultsByTrajectory
      <3>2. PICK c \in closures : /\ c.id = r.id[2] /\ c.verdict = "metric"
                                  /\ c.trajectory = r.trajectory /\ c.clock = r.clock
        BY <3>1 DEF ResultEvidence
      <3> QED
        BY <3>1, <3>2 DEF FindAcceptedLoopClosuresByTrajectory
    <2>3. \A c, k \in of : c.id = k.id => c = k
      BY DEF ClosureKeys, FindAcceptedLoopClosuresByTrajectory
    <2>4. \A c \in of : \E r \in mine : r.id[2] = c.id /\ r.clock = c.clock
      BY <2>2, <2>3
    <2>5. \A r \in mine : \A c \in of : r.id[2] = c.id => r.clock = c.clock
      BY <2>2, <2>3
    <2> HIDE DEF mine, of, latest
    <2>6. ASSUME NEW c \in of, NEW r \in latest, r.id[2] = c.id PROVE c \in Latest(of)
      <3>1. r \in mine /\ r.clock = c.clock
        BY <2>1, <2>5, <2>6
      <3>2. ASSUME NEW k \in of PROVE k.clock <= c.clock
        <4>1. PICK s \in mine : s.clock = k.clock
          BY <2>4
        <4> QED
          BY <2>1, <3>1, <4>1
      <3> QED
        BY <3>2 DEF Latest
    <2>7. ASSUME NEW c \in Latest(of) PROVE c \in of /\ \E r \in latest : r.id[2] = c.id
      <3>1. c \in of /\ \A k \in of : k.clock <= c.clock
        BY DEF Latest
      <3>2. PICK r \in mine : r.id[2] = c.id /\ r.clock = c.clock
        BY <2>4, <3>1
      <3>3. ASSUME NEW s \in mine PROVE s.clock <= r.clock
        <4>1. PICK k \in of : k.clock = s.clock
          BY <2>2
        <4> QED
          BY <3>1, <3>2, <4>1
      <3> QED
        BY <2>1, <3>1, <3>2, <3>3
    <2>8. {c \in of : \E r \in latest : r.id[2] = c.id} = Latest(of)
      BY <2>6, <2>7
    <2> QED
      BY <2>8 DEF mine, of, latest
  <1>3. \A d \in Doc : \A g \in FindPoseGraphsByTrajectory(graphs, d) :
           \E c \in FindAcceptedLoopClosuresByTrajectory(closures, d) : c.id = g.id[2]
    <2> SUFFICES ASSUME NEW d \in Doc, NEW g \in graphs, g.trajectory = d
                 PROVE  \E c \in FindAcceptedLoopClosuresByTrajectory(closures, d) : c.id = g.id[2]
      BY DEF FindPoseGraphsByTrajectory
    <2>1. PICK c \in closures : c.id = g.id[2] /\ c.verdict = "metric" /\ c.trajectory = g.trajectory
      BY DEF GraphEvidence
    <2> QED
      BY <2>1 DEF FindAcceptedLoopClosuresByTrajectory
  <1>4. /\ \A n \in Runs : <<"candidates", n>> \in payloads =>
              {r.id[2] : r \in {c \in candidates : c.id[1] = n}} \in DetectableLists
        /\ \A d \in Doc : \A r \in FindLoopClosureCandidatesByTrajectory(candidates, d) :
              r.id[2][2] < r.id[2][1]
    BY DEF Detected, Recorded, FindLoopClosureCandidatesByTrajectory
  <1> QED
    BY <1>1, <1>2, <1>3, <1>4 DEF ClosuresOneStory

\* A supersede finds its revision there and succeeded.
LEMMA Legal == ASSUME CorrectionInv PROVE TransitionsLegal
  <1> USE DEF CorrectionInv
  <1>1. ASSUME NEW k, NEW r \in revs, r.doc = doc, r.kind = k, r.status = "succeeded",
               r.run = IF k = "v1" THEN 0 ELSE run
        PROVE  CanSupersede(k)
    <2>1. KeyOf(r) = Key(k)
      BY <1>1, KeyFields
    <2> QED
      BY <1>1, <2>1, RowOfKey DEF CanSupersede, HasRow
  <1>2. \A r \in revs : r.kind = "v1" => r.run = 0
    BY DEF Numbered
  <1>3. pc = "triangulate" => CanSupersede("v2")
    <2> SUFFICES ASSUME pc = "triangulate" PROVE CanSupersede("v2")
      OBVIOUS
    <2>1. PICK r \in revs : r.run = run /\ r.kind = "v2" /\ r.status = "succeeded" /\ r.doc = doc
      BY DEF ChainSoFar
    <2> QED
      BY <1>1, <2>1
  <1>4. pc = "compact" => CanSupersede("v1")
    <2> SUFFICES ASSUME pc = "compact" PROVE CanSupersede("v1")
      OBVIOUS
    <2>1. PICK r \in revs : r.doc = doc /\ r.kind = "v1" /\ r.status = "succeeded"
      BY DEF ChainSoFar, MetricSteps
    <2> QED
      BY <1>1, <1>2, <2>1
  <1>5. pc = "adjust" => CanSupersede(SourceKind)
    <2> SUFFICES ASSUME pc = "adjust" PROVE CanSupersede(SourceKind)
      OBVIOUS
    <2>1. CASE \E r \in revs : r.run = run /\ r.kind = "v3"
      <3>1. PICK r \in revs : r.run = run /\ r.kind = "v3"
        BY <2>1
      <3>2. r.doc = doc /\ r.status = "succeeded"
        BY <3>1 DEF ChainSoFar, Chains
      <3>3. HasRow("v3")
        BY <3>1, <3>2, KeyFields DEF HasRow
      <3> QED
        BY <1>1, <3>1, <3>2, <3>3 DEF SourceKind
    <2>2. CASE ~\E r \in revs : r.run = run /\ r.kind = "v3"
      <3>1. PICK r \in revs : r.doc = doc /\ r.kind = "v1" /\ r.status = "succeeded"
        BY <2>2 DEF ChainSoFar
      <3>2. ~HasRow("v3")
        BY <2>2, KeyFields DEF HasRow
      <3> QED
        BY <1>1, <1>2, <3>1, <3>2 DEF SourceKind
    <2> QED
      BY <2>1, <2>2
  <1> QED
    BY <1>3, <1>4, <1>5 DEF TransitionsLegal

\* Of a chain with a v3 one revision is live beside v1, and v1 only while the run has
\* not come to the compaction or was stopped before it.
LEMMA Compacts == ASSUME CorrectionInv PROVE ChainCompacts
  <1> USE DEF CorrectionInv
  <1> SUFFICES ASSUME NEW r \in revs, r.kind = "v3"
               PROVE  LET chain == {s \in revs : s.doc = r.doc /\ s.run \in {0, r.run}}
                          alive == {s \in chain : s.status = "succeeded"}
                      IN  /\ Cardinality(alive \ {s \in chain : s.kind = "v1"}) = 1
                          /\ (ended[r.run] \in {"produced", "gate"}) => Cardinality(alive) = 1
    BY DEF ChainCompacts
  <1> DEFINE chain == {s \in revs : s.doc = r.doc /\ s.run \in {0, r.run}}
             alive == {s \in chain : s.status = "succeeded"}
             first == {s \in chain : s.kind = "v1"}
  <1>1. \A s \in revs : /\ s.kind \in Kind /\ s.status \in Status
                        /\ s.kind = "v1" <=> s.run = 0
    BY DEF CorrectionTypeOK, ReconstructionRow, Numbered
  <1>2. r.run # 0
    BY <1>1
  <1>3. \A s, t \in revs : (s.run = r.run /\ t.run = r.run /\ s.kind = t.kind) => s = t
    BY <1>2 DEF RevisionKeys
  <1>4. \E x : alive \ first = {x}
    <2>1. CASE r.status = "succeeded"
      <3>1. r \in alive \ first
        BY <2>1
      <3>2. ASSUME NEW s \in alive \ first PROVE s = r
        <4>1. s \in revs /\ s.run = r.run /\ s.status = "succeeded" /\ s.kind # "v1"
          BY <1>1
        <4>2. s.kind # "v2" /\ s.kind # "v4"
          BY <2>1, <4>1 DEF Chains
        <4> QED
          BY <1>1, <1>3, <4>1, <4>2 DEF Kind
      <3>3. alive \ first = {r}
        BY <3>1, <3>2
      <3> QED
        BY <3>3
    <2>2. CASE r.status # "succeeded"
      <3>1. PICK x \in revs : x.run = r.run /\ x.kind = "v4"
        BY <2>2 DEF Chains
      <3>2. x.status = "succeeded" /\ x.doc = r.doc
        BY <1>2, <3>1 DEF Chains, RevisionKeys
      <3>3. x \in alive \ first
        BY <3>1, <3>2
      <3>4. ASSUME NEW s \in alive \ first PROVE s = x
        <4>1. s \in revs /\ s.run = r.run /\ s.status = "succeeded" /\ s.kind # "v1"
          BY <1>1
        <4>2. s.kind # "v2" /\ s.kind # "v3"
          BY <1>3, <2>2, <4>1 DEF Chains
        <4> QED
          BY <1>1, <1>3, <3>1, <4>1, <4>2 DEF Kind
      <3>5. alive \ first = {x}
        BY <3>3, <3>4
      <3> QED
        BY <3>5
    <2> QED
      BY <2>1, <2>2
  <1>5. Cardinality(alive \ first) = 1
    BY <1>4, FS_Singleton
  <1>6. ended[r.run] \in {"produced", "gate"} => alive \ first = alive
    <2> SUFFICES ASSUME ended[r.run] \in {"produced", "gate"}, NEW s \in first
                 PROVE  s.status # "succeeded"
      OBVIOUS
    <2>1. s \in revs /\ s.doc = r.doc /\ s.kind = "v1"
      OBVIOUS
    <2>2. ~(r.run = run /\ pc # "idle")
      BY <1>2 DEF Locals, CorrectionTypeOK, ReconstructionRow
    <2> QED
      BY <2>1, <2>2 DEF Chains, Unfinished
  <1> QED
    BY <1>5, <1>6

\* CorrectionWhole: with an optimizer that stamps its document after its source, a
\* correction is whole at every step and after every end of the process.
THEOREM SpecStaysWhole ==
    ASSUME Backend = "gtsam" PROVE CorrectionSpec => []CorrectionWhole
  <1>1. CorrectionInv => CorrectionWhole
    <2> SUFFICES ASSUME CorrectionInv PROVE CorrectionWhole
      OBVIOUS
    <2> USE DEF CorrectionInv
    <2>1. EvidenceComplete
      <3>1. \A r \in revs : r.kind = "v4" => \E s \in revs : s.run = r.run /\ s.kind = "v3"
        BY DEF Chains
      <3> QED
        BY <3>1 DEF EvidenceComplete, GraphEvidence, ResultEvidence, RevisionEvidence
    <2>2. ProducedIsCurrent
      <3> SUFFICES ASSUME NEW n \in Runs, <<"v4", n>> \in payloads
                   PROVE  /\ ended[n] = "produced"
                          /\ \E r \in ChainOf(n) : r.kind = "v4" /\ r.status = "succeeded"
                                                   /\ \A s \in ChainOf(n) : s.clock <= r.clock
        BY DEF ProducedIsCurrent
      <3>1. ended[n] = "produced"
        BY DEF HandedOn
      <3>2. PICK r \in revs : r.run = n /\ r.kind = "v4"
        BY DEF HandedOn
      <3>3. PICK t \in revs : t.run = n /\ t.kind = "v3" /\ t.clock < r.clock
        BY <3>2 DEF Chains
      <3>4. ASSUME NEW s \in revs, s.run = n PROVE s.clock <= r.clock
        <4>1. /\ r.clock \in Nat /\ s.clock \in Nat /\ t.clock \in Nat /\ s.kind \in Kind
              /\ s.kind # "v1"
          BY <3>4 DEF CorrectionTypeOK, ReconstructionRow, Numbered
        <4>2. CASE s.kind = "v2"
          BY <3>3, <3>4, <4>1, <4>2 DEF Chains
        <4>3. CASE s.kind = "v3"
          BY <3>2, <3>4, <4>1, <4>3 DEF Chains
        <4>4. CASE s.kind = "v4"
          <5>1. s = r
            BY <3>2, <3>4, <4>4 DEF RevisionKeys
          <5> QED
            BY <4>1, <5>1
        <4> QED
          BY <4>1, <4>2, <4>3, <4>4 DEF Kind
      <3> QED
        BY <3>1, <3>2, <3>4 DEF ChainOf, Chains
    <2> QED
      BY <2>1, <2>2, Legal, Compacts, OneStory DEF CorrectionWhole
  <1> QED
    BY <1>1, CorrectionInvariance, PTL

-----------------------------------------------------------------------------
(* The cheirality vote. *)

\* What the tally knows after the first n candidates: the most votes, who had them
\* first, and whether somebody else has as many.
Leads(best, votes, n) ==
    /\ best \in [votes : Nat, k : 0..n, tie : BOOLEAN]
    /\ \A j \in 1..n : votes[j] <= best.votes
    /\ best.k = 0 => best.votes = 0
    /\ best.k # 0 => votes[best.k] = best.votes
    /\ best.tie <=> \E j \in 1..n : j # best.k /\ votes[j] = best.votes

LEMMA TallyLeads ==
    ASSUME NEW votes \in [1..4 -> Nat], NEW n \in 1..4, NEW best, Leads(best, votes, n - 1)
    PROVE  Leads(Tally(best, votes, n), votes, n)
  <1> DEFINE next == Tally(best, votes, n)
  <1>1. /\ best.votes \in Nat /\ best.k \in 0..(n - 1) /\ best.tie \in BOOLEAN /\ votes[n] \in Nat
        /\ \A j \in 1..n : votes[j] \in Nat /\ (j # n => j \in 1..(n - 1))
    BY DEF Leads
  <1>2. CASE votes[n] > best.votes
    <2>1. next = [votes |-> votes[n], k |-> n, tie |-> FALSE]
      BY <1>2 DEF Tally
    <2>2. next.votes = votes[n] /\ next.k = n /\ ~next.tie
      BY <2>1
    <2>3. next \in [votes : Nat, k : 0..n, tie : BOOLEAN]
      BY <1>1, <2>1
    <2>4. \A j \in 1..n : votes[j] <= votes[n] /\ (j # n => votes[j] < votes[n])
      BY <1>1, <1>2 DEF Leads
    <2> QED
      BY <1>1, <2>2, <2>3, <2>4 DEF Leads
  <1>3. CASE ~(votes[n] > best.votes)
    <2>1. next = [best EXCEPT !.tie = best.tie \/ votes[n] = best.votes]
      BY <1>3 DEF Tally
    <2>2. /\ next.votes = best.votes /\ next.k = best.k
          /\ next.tie <=> (best.tie \/ votes[n] = best.votes)
      BY <2>1 DEF Leads
    <2>3. next \in [votes : Nat, k : 0..n, tie : BOOLEAN]
      <3>1. best \in [votes : Nat, k : 0..n, tie : BOOLEAN]
        BY DEF Leads
      <3> QED
        BY <2>1, <3>1
    <2>4. \A j \in 1..n : votes[j] <= best.votes
      BY <1>1, <1>3 DEF Leads
    <2>5. (\E j \in 1..n : j # best.k /\ votes[j] = best.votes)
             <=> (best.tie \/ votes[n] = best.votes)
      BY <1>1 DEF Leads
    <2> QED
      BY <1>1, <2>2, <2>3, <2>4, <2>5 DEF Leads
  <1> QED
    BY <1>2, <1>3

\* VoteCheirality: a candidate pose wins exactly when it has more votes than each of
\* the other three and those of more than half of the inliers, in whatever order the
\* four are counted; any tie and any minority is no winner.
THEOREM VoteHasOneWinner ==
    ASSUME NEW votes \in [1..4 -> Nat], NEW total \in Nat, NEW w \in 1..4
    PROVE  VoteCheirality(votes, total) = w <=>
              2 * votes[w] > total /\ \A j \in 1..4 \ {w} : votes[j] < votes[w]
  <1> DEFINE none   == [votes |-> 0, k |-> 0, tie |-> FALSE]
             first  == Tally(none, votes, 1)
             second == Tally(first, votes, 2)
             third  == Tally(second, votes, 3)
             last   == Tally(third, votes, 4)
  <1>1. Leads(none, votes, 0)
    BY DEF Leads
  <1>2. Leads(first, votes, 1)
    BY <1>1, TallyLeads
  <1>3. Leads(second, votes, 2)
    BY <1>2, TallyLeads
  <1>4. Leads(third, votes, 3)
    BY <1>3, TallyLeads
  <1>5. Leads(last, votes, 4)
    BY <1>4, TallyLeads
  <1>6. VoteCheirality(votes, total) = IF last.tie \/ 2 * last.votes <= total THEN 0 ELSE last.k
    BY DEF VoteCheirality
  <1> HIDE DEF last
  <1>7. last.votes \in Nat /\ last.k \in 0..4 /\ \A j \in 1..4 : votes[j] \in Nat
    BY <1>5 DEF Leads
  <1>8. ASSUME VoteCheirality(votes, total) = w
        PROVE  2 * votes[w] > total /\ \A j \in 1..4 \ {w} : votes[j] < votes[w]
    <2>1. ~last.tie /\ 2 * last.votes > total /\ last.k = w
      BY <1>6, <1>7, <1>8
    <2> QED
      BY <1>5, <1>7, <2>1 DEF Leads
  <1>9. ASSUME 2 * votes[w] > total, \A j \in 1..4 \ {w} : votes[j] < votes[w]
        PROVE  VoteCheirality(votes, total) = w
    <2>1. last.votes = votes[w] /\ last.k = w
      BY <1>5, <1>7, <1>9 DEF Leads
    <2>2. ~last.tie
      BY <1>5, <1>7, <1>9, <2>1 DEF Leads
    <2> QED
      BY <1>6, <1>7, <1>9, <2>1, <2>2
  <1> QED
    BY <1>8, <1>9
=============================================================================
