------------------------ MODULE ColmapAdapterProofs ------------------------
(***************************************************************************)
(* What ColmapAdapter promises, for every set of documents, any number of  *)
(* attempts, deaths of the worker and units of output, and pipes of any    *)
(* capacity: RunSubprocess leaves nothing behind, and the host is told and *)
(* given what the attempt did.                                             *)
(***************************************************************************)
EXTENDS ColmapAdapter, SequenceTheorems, TLAPS

-----------------------------------------------------------------------------
(* The inductive invariant. *)

Waiting == phase \in {"poll", "alive", "join", "returned"}
Accepted == FromJson(doc) /\ Range(Plan(doc)) \subseteq KnownStages
MapperPlanned == "mapper" \in Range(Plan(doc))
MapperRan == \E i \in DOMAIN ran : ran[i].stage = "mapper"

\* What the types leave out: no side effect without an accepted document, and an
\* attempt from the first dispatch on.
Begun ==
    /\ ran \in Seq([stage : KnownStages, end : {"running", "ok", "bad"}])
    /\ stage \in Nat \ {0}
    /\ wrote \in [Stream -> Nat] /\ captured \in [Stream -> Nat]
    /\ phase = "idle" <=> attempt = 0
    /\ phase \in {"idle", "plan", "stage_inputs"} => ran = <<>>
    /\ phase \in {"plan", "stage_inputs"} => stage = 1
    /\ phase \in {"stage_inputs", "boundary"} \/ Waiting \/ ran # <<>> => Accepted
    /\ phase # "answered" => answer = "none"

\* The stages run so far are the first ones of the plan, each but the last with success.
InOrder ==
    /\ Len(ran) <= Len(Plan(doc))
    /\ \A i \in DOMAIN ran : ran[i].stage = Plan(doc)[i] /\ (i < Len(ran) => ran[i].end = "ok")
    /\ phase = "boundary" => Len(ran) = stage - 1 /\ \A i \in DOMAIN ran : ran[i].end = "ok"
    /\ Waiting => Len(ran) = stage

\* Every unit a stage has written is in the pipe or captured.
Counted == \A s \in Stream : wrote[s] = captured[s] + pipe[s]

\* RunSubprocess: a reader ends when its pipe is empty and the child is gone; the child
\* is reaped before the readers are joined, and both before it returns.
Child ==
    /\ phase \in {"poll", "alive"} =>
          Mine.state \in {"running", "zombie"} /\ outcome = "none"
    /\ phase \in {"join", "returned"} =>
          Mine.state = "reaped" /\ outcome # "none" /\ (outcome = "cancelled" => token)
    /\ Waiting => Mine.stage = Name /\ \A s \in Stream : reader[s] # "none"
    /\ \A s \in Stream :
          /\ reader[s] = "draining" => phase \in {"poll", "alive", "join"}
          /\ reader[s] # "draining" => pipe[s] = 0
          /\ reader[s] = "done" => Mine.state # "running"
    /\ phase = "returned" => Joined

\* The other processes: none before its attempt, an orphan only of a worker that died.
Orphans ==
    /\ phase \notin {"poll", "alive", "dead"} /\ attempt > 0 => Mine.state \in {"none", "reaped"}
    /\ phase = "dead" => deaths > 0 /\ (attempt > 0 => Mine.state # "zombie")
    /\ \A a \in Attempt :
          /\ a > attempt => backend[a] = None
          /\ a < attempt => backend[a].state # "zombie"
          /\ a < attempt /\ backend[a].state = "running" => deaths > 0

\* The files of the model: each is the mapper's of this attempt or of one that ended
\* while its mapper had not returned, and only a plan with a mapper leaves any.
Models ==
    /\ \A a \in Attempt : backend[a].stage = "mapper" =>
          MapperPlanned /\ a <= attempt /\ (a = attempt => MapperRan)
    /\ \A a \in Attempt : backend[a].state = "running" /\ backend[a].stage = "mapper" =>
          a = attempt \/ a \in lingering
    /\ \A f \in File : sparse[f] # 0 =>
          \/ sparse[f] \in lingering
          \/ sparse[f] = attempt /\ MapperRan
    /\ MapperRan /\ (phase = "dead" \/ answer = "recoverable") => attempt \in lingering

AdapterInv ==
    /\ AdapterTypeOK /\ Begun /\ InOrder /\ Counted /\ Child /\ Orphans /\ Models
    /\ AnswerTruthful /\ EmittedOwn

-----------------------------------------------------------------------------
(* The plan. *)

\* Sequences of at most three stages, put together.
LEMMA Joining ==
    ASSUME NEW x, NEW y, NEW z
    PROVE  /\ <<>> \o <<>> = <<>> /\ <<>> \o <<x>> = <<x>> /\ <<x>> \o <<>> = <<x>>
           /\ <<x>> \o <<y>> = <<x, y>> /\ <<x, y>> \o <<>> = <<x, y>>
           /\ <<x, y>> \o <<z>> = <<x, y, z>> /\ <<x, y, z>> \o <<>> = <<x, y, z>>
  <1>1. <<>> \in Seq({x, y, z}) /\ <<x>> \in Seq({x, y, z}) /\ <<x, y>> \in Seq({x, y, z})
        /\ <<x, y, z>> \in Seq({x, y, z})
    OBVIOUS
  <1>2. \A s \in Seq({x, y, z}) : <<>> \o s = s /\ s \o <<>> = s
    BY ConcatEmptySeq
  <1>3. <<x>> \o <<y>> = <<x, y>>
    <2> DEFINE s == <<x>> \o <<y>>
    <2>1. s \in Seq({x, y, z}) /\ Len(s) = 2
      BY <1>1
    <2>2. s[1] = x /\ s[2] = y
      OBVIOUS
    <2>3. \A i \in 1..2 : s[i] = <<x, y>>[i]
      <3> SUFFICES ASSUME NEW i \in {1, 2} PROVE s[i] = <<x, y>>[i]
        OBVIOUS
      <3> QED
        BY <2>2
    <2> HIDE DEF s
    <2> QED
      BY <1>1, <2>1, <2>3, SeqEqual DEF s
  <1>4. <<x, y>> \o <<z>> = <<x, y, z>>
    <2> DEFINE s == <<x, y>> \o <<z>>
    <2>1. s \in Seq({x, y, z}) /\ Len(s) = 3
      BY <1>1
    <2>2. s[1] = x /\ s[2] = y /\ s[3] = z
      OBVIOUS
    <2>3. \A i \in 1..3 : s[i] = <<x, y, z>>[i]
      <3> SUFFICES ASSUME NEW i \in {1, 2, 3} PROVE s[i] = <<x, y, z>>[i]
        OBVIOUS
      <3> QED
        BY <2>2
    <2> HIDE DEF s
    <2> QED
      BY <1>1, <2>1, <2>3, SeqEqual DEF s
  <1> QED
    BY <1>1, <1>2, <1>3, <1>4

\* What the adapter runs of a plan: some of the three stages, in their order
\* (ColmapConfig::Plan).
LEMMA PlanShape ==
    ASSUME NEW d, Range(Plan(d)) \subseteq KnownStages
    PROVE  Plan(d) \in
             {<<>>, <<"feature_extractor">>, <<"matcher">>, <<"mapper">>,
              <<"feature_extractor", "matcher">>, <<"feature_extractor", "mapper">>,
              <<"matcher", "mapper">>, <<"feature_extractor", "matcher", "mapper">>}
  <1> DEFINE L == Range(d.stages)
  <1> HIDE DEF L
  <1>1. CASE d.stages = <<>>
    BY <1>1 DEF Plan, ColmapStage
  <1>2. CASE d.stages # <<>> /\ "bundle_adjuster" \in L
    <2>1. Plan(d)[Len(Plan(d))] = "bundle_adjuster" /\ Len(Plan(d)) \in DOMAIN Plan(d)
      BY <1>2 DEF Plan, ColmapStage, L
    <2> QED
      BY <2>1 DEF Range, KnownStages
  <1>3. CASE d.stages # <<>> /\ "bundle_adjuster" \notin L
    <2> DEFINE If(s) == IF s \in L THEN <<s>> ELSE <<>>
    <2>1. Plan(d) = If("feature_extractor") \o If("matcher") \o If("mapper") \o <<>>
      BY <1>3 DEF Plan, ColmapStage, L
    <2>2. If("feature_extractor") \o If("matcher")
          \in {<<>>, <<"feature_extractor">>, <<"matcher">>, <<"feature_extractor", "matcher">>}
      BY Joining
    <2>3. If("mapper") \in {<<>>, <<"mapper">>}
      OBVIOUS
    <2> HIDE DEF If
    <2>4. PICK h \in {<<>>, <<"feature_extractor">>, <<"matcher">>, <<"feature_extractor", "matcher">>} :
            Plan(d) = (h \o If("mapper")) \o <<>>
      BY <2>1, <2>2
    <2>5. h \o <<>> = h
      BY <2>4, Joining
    <2>6. <<>> \o <<"mapper">> = <<"mapper">>
      BY Joining
    <2>7. /\ <<"feature_extractor">> \o <<"mapper">> = <<"feature_extractor", "mapper">>
          /\ <<"matcher">> \o <<"mapper">> = <<"matcher", "mapper">>
      BY Joining
    <2>8. <<"feature_extractor", "matcher">> \o <<"mapper">> = <<"feature_extractor", "matcher", "mapper">>
      BY Joining
    <2>9. \A x \in {<<"mapper">>, <<"feature_extractor", "mapper">>, <<"matcher", "mapper">>,
                   <<"feature_extractor", "matcher", "mapper">>} : x \o <<>> = x
      BY Joining
    <2>10. CASE If("mapper") = <<>>
      BY <2>4, <2>5, <2>10
    <2>11. CASE If("mapper") = <<"mapper">>
      BY <2>4, <2>6, <2>7, <2>8, <2>9, <2>11
    <2> QED
      BY <2>3, <2>10, <2>11
  <1> QED
    BY <1>1, <1>2, <1>3

LEMMA PlanSeq ==
    ASSUME NEW d
    PROVE  Plan(d) \in Seq({"feature_extractor", "matcher", "mapper", "bundle_adjuster"})
  <1> DEFINE S == {"feature_extractor", "matcher", "mapper", "bundle_adjuster"}
             If(s) == IF s \in Range(d.stages) THEN <<s>> ELSE <<>>
  <1>1. ASSUME NEW s \in S PROVE If(s) \in Seq(S)
    <2>1. <<s>> \in Seq(S) /\ <<>> \in Seq(S)
      OBVIOUS
    <2> QED
      BY <2>1
  <1>2. CASE d.stages = <<>>
    BY <1>2 DEF Plan, ColmapStage
  <1>3. CASE d.stages # <<>>
    <2>1. Plan(d) = If("feature_extractor") \o If("matcher") \o If("mapper") \o If("bundle_adjuster")
      BY <1>3 DEF Plan, ColmapStage
    <2> HIDE DEF If
    <2> QED
      BY <1>1, <2>1
  <1> QED
    BY <1>2, <1>3

\* The mapper is the last stage the adapter runs.
LEMMA MapperLast ==
    ASSUME Accepted
    PROVE  /\ \A i \in 1..Len(Plan(doc)) : Plan(doc)[i] \in KnownStages
           /\ \A i \in 1..Len(Plan(doc)) : Plan(doc)[i] = "mapper" => i = Len(Plan(doc))
           /\ \A i, j \in 1..Len(Plan(doc)) : i < j =>
                 \E m, n \in DOMAIN ColmapStage :
                    m < n /\ ColmapStage[m] = Plan(doc)[i] /\ ColmapStage[n] = Plan(doc)[j]
  <1> DEFINE p == Plan(doc)
  <1>1. p \in {<<>>, <<"feature_extractor">>, <<"matcher">>, <<"mapper">>,
               <<"feature_extractor", "matcher">>, <<"feature_extractor", "mapper">>,
               <<"matcher", "mapper">>, <<"feature_extractor", "matcher", "mapper">>}
    BY PlanShape DEF Accepted
  <1>2. DOMAIN ColmapStage = 1..4 /\ ColmapStage[1] = "feature_extractor"
        /\ ColmapStage[2] = "matcher" /\ ColmapStage[3] = "mapper"
    BY DEF ColmapStage
  <1> HIDE DEF p
  <1>3. \A i \in 1..Len(p) : p[i] \in KnownStages
    BY <1>1 DEF KnownStages
  <1>4. \A i \in 1..Len(p) : p[i] = "mapper" => i = Len(p)
    <2>1. \/ Len(p) = 0
          \/ Len(p) = 1
          \/ Len(p) = 2 /\ p[1] \in {"feature_extractor", "matcher"}
          \/ Len(p) = 3 /\ p[1] = "feature_extractor" /\ p[2] = "matcher"
      BY <1>1
    <2> SUFFICES ASSUME NEW i \in 1..Len(p), i # Len(p) PROVE p[i] # "mapper"
      OBVIOUS
    <2>2. PICK n \in 0..3 : n = Len(p)
      BY <2>1
    <2>3. i \in 1..n /\ i # n
      BY <2>2
    <2>4. (n = 2 /\ i = 1) \/ (n = 3 /\ i \in {1, 2})
      BY <2>3
    <2> QED
      BY <2>1, <2>2, <2>4
  <1>5. ASSUME NEW i \in 1..Len(p), NEW j \in 1..Len(p), i < j
        PROVE  \E m, n \in DOMAIN ColmapStage : m < n /\ ColmapStage[m] = p[i] /\ ColmapStage[n] = p[j]
    <2>1. \/ p[i] = "feature_extractor" /\ p[j] = "matcher"
          \/ p[i] = "feature_extractor" /\ p[j] = "mapper"
          \/ p[i] = "matcher" /\ p[j] = "mapper"
      BY <1>1, <1>5
    <2> QED
      BY <1>2, <2>1
  <1> QED
    BY <1>3, <1>4, <1>5 DEF p

-----------------------------------------------------------------------------
(* The steps between two stages, and the task's answers. *)

LEMMA Attempts ==
    ASSUME AdapterInv, phase # "idle"
    PROVE  attempt \in Attempt /\ attempt \in Nat /\ attempt > 0
  BY BoundAssumption DEF AdapterInv, AdapterTypeOK, Begun, Attempt

LEMMA InitInv ==
    ASSUME Init
    PROVE  AdapterInv
  <1> USE DEF Init
  <1>1. <<platform, doc>> \in Build
    BY BuildAssumption
  <1>2. AdapterTypeOK
    <2>1. attempt \in 0..MaxAttempts /\ deaths \in 0..MaxDeaths
      BY BoundAssumption
    <2>2. pipe \in [Stream -> 0..PipeCapacity] /\ reader \in [Stream -> {"none", "draining", "done"}]
          /\ \A s \in Stream : wrote[s] \in 0..MaxOutput[s] /\ captured[s] \in 0..wrote[s]
      BY BoundAssumption DEF NothingRead
    <2>3. sparse \in Native
      BY BoundAssumption DEF Native
    <2>4. backend \in [Attempt -> [state : {"none", "running", "zombie", "reaped"},
                                  stage : {"none"} \cup KnownStages, code : {"none", "zero", "other"}]]
      BY DEF None
    <2> QED
      BY <1>1, <2>1, <2>2, <2>3, <2>4 DEF AdapterTypeOK
  <1>3. Begun
    BY DEF Begun, NothingRead, Stream, Waiting
  <1>4. InOrder
    BY PlanSeq DEF InOrder, Waiting
  <1>5. Counted /\ Child
    BY DEF Counted, NothingRead, Child, Waiting, Mine
  <1>6. Orphans
    BY DEF Orphans, None, Attempt
  <1>7. Models
    BY DEF Models, None, MapperRan
  <1>8. AnswerTruthful /\ EmittedOwn
    BY DEF AnswerTruthful, EmittedOwn
  <1> QED
    BY <1>2, <1>3, <1>4, <1>5, <1>6, <1>7, <1>8 DEF AdapterInv

LEMMA DispatchInv ==
    ASSUME AdapterInv, Dispatch
    PROVE  AdapterInv'
  <1> USE DEF AdapterInv
  <1>1. /\ phase \in {"idle", "answered", "dead"} /\ (phase = "answered" => answer = "recoverable")
        /\ attempt' = attempt + 1 /\ attempt' \in Attempt /\ attempt \in Nat
        /\ stage' = 1 /\ token' = FALSE /\ ran' = <<>> /\ answer' = "none" /\ phase' = "plan"
        /\ UNCHANGED <<platform, doc, backend, runVars, sparse, emitted, lingering, deaths>>
    BY BoundAssumption DEF Dispatch, AdapterTypeOK, Attempt
  <1> USE DEF runVars
  <1>2. backend[attempt'] = None /\ Mine' = None
    BY <1>1 DEF Orphans, Attempt, Mine
  <1>3. ~Waiting' /\ ~Waiting
    BY <1>1 DEF Waiting
  <1>4. AdapterTypeOK'
    <2>1. attempt' \in 0..MaxAttempts
      BY <1>1, BoundAssumption DEF Attempt
    <2> QED
      BY <1>1, <2>1 DEF AdapterTypeOK
  <1>5. Begun'
    BY <1>1, <1>3 DEF Begun
  <1>6. InOrder'
    BY <1>1, <1>3, PlanSeq DEF InOrder
  <1>7. Counted'
    BY <1>1 DEF Counted
  <1>8. Child'
    BY <1>1, <1>2, <1>3 DEF Child, None, Joined
  <1>9. Orphans'
    <2>1. \A a \in Attempt : a > attempt' => backend'[a] = None
      BY <1>1 DEF Orphans, Attempt
    <2>2. ASSUME NEW a \in Attempt, a < attempt'
          PROVE  backend'[a].state # "zombie" /\ (backend'[a].state = "running" => deaths' > 0)
      <3>1. a < attempt \/ a = attempt
        BY <1>1, <2>2 DEF Attempt
      <3>2. CASE a < attempt
        BY <1>1, <3>2 DEF Orphans
      <3>3. CASE a = attempt
        <4>1. attempt > 0 /\ phase # "idle"
          BY <1>1, <3>3 DEF Attempt, Begun
        <4> QED
          BY <1>1, <3>3, <4>1 DEF Orphans, Mine
      <3> QED
        BY <3>1, <3>2, <3>3
    <2> QED
      BY <1>1, <1>2, <2>1, <2>2 DEF Orphans, None
  <1>10. Models'
    <2>1. MapperRan /\ phase # "idle" => attempt \in lingering
      BY <1>1 DEF Models
    <2>2. ASSUME NEW a \in Attempt, backend[a].stage = "mapper"
          PROVE  /\ MapperPlanned' /\ a < attempt'
                 /\ backend[a].state = "running" => a \in lingering
      <3>1. MapperPlanned /\ a <= attempt /\ (a = attempt => MapperRan)
            /\ (backend[a].state = "running" => a = attempt \/ a \in lingering)
        BY <2>2 DEF Models
      <3>2. phase # "idle"
        BY <1>1, <3>1 DEF Begun, Attempt
      <3>3. a \in Nat
        BY DEF Attempt
      <3> QED
        BY <1>1, <2>1, <3>1, <3>2, <3>3 DEF MapperPlanned
    <2>3. ASSUME NEW f \in File, sparse[f] # 0 PROVE sparse[f] \in lingering
      <3>1. sparse[f] \in lingering \/ (sparse[f] = attempt /\ MapperRan)
        BY <2>3 DEF Models
      <3>2. CASE sparse[f] = attempt /\ MapperRan
        BY <1>1, <2>1, <2>3, <3>2 DEF Begun
      <3> QED
        BY <3>1, <3>2
    <2>4. ~MapperRan'
      BY <1>1 DEF MapperRan
    <2> QED
      BY <1>1, <2>2, <2>3, <2>4 DEF Models, Attempt
  <1>11. AnswerTruthful' /\ EmittedOwn'
    BY <1>1 DEF AnswerTruthful, EmittedOwn
  <1> QED
    BY <1>4, <1>5, <1>6, <1>7, <1>8, <1>9, <1>10, <1>11

\* A step between two stages that at most answers.
LEMMA Between ==
    ASSUME AdapterInv, phase \in {"plan", "stage_inputs", "boundary"},
           \/ phase = "plan" /\ phase' = "stage_inputs" /\ Accepted /\ UNCHANGED answer
           \/ phase = "stage_inputs" /\ phase' = "boundary" /\ UNCHANGED answer
           \/ phase' = "answered" /\ answer' \in {"cancelled", "completed", "failed"},
           UNCHANGED <<platform, doc, attempt, stage, token, backend, runVars, sparse, ran,
                       lingering, deaths>>,
           AnswerTruthful'
    PROVE  /\ AdapterTypeOK' /\ Begun' /\ InOrder' /\ Counted' /\ Child' /\ Orphans' /\ Models'
           /\ EmittedOwn' \/ emitted' # emitted
  <1> USE DEF AdapterInv, runVars
  <1>1. ~Waiting /\ ~Waiting' /\ Mine' = Mine
    BY DEF Waiting, Mine
  <1>2. AdapterTypeOK'
    BY DEF AdapterTypeOK
  <1>3. Begun'
    BY <1>1, Attempts DEF Begun, Accepted
  <1>4. InOrder'
    BY <1>1 DEF InOrder, Begun
  <1>5. Counted' /\ Child'
    BY <1>1 DEF Counted, Child, Joined
  <1>6. Orphans'
    BY <1>1 DEF Orphans
  <1>7. MapperRan' = MapperRan /\ MapperPlanned' = MapperPlanned
    BY DEF MapperRan, MapperPlanned
  <1>8. Models'
    BY <1>7 DEF Models, Begun
  <1>9. EmittedOwn' \/ emitted' # emitted
    BY DEF EmittedOwn
  <1> QED
    BY <1>2, <1>3, <1>4, <1>5, <1>6, <1>8, <1>9

LEMMA CreatePlanInv ==
    ASSUME AdapterInv, CreatePlan
    PROVE  AdapterInv'
  <1>1. /\ phase = "plan"
        /\ \/ phase' = "stage_inputs" /\ Accepted /\ UNCHANGED answer
           \/ phase' = "answered" /\ answer' = "failed"
        /\ UNCHANGED <<platform, doc, attempt, stage, token, backend, runVars, sparse, ran, emitted,
                       lingering, deaths>>
    BY DEF CreatePlan, Answer, Accepted
  <1>2. AnswerTruthful'
    BY <1>1 DEF AnswerTruthful, AdapterInv, runVars
  <1> QED
    BY <1>1, <1>2, Between DEF AdapterInv

LEMMA MaterializeInv ==
    ASSUME AdapterInv, MaterializeInputs
    PROVE  AdapterInv'
  <1>1. /\ phase = "stage_inputs"
        /\ \/ phase' = "boundary" /\ UNCHANGED answer
           \/ phase' = "answered" /\ answer' = "failed"
        /\ UNCHANGED <<platform, doc, attempt, stage, token, backend, runVars, sparse, ran, emitted,
                       lingering, deaths>>
    BY DEF MaterializeInputs, Answer
  <1>2. AnswerTruthful'
    BY <1>1 DEF AnswerTruthful, AdapterInv, runVars
  <1> QED
    BY <1>1, <1>2, Between DEF AdapterInv

LEMMA CancelledInv ==
    ASSUME AdapterInv, Cancelled
    PROVE  AdapterInv'
  <1>1. /\ phase = "boundary" /\ token /\ phase' = "answered" /\ answer' = "cancelled"
        /\ UNCHANGED <<platform, doc, attempt, stage, token, backend, runVars, sparse, ran, emitted,
                       lingering, deaths>>
    BY DEF Cancelled, Answer
  <1>2. AnswerTruthful'
    BY <1>1 DEF AnswerTruthful
  <1> QED
    BY <1>1, <1>2, Between DEF AdapterInv

LEMMA DiscoverInv ==
    ASSUME AdapterInv, Discover
    PROVE  AdapterInv'
  <1>1. /\ phase = "boundary" /\ stage > Len(Plan(doc)) /\ phase' = "answered"
        /\ answer' \in {"completed", "failed"}
        /\ \/ UNCHANGED emitted
           \/ /\ Present = File
              /\ emitted' = emitted \cup {[attempt |-> attempt, files |-> sparse]}
        /\ UNCHANGED <<platform, doc, attempt, stage, token, ran, backend, runVars, sparse,
                       lingering, deaths>>
    BY DEF Discover, Answer
  <1>2. AnswerTruthful'
    <2>1. /\ Len(ran) = stage - 1 /\ Len(ran) <= Len(Plan(doc)) /\ stage \in Nat
          /\ \A i \in DOMAIN ran : ran[i].end = "ok"
      BY <1>1 DEF AdapterInv, InOrder, Begun
    <2>2. Len(ran) = Len(Plan(doc))
      BY <1>1, <2>1, PlanSeq
    <2> QED
      BY <1>1, <2>1, <2>2 DEF AnswerTruthful
  <1>3. EmittedOwn'
    <2>1. CASE Present = File /\ emitted' = emitted \cup {[attempt |-> attempt, files |-> sparse]}
      <3>1. \A f \in File : sparse[f] = attempt \/ sparse[f] \in lingering
        BY <2>1 DEF Present, Models, AdapterInv
      <3> QED
        BY <1>1, <2>1, <3>1 DEF EmittedOwn, AdapterInv
    <2>2. CASE UNCHANGED emitted
      BY <1>1, <2>2 DEF EmittedOwn, AdapterInv
    <2> QED
      BY <1>1, <2>1, <2>2
  <1> QED
    BY <1>1, <1>2, <1>3, Between DEF AdapterInv

-----------------------------------------------------------------------------
(* RunSubprocess. *)

LEMMA SpawnedInv ==
    ASSUME AdapterInv, Starts, Spawned,
           UNCHANGED <<platform, doc, attempt, stage, token, sparse, emitted, lingering, deaths>>
    PROVE  AdapterInv'
  <1> USE DEF AdapterInv
  <1>1. /\ phase = "boundary" /\ stage <= Len(Plan(doc)) /\ phase' = "poll" /\ outcome' = "none"
        /\ backend' = [backend EXCEPT ![attempt] =
                          [state |-> "running", stage |-> Name, code |-> "none"]]
        /\ pipe' = NothingRead /\ wrote' = NothingRead /\ captured' = NothingRead
        /\ reader' = [s \in Stream |-> "draining"]
        /\ ran' = Append(ran, [stage |-> Name, end |-> "running"]) /\ UNCHANGED answer
    BY DEF Starts, Spawned
  <1>2. attempt \in Attempt /\ Accepted /\ stage \in 1..Len(Plan(doc)) /\ stage \in Nat
    BY <1>1, Attempts, PlanSeq DEF Begun
  <1>3. Name \in KnownStages
    BY <1>2, MapperLast DEF Name
  <1>4. /\ ran \in Seq([stage : KnownStages, end : {"running", "ok", "bad"}]) /\ Len(ran) = stage - 1
        /\ \A i \in DOMAIN ran : ran[i].stage = Plan(doc)[i] /\ ran[i].end = "ok"
    BY <1>1 DEF InOrder, Begun
  <1>5. /\ ran' \in Seq([stage : KnownStages, end : {"running", "ok", "bad"}]) /\ Len(ran') = stage
        /\ ran' # <<>> /\ DOMAIN ran = 1..(stage - 1) /\ DOMAIN ran' = 1..stage
        /\ ran'[stage] = [stage |-> Name, end |-> "running"]
        /\ \A i \in DOMAIN ran : ran'[i] = ran[i]
    BY <1>1, <1>2, <1>3, <1>4
  <1>6. /\ Mine' = [state |-> "running", stage |-> Name, code |-> "none"] /\ Name' = Name
        /\ backend \in [Attempt -> [state : {"none", "running", "zombie", "reaped"},
                                    stage : {"none"} \cup KnownStages, code : {"none", "zero", "other"}]]
        /\ \A a \in Attempt : a # attempt => backend'[a] = backend[a]
    BY <1>1, <1>2 DEF AdapterTypeOK, Mine, Name
  <1>7. AdapterTypeOK'
    <2>1. backend' \in [Attempt -> [state : {"none", "running", "zombie", "reaped"},
                                    stage : {"none"} \cup KnownStages, code : {"none", "zero", "other"}]]
      BY <1>1, <1>3, <1>6
    <2>2. pipe' \in [Stream -> 0..PipeCapacity] /\ reader' \in [Stream -> {"none", "draining", "done"}]
          /\ \A s \in Stream : wrote'[s] \in 0..MaxOutput[s] /\ captured'[s] \in 0..wrote'[s]
      BY <1>1, BoundAssumption DEF NothingRead
    <2> QED
      BY <1>1, <2>1, <2>2 DEF AdapterTypeOK
  <1>8. Begun'
    BY <1>1, <1>2, <1>5 DEF Begun, Accepted, NothingRead
  <1>9. InOrder'
    <2>1. \A i \in 1..stage : i = stage \/ i \in DOMAIN ran
      BY <1>2, <1>5
    <2>2. ASSUME NEW i \in 1..stage
          PROVE  ran'[i].stage = Plan(doc)[i] /\ (i < stage => ran'[i].end = "ok")
      BY <1>2, <1>4, <1>5, <2>1 DEF Name
    <2> QED
      BY <1>1, <1>2, <1>5, <2>2 DEF InOrder, Waiting
  <1>10. Counted'
    BY <1>1 DEF Counted, NothingRead
  <1>11. Child'
    BY <1>1, <1>6 DEF Child, Waiting
  <1>12. Orphans'
    BY <1>1, <1>2, <1>6 DEF Orphans, Attempt
  <1>13. Models'
    <2>1. MapperPlanned' = MapperPlanned /\ (MapperRan => MapperRan')
      BY <1>4, <1>5 DEF MapperPlanned, MapperRan
    <2>2. Name = "mapper" => MapperPlanned /\ MapperRan'
      <3>1. Name = Plan(doc)[stage] /\ stage \in DOMAIN Plan(doc)
        BY <1>2, PlanSeq DEF Name
      <3>2. Name = "mapper" => ran'[stage].stage = "mapper" /\ stage \in DOMAIN ran'
        BY <1>2, <1>5
      <3> QED
        BY <3>1, <3>2 DEF MapperPlanned, MapperRan, Range
    <2>3. \A a \in Attempt : backend'[a].stage = "mapper" =>
             MapperPlanned' /\ a <= attempt' /\ (a = attempt' => MapperRan')
      <3> SUFFICES ASSUME NEW a \in Attempt, backend'[a].stage = "mapper"
                   PROVE  MapperPlanned' /\ a <= attempt' /\ (a = attempt' => MapperRan')
        OBVIOUS
      <3>1. CASE a = attempt
        BY <1>2, <1>6, <2>1, <2>2, <3>1 DEF Mine, Attempt
      <3>2. CASE a # attempt
        BY <1>6, <2>1, <3>2 DEF Models
      <3> QED
        BY <3>1, <3>2
    <2>4. \A a \in Attempt : backend'[a].state = "running" /\ backend'[a].stage = "mapper" =>
             a = attempt' \/ a \in lingering'
      BY <1>6 DEF Models
    <2> QED
      BY <1>1, <2>1, <2>3, <2>4 DEF Models, Begun
  <1>14. AnswerTruthful' /\ EmittedOwn'
    BY <1>1 DEF AnswerTruthful, EmittedOwn, Begun
  <1> QED
    BY <1>7, <1>8, <1>9, <1>10, <1>11, <1>12, <1>13, <1>14

LEMMA SpawnInv ==
    ASSUME AdapterInv, SpawnPosix \/ SpawnWin32
    PROVE  AdapterInv'
  <1>1. CASE Spawned
    BY <1>1, SpawnedInv DEF SpawnPosix, SpawnWin32
  <1>2. CASE ~Spawned
    <2>1. /\ phase = "boundary" /\ phase' = "answered" /\ answer' = "failed"
          /\ UNCHANGED <<platform, doc, attempt, stage, token, backend, runVars, sparse, ran, emitted,
                         lingering, deaths>>
      BY <1>2 DEF SpawnPosix, SpawnWin32, Starts, Answer
    <2>2. AnswerTruthful'
      BY <2>1 DEF AnswerTruthful
    <2> QED
      BY <2>1, <2>2, Between DEF AdapterInv
  <1> QED
    BY <1>1, <1>2

\* A step that leaves alone what the invariant says of plan, files and answers.
LEMMA Apart ==
    ASSUME AdapterInv, UNCHANGED <<platform, doc, attempt, stage, answer, ran, sparse, emitted, lingering>>,
           Waiting, Waiting', token => token'
    PROVE  /\ InOrder' /\ AnswerTruthful' /\ EmittedOwn'
           /\ MapperPlanned' = MapperPlanned /\ MapperRan' = MapperRan /\ Name' = Name
           /\ (\A a \in Attempt : /\ backend'[a].stage = backend[a].stage
                                  /\ backend'[a].state = "running" => backend[a].state = "running")
                => Models'
  <1> USE DEF AdapterInv
  <1>1. answer = "none" /\ phase # "boundary" /\ phase' # "boundary" /\ phase' # "dead"
    BY DEF Begun, Waiting
  <1>2. InOrder' /\ AnswerTruthful' /\ EmittedOwn'
    BY <1>1 DEF InOrder, AnswerTruthful, EmittedOwn
  <1>3. MapperPlanned' = MapperPlanned /\ MapperRan' = MapperRan /\ Name' = Name
    BY DEF MapperPlanned, MapperRan, Name
  <1>4. ASSUME \A a \in Attempt : /\ backend'[a].stage = backend[a].stage
                                  /\ backend'[a].state = "running" => backend[a].state = "running"
        PROVE  Models'
    BY <1>1, <1>3, <1>4 DEF Models
  <1> QED
    BY <1>2, <1>3, <1>4

\* The child is there to be reaped, or killed first.
LEMMA ReapedInv ==
    ASSUME AdapterInv, NEW how \in {"completed", "timedOut", "cancelled"},
           how = "cancelled" => token,
           phase \in {"poll", "alive"}, phase' = "join", Reaped, outcome' = how,
           UNCHANGED <<platform, doc, attempt, stage, token, answer, ran, pipe, wrote, captured,
                       reader, sparse, emitted, lingering, deaths>>
    PROVE  AdapterInv'
  <1> USE DEF AdapterInv
  <1>1. /\ attempt \in Attempt /\ Waiting /\ Waiting'
        /\ backend \in [Attempt -> [state : {"none", "running", "zombie", "reaped"},
                                    stage : {"none"} \cup KnownStages, code : {"none", "zero", "other"}]]
    BY Attempts DEF Waiting, AdapterTypeOK
  <1>2. /\ backend' \in [Attempt -> [state : {"none", "running", "zombie", "reaped"},
                                     stage : {"none"} \cup KnownStages, code : {"none", "zero", "other"}]]
        /\ Mine'.state = "reaped" /\ Mine'.stage = Mine.stage
        /\ \A a \in Attempt : a # attempt => backend'[a] = backend[a]
    BY <1>1 DEF Reaped, Mine
  <1>3. AdapterTypeOK'
    BY <1>2 DEF AdapterTypeOK
  <1>4. Begun' /\ Counted'
    BY <1>1 DEF Begun, Counted, Accepted
  <1>5. /\ InOrder' /\ AnswerTruthful' /\ EmittedOwn' /\ Name' = Name /\ Models'
    BY <1>1, <1>2, Apart DEF Mine
  <1>6. Child'
    BY <1>1, <1>2, <1>5 DEF Child
  <1>7. Orphans'
    BY <1>1, <1>2 DEF Orphans, Attempt
  <1> QED
    BY <1>3, <1>4, <1>5, <1>6, <1>7

\* Between two checks of the child.
LEMMA WatchInv ==
    ASSUME AdapterInv, phase \in {"poll", "alive"}, phase' \in {"poll", "alive"},
           UNCHANGED <<platform, doc, attempt, stage, token, answer, ran, backend, runVars, sparse,
                       emitted, lingering, deaths>>
    PROVE  AdapterInv'
  <1> USE DEF AdapterInv, runVars
  <1>1. Waiting /\ Waiting' /\ Mine' = Mine
    BY DEF Waiting, Mine
  <1>2. AdapterTypeOK'
    BY DEF AdapterTypeOK
  <1>3. Begun' /\ Counted'
    BY <1>1 DEF Begun, Counted, Accepted
  <1>4. /\ InOrder' /\ AnswerTruthful' /\ EmittedOwn' /\ Name' = Name /\ Models'
    BY <1>1, Apart
  <1>5. Child'
    BY <1>1, <1>4 DEF Child
  <1>6. Orphans'
    BY <1>1 DEF Orphans
  <1> QED
    BY <1>2, <1>3, <1>4, <1>5, <1>6

LEMMA PollInv ==
    ASSUME AdapterInv, PollPosix \/ PollWin32 \/ PollCancelled \/ PollTimedOut \/ PollAgain
    PROVE  AdapterInv'
  <1>1. CASE PollPosix \/ PollWin32
    BY <1>1, ReapedInv, WatchInv DEF PollPosix, PollWin32, Break, runVars
  <1>2. CASE PollCancelled
    BY <1>2, ReapedInv DEF PollCancelled, KillAndReap, Break
  <1>3. CASE PollTimedOut
    BY <1>3, ReapedInv DEF PollTimedOut, KillAndReap, Break
  <1>4. CASE PollAgain
    BY <1>4, WatchInv DEF PollAgain
  <1> QED
    BY <1>1, <1>2, <1>3, <1>4

\* A step of a reader or of the child that only moves units of output.
LEMMA OutputInv ==
    ASSUME AdapterInv, NEW s \in Stream, Waiting,
           UNCHANGED <<platform, doc, taskVars, backend, outcome, sparse, emitted, lingering, deaths>>,
           pipe' \in [Stream -> 0..PipeCapacity], wrote' \in [Stream -> Nat], captured' \in [Stream -> Nat],
           reader' \in [Stream -> {"draining", "done"}],
           \A u \in Stream \ {s} : /\ pipe'[u] = pipe[u] /\ wrote'[u] = wrote[u]
                                   /\ captured'[u] = captured[u] /\ reader'[u] = reader[u],
           wrote'[s] <= MaxOutput[s], wrote'[s] = captured'[s] + pipe'[s],
           reader[s] = "draining",
           reader'[s] = "done" => pipe'[s] = 0 /\ Mine.state # "running"
    PROVE  AdapterInv'
  <1> USE DEF AdapterInv, taskVars
  <1>1. Waiting' /\ Mine' = Mine /\ phase \in {"poll", "alive", "join"}
    BY DEF Waiting, Mine, Child
  <1>2. AdapterTypeOK'
    <2>1. \A u \in Stream : wrote'[u] \in 0..MaxOutput[u] /\ captured'[u] \in 0..wrote'[u]
      <3> SUFFICES ASSUME NEW u \in Stream
                   PROVE  wrote'[u] \in 0..MaxOutput[u] /\ captured'[u] \in 0..wrote'[u]
        OBVIOUS
      <3>1. CASE u = s
        BY <3>1, BoundAssumption
      <3>2. CASE u # s
        BY <3>2 DEF AdapterTypeOK
      <3> QED
        BY <3>1, <3>2
    <2> QED
      BY <2>1 DEF AdapterTypeOK
  <1>3. Begun'
    BY <1>1 DEF Begun, Accepted
  <1>4. Counted'
    BY DEF Counted
  <1>5. /\ InOrder' /\ AnswerTruthful' /\ EmittedOwn' /\ Name' = Name /\ Models'
    BY <1>1, Apart
  <1>6. Child'
    <2>1. \A u \in Stream :
             /\ reader'[u] # "none"
             /\ reader'[u] = "draining" => phase' \in {"poll", "alive", "join"}
             /\ reader'[u] # "draining" => pipe'[u] = 0
             /\ reader'[u] = "done" => Mine'.state # "running"
      BY <1>1 DEF Child
    <2> QED
      BY <1>1, <1>5, <2>1 DEF Child, Waiting
  <1>7. Orphans'
    BY <1>1 DEF Orphans
  <1> QED
    BY <1>2, <1>3, <1>4, <1>5, <1>6, <1>7

LEMMA Reading ==
    ASSUME AdapterInv, NEW s \in Stream, reader[s] = "draining"
    PROVE  /\ Waiting /\ pipe \in [Stream -> 0..PipeCapacity] /\ wrote \in [Stream -> Nat]
           /\ captured \in [Stream -> Nat] /\ reader \in [Stream -> {"draining", "done"}]
           /\ pipe[s] \in Nat /\ wrote[s] <= MaxOutput[s] /\ wrote[s] = captured[s] + pipe[s]
           /\ MaxOutput[s] \in Nat /\ PipeCapacity \in Nat
  <1>1. Waiting
    BY DEF AdapterInv, Child, Waiting
  <1>2. reader \in [Stream -> {"draining", "done"}]
    BY <1>1 DEF AdapterInv, AdapterTypeOK, Child
  <1> QED
    BY <1>1, <1>2, BoundAssumption DEF AdapterInv, AdapterTypeOK, Begun, Counted

LEMMA DrainInv ==
    ASSUME AdapterInv, NEW s \in Stream, Drain(s) \/ DrainEnds(s)
    PROVE  AdapterInv'
  <1>1. reader[s] = "draining"
    BY DEF Drain, DrainEnds
  <1>2. CASE Drain(s)
    <2>1. /\ pipe' = [pipe EXCEPT ![s] = 0] /\ captured' = [captured EXCEPT ![s] = @ + pipe[s]]
          /\ UNCHANGED <<platform, doc, taskVars, backend, wrote, reader, outcome, sparse, emitted,
                         lingering, deaths>>
      BY <1>2 DEF Drain
    <2>2. /\ pipe' \in [Stream -> 0..PipeCapacity] /\ captured' \in [Stream -> Nat]
          /\ pipe'[s] = 0 /\ captured'[s] = captured[s] + pipe[s]
          /\ \A u \in Stream \ {s} : pipe'[u] = pipe[u] /\ captured'[u] = captured[u]
      BY <1>1, <2>1, Reading
    <2>3. wrote'[s] = captured'[s] + pipe'[s]
      BY <1>1, <2>1, <2>2, Reading
    <2> QED
      BY <1>1, <2>1, <2>2, <2>3, Reading, OutputInv
  <1>3. CASE DrainEnds(s)
    <2>1. /\ reader' = [reader EXCEPT ![s] = "done"] /\ pipe[s] = 0 /\ Mine.state # "running"
          /\ UNCHANGED <<platform, doc, taskVars, backend, pipe, wrote, captured, outcome, sparse,
                         emitted, lingering, deaths>>
      BY <1>3 DEF DrainEnds, Dead
    <2>2. /\ reader' \in [Stream -> {"draining", "done"}]
          /\ \A u \in Stream \ {s} : reader'[u] = reader[u]
      BY <1>1, <2>1, Reading
    <2> QED
      BY <1>1, <2>1, <2>2, Reading, OutputInv
  <1> QED
    BY <1>2, <1>3

LEMMA PrintsInv ==
    ASSUME AdapterInv, NEW s \in Stream, BackendPrints(s)
    PROVE  AdapterInv'
  <1>1. /\ phase # "dead" /\ attempt > 0 /\ Mine.state = "running"
        /\ wrote[s] < MaxOutput[s] /\ pipe[s] < PipeCapacity
        /\ wrote' = [wrote EXCEPT ![s] = @ + 1] /\ pipe' = [pipe EXCEPT ![s] = @ + 1]
        /\ UNCHANGED <<platform, doc, taskVars, backend, captured, reader, outcome, sparse, emitted,
                       lingering, deaths>>
    BY DEF BackendPrints
  <1>2. Waiting
    BY <1>1 DEF AdapterInv, Orphans, Waiting
  <1>3. reader[s] = "draining"
    BY <1>1, <1>2 DEF AdapterInv, Child, AdapterTypeOK
  <1>4. /\ pipe' \in [Stream -> 0..PipeCapacity] /\ wrote' \in [Stream -> Nat]
        /\ pipe'[s] = pipe[s] + 1 /\ wrote'[s] = wrote[s] + 1
        /\ \A u \in Stream \ {s} : pipe'[u] = pipe[u] /\ wrote'[u] = wrote[u]
    BY <1>1, <1>3, Reading
  <1>5. wrote'[s] <= MaxOutput[s] /\ wrote'[s] = captured'[s] + pipe'[s]
    BY <1>1, <1>3, <1>4, Reading
  <1> QED
    BY <1>1, <1>2, <1>3, <1>4, <1>5, Reading, OutputInv

LEMMA JoinInv ==
    ASSUME AdapterInv, Join
    PROVE  AdapterInv'
  <1> USE DEF AdapterInv, runVars
  <1>1. /\ phase = "join" /\ Joined /\ phase' = "returned"
        /\ UNCHANGED <<platform, doc, attempt, stage, token, answer, ran, backend, runVars, sparse,
                       emitted, lingering, deaths>>
    BY DEF Join
  <1>2. Waiting /\ Waiting' /\ Mine' = Mine
    BY <1>1 DEF Waiting, Mine
  <1>3. AdapterTypeOK' /\ Begun' /\ Counted'
    BY <1>1, <1>2 DEF AdapterTypeOK, Begun, Counted, Accepted
  <1>4. /\ InOrder' /\ AnswerTruthful' /\ EmittedOwn' /\ Name' = Name /\ Models'
    BY <1>1, <1>2, Apart
  <1>5. Child'
    BY <1>1, <1>2, <1>4 DEF Child, Joined
  <1>6. Orphans'
    BY <1>1, <1>2 DEF Orphans
  <1> QED
    BY <1>3, <1>4, <1>5, <1>6

-----------------------------------------------------------------------------
(* Execute goes on, the backend, the canceller and death. *)

LEMMA AfterReturn ==
    ASSUME AdapterInv, phase = "returned"
    PROVE  /\ attempt \in Attempt /\ Waiting /\ Accepted
           /\ ran \in Seq([stage : KnownStages, end : {"running", "ok", "bad"}])
           /\ Len(ran) = stage /\ stage \in Nat /\ stage > 0 /\ stage <= Len(Plan(doc))
           /\ \A i \in 1..stage : ran[i].stage = Plan(doc)[i] /\ (i < stage => ran[i].end = "ok")
           /\ Mine.state = "reaped" /\ answer = "none"
           /\ outcome \in {"completed", "timedOut", "cancelled"} /\ (outcome = "cancelled" => token)
           /\ \A s \in Stream : reader[s] = "done" /\ pipe[s] = 0
  <1>1. Waiting /\ attempt \in Attempt
    BY Attempts DEF Waiting
  <1>2. /\ ran \in Seq([stage : KnownStages, end : {"running", "ok", "bad"}]) /\ stage \in Nat /\ stage > 0
        /\ Accepted /\ answer = "none"
    BY <1>1 DEF AdapterInv, Begun
  <1>3. /\ Len(ran) = stage /\ stage <= Len(Plan(doc))
        /\ \A i \in DOMAIN ran : ran[i].stage = Plan(doc)[i] /\ (i < Len(ran) => ran[i].end = "ok")
    BY <1>1 DEF AdapterInv, InOrder
  <1>4. /\ Mine.state = "reaped" /\ outcome \in {"completed", "timedOut", "cancelled"}
        /\ (outcome = "cancelled" => token)
        /\ \A s \in Stream : reader[s] = "done" /\ pipe[s] = 0
    BY DEF AdapterInv, AdapterTypeOK, Child, Joined
  <1> QED
    BY <1>1, <1>2, <1>3, <1>4

\* A stage is over: only how its last run ended is noted.
LEMMA EndedInv ==
    ASSUME AdapterInv, phase = "returned", NEW how \in {"ok", "bad"}, Ended(how)
    PROVE  /\ ran' \in Seq([stage : KnownStages, end : {"running", "ok", "bad"}])
           /\ Len(ran') = stage /\ DOMAIN ran' = 1..stage /\ DOMAIN ran = 1..stage
           /\ \A i \in 1..stage : ran'[i].stage = ran[i].stage /\ ran'[i].stage = Plan(doc)[i]
           /\ \A i \in 1..stage : i < stage => ran'[i].end = "ok"
           /\ ran'[stage].end = how /\ ran' # <<>>
           /\ MapperRan' = MapperRan /\ (MapperRan => Name = "mapper")
  <1> DEFINE R == [stage : KnownStages, end : {"running", "ok", "bad"}]
  <1>1. /\ ran \in Seq(R) /\ Len(ran) = stage /\ stage \in Nat /\ stage > 0 /\ stage <= Len(Plan(doc))
        /\ DOMAIN ran = 1..stage
        /\ \A i \in 1..stage : ran[i].stage = Plan(doc)[i] /\ (i < stage => ran[i].end = "ok")
    BY AfterReturn
  <1>2. ran' = [ran EXCEPT ![stage].end = how]
    BY <1>1 DEF Ended
  <1>3. ran' \in Seq(R) /\ Len(ran') = stage
    <2>1. ran \in [1..stage -> R]
      BY <1>1, LenProperties
    <2>2. ran' \in [1..stage -> R]
      BY <1>1, <1>2, <2>1
    <2> QED
      BY <1>1, <2>2
  <1>4. \A i \in 1..stage : ran'[i].stage = ran[i].stage /\ (i # stage => ran'[i] = ran[i])
    BY <1>1, <1>2
  <1>5. ran'[stage].end = how /\ DOMAIN ran' = 1..stage
    BY <1>1, <1>2
  <1>6. MapperRan' = MapperRan
    BY <1>1, <1>4, <1>5 DEF MapperRan
  <1>7. MapperRan => Name = "mapper"
    <2> SUFFICES ASSUME NEW i \in 1..stage, ran[i].stage = "mapper" PROVE Name = "mapper"
      BY <1>1 DEF MapperRan
    <2>1. Plan(doc)[i] = "mapper" /\ i \in 1..Len(Plan(doc))
      BY <1>1, PlanSeq
    <2>2. i = Len(Plan(doc))
      BY <2>1, MapperLast, AfterReturn
    <2>3. i = stage
      BY <1>1, <2>2, PlanSeq
    <2> QED
      BY <2>1, <2>3 DEF Name
  <1> QED
    BY <1>1, <1>3, <1>4, <1>5, <1>6, <1>7

LEMMA NextStageInv ==
    ASSUME AdapterInv, NextStage
    PROVE  AdapterInv'
  <1> USE DEF AdapterInv, runVars
  <1>1. /\ phase = "returned" /\ Ended("ok") /\ stage' = stage + 1 /\ phase' = "boundary"
        /\ UNCHANGED <<platform, doc, attempt, token, answer, backend, runVars, sparse, emitted,
                       lingering, deaths>>
    BY DEF NextStage
  <1>2. ~Waiting' /\ Mine' = Mine
    BY <1>1 DEF Waiting, Mine
  <1>3. /\ ran' \in Seq([stage : KnownStages, end : {"running", "ok", "bad"}])
        /\ Len(ran') = stage /\ DOMAIN ran' = 1..stage
        /\ \A i \in 1..stage : ran'[i].stage = Plan(doc)[i] /\ ran'[i].end = "ok"
        /\ MapperRan' = MapperRan /\ stage \in Nat /\ stage <= Len(Plan(doc))
    BY <1>1, EndedInv, AfterReturn
  <1>4. AdapterTypeOK'
    BY <1>1 DEF AdapterTypeOK
  <1>5. Begun' /\ Counted'
    BY <1>1, <1>2, <1>3, AfterReturn DEF Begun, Counted, Accepted
  <1>6. InOrder'
    BY <1>1, <1>2, <1>3 DEF InOrder
  <1>7. Child'
    BY <1>1, <1>2, AfterReturn DEF Child
  <1>8. Orphans'
    BY <1>1, <1>2 DEF Orphans
  <1>9. Models'
    <2>1. MapperPlanned' = MapperPlanned
      BY <1>1 DEF MapperPlanned
    <2> QED
      BY <1>1, <1>3, <2>1, AfterReturn DEF Models
  <1>10. AnswerTruthful' /\ EmittedOwn'
    BY <1>1, AfterReturn DEF AnswerTruthful, EmittedOwn
  <1> QED
    BY <1>4, <1>5, <1>6, <1>7, <1>8, <1>9, <1>10

LEMMA StageFailsInv ==
    ASSUME AdapterInv, StageFails
    PROVE  AdapterInv'
  <1> USE DEF AdapterInv, runVars
  <1>1. /\ phase = "returned" /\ Ended("bad") /\ phase' = "answered"
        /\ lingering' = IF Name = "mapper" THEN lingering \cup {attempt} ELSE lingering
        /\ UNCHANGED <<platform, doc, attempt, stage, token, backend, runVars, sparse, emitted, deaths>>
    BY DEF StageFails, Linger, Answer
  <1>2. \/ outcome = "timedOut" /\ answer' = "recoverable"
        \/ outcome = "cancelled" /\ answer' = "cancelled"
        \/ outcome = "completed" /\ answer' = "failed"
    BY <1>1, AfterReturn DEF StageFails, Answer
  <1>3. ~Waiting' /\ Mine' = Mine
    BY <1>1 DEF Waiting, Mine
  <1>4. /\ ran' \in Seq([stage : KnownStages, end : {"running", "ok", "bad"}])
        /\ Len(ran') = stage /\ DOMAIN ran' = 1..stage /\ stage \in Nat /\ stage > 0 /\ stage <= Len(Plan(doc))
        /\ \A i \in 1..stage : ran'[i].stage = Plan(doc)[i] /\ (i < stage => ran'[i].end = "ok")
        /\ ran'[stage].end = "bad"
        /\ MapperRan' = MapperRan /\ (MapperRan => Name = "mapper")
    BY <1>1, EndedInv, AfterReturn
  <1>5. AdapterTypeOK'
    <2>1. lingering' \subseteq Attempt
      BY <1>1, AfterReturn DEF AdapterTypeOK
    <2> QED
      BY <1>1, <1>2, <2>1 DEF AdapterTypeOK
  <1>6. Begun' /\ Counted'
    BY <1>1, <1>3, <1>4, AfterReturn DEF Begun, Counted, Accepted
  <1>7. InOrder'
    BY <1>1, <1>3, <1>4 DEF InOrder
  <1>8. Child'
    BY <1>1, <1>3, AfterReturn DEF Child
  <1>9. Orphans'
    BY <1>1, <1>3 DEF Orphans
  <1>10. Models'
    <2>1. MapperPlanned' = MapperPlanned
      BY <1>1 DEF MapperPlanned
    <2>2. lingering \subseteq lingering' /\ (MapperRan' => attempt \in lingering')
      BY <1>1, <1>4
    <2> QED
      BY <1>1, <1>4, <2>1, <2>2 DEF Models
  <1>11. AnswerTruthful'
    BY <1>1, <1>2, <1>4, AfterReturn DEF AnswerTruthful
  <1>12. EmittedOwn'
    BY <1>1 DEF EmittedOwn
  <1> QED
    BY <1>5, <1>6, <1>7, <1>8, <1>9, <1>10, <1>11, <1>12

LEMMA WritesModelInv ==
    ASSUME AdapterInv, NEW a \in Attempt, NEW f \in File, BackendWritesModel(a, f)
    PROVE  AdapterInv'
  <1> USE DEF AdapterInv, runVars, taskVars
  <1>1. /\ backend[a].state = "running" /\ backend[a].stage = "mapper"
        /\ sparse' = [sparse EXCEPT ![f] = a]
        /\ UNCHANGED <<platform, doc, taskVars, backend, runVars, emitted, lingering, deaths>>
    BY DEF BackendWritesModel
  <1>2. Waiting' = Waiting /\ Mine' = Mine /\ Name' = Name /\ MapperRan' = MapperRan
        /\ MapperPlanned' = MapperPlanned
    BY <1>1 DEF Waiting, Mine, Name, MapperRan, MapperPlanned
  <1>3. AdapterTypeOK'
    <2>1. sparse' \in Native
      BY <1>1, BoundAssumption DEF AdapterTypeOK, Native, Attempt
    <2> QED
      BY <1>1, <2>1 DEF AdapterTypeOK
  <1>4. Begun' /\ InOrder' /\ Counted'
    BY <1>1, <1>2 DEF Begun, InOrder, Counted, Accepted
  <1>5. Child' /\ Orphans'
    BY <1>1, <1>2 DEF Child, Orphans, Joined
  <1>6. Models'
    <2>1. a \in lingering \/ (a = attempt /\ MapperRan)
      BY <1>1 DEF Models
    <2>2. \A g \in File : sparse'[g] = IF g = f THEN a ELSE sparse[g]
      BY <1>1 DEF AdapterTypeOK, Native
    <2>3. \A g \in File : sparse'[g] # 0 =>
             sparse'[g] \in lingering \/ (sparse'[g] = attempt /\ MapperRan)
      BY <2>1, <2>2 DEF Models
    <2> QED
      BY <1>1, <1>2, <2>3 DEF Models
  <1>7. AnswerTruthful' /\ EmittedOwn'
    BY <1>1 DEF AnswerTruthful, EmittedOwn
  <1> QED
    BY <1>3, <1>4, <1>5, <1>6, <1>7

LEMMA ExitsInv ==
    ASSUME AdapterInv, NEW a \in Attempt, NEW code \in {"zero", "other"}, BackendExits(a, code)
    PROVE  AdapterInv'
  <1> USE DEF AdapterInv, runVars, taskVars
  <1> DEFINE B == [state : {"none", "running", "zombie", "reaped"},
                   stage : {"none"} \cup KnownStages, code : {"none", "zero", "other"}]
             left == IF a = attempt /\ phase # "dead" THEN "zombie" ELSE "reaped"
  <1>1. /\ backend[a].state = "running"
        /\ backend' = [backend EXCEPT ![a].code = code, ![a].state = left]
        /\ UNCHANGED <<platform, doc, taskVars, runVars, sparse, emitted, lingering, deaths>>
    BY DEF BackendExits
  <1>2. Waiting' = Waiting /\ Name' = Name /\ MapperRan' = MapperRan /\ MapperPlanned' = MapperPlanned
    BY <1>1 DEF Waiting, Name, MapperRan, MapperPlanned
  <1>3. backend \in [Attempt -> B]
    BY DEF AdapterTypeOK
  <1>4. /\ backend' \in [Attempt -> B]
        /\ backend'[a].state = left /\ backend'[a].stage = backend[a].stage
        /\ \A b \in Attempt : b # a => backend'[b] = backend[b]
    BY <1>1, <1>3
  <1>5. a <= attempt /\ a \in Nat /\ attempt \in Nat /\ (a = attempt => phase \in {"poll", "alive", "dead"})
    <2>1. a \in Nat /\ attempt \in Nat
      BY BoundAssumption DEF Attempt, AdapterTypeOK
    <2>2. a <= attempt
      BY <1>1, <2>1 DEF Orphans, None
    <2>3. a = attempt => phase \in {"poll", "alive", "dead"}
      BY <1>1, <2>1 DEF Orphans, Mine, Attempt
    <2> QED
      BY <2>1, <2>2, <2>3
  <1>6. AdapterTypeOK'
    BY <1>1, <1>4 DEF AdapterTypeOK
  <1>7. Begun' /\ InOrder' /\ Counted'
    BY <1>1, <1>2 DEF Begun, InOrder, Counted, Accepted
  <1>8. /\ attempt # a /\ attempt \in Attempt => Mine' = Mine
        /\ attempt = a => Mine'.state = left /\ Mine'.stage = Mine.stage
    BY <1>1, <1>4 DEF Mine
  <1>9. Child'
    <2>1. CASE attempt = a
      BY <1>1, <1>2, <1>5, <1>8, <2>1 DEF Child, Joined
    <2>2. CASE attempt # a
      <3>1. attempt \in Attempt
        BY <1>5, BoundAssumption DEF Attempt, AdapterTypeOK
      <3> QED
        BY <1>1, <1>2, <1>8, <2>2, <3>1 DEF Child, Joined
    <2> QED
      BY <2>1, <2>2
  <1>10. Orphans'
    <2>1. \A b \in Attempt : /\ b > attempt => backend'[b] = None
                             /\ b < attempt => backend'[b].state # "zombie"
                             /\ b < attempt /\ backend'[b].state = "running" => deaths > 0
      <3> SUFFICES ASSUME NEW b \in Attempt
                   PROVE  /\ b > attempt => backend'[b] = None
                          /\ b < attempt => backend'[b].state # "zombie"
                          /\ b < attempt /\ backend'[b].state = "running" => deaths > 0
        OBVIOUS
      <3>1. CASE b = a
        BY <1>4, <1>5, <3>1
      <3>2. CASE b # a
        BY <1>4, <3>2 DEF Orphans
      <3> QED
        BY <3>1, <3>2
    <2>2. attempt > 0 => attempt \in Attempt
      BY <1>5, BoundAssumption DEF Attempt, AdapterTypeOK
    <2>3. CASE attempt = a
      BY <1>1, <1>5, <1>8, <2>1, <2>3 DEF Orphans
    <2>4. CASE attempt # a
      BY <1>1, <1>8, <2>1, <2>2, <2>4 DEF Orphans
    <2> QED
      BY <2>3, <2>4
  <1>11. Models'
    <2>1. \A b \in Attempt : /\ backend'[b].stage = backend[b].stage
                             /\ backend'[b].state = "running" => backend[b].state = "running"
      BY <1>1, <1>4
    <2> QED
      BY <1>1, <1>2, <2>1 DEF Models
  <1>12. AnswerTruthful' /\ EmittedOwn'
    BY <1>1 DEF AnswerTruthful, EmittedOwn
  <1> QED
    BY <1>6, <1>7, <1>9, <1>10, <1>11, <1>12

LEMMA CancelInv ==
    ASSUME AdapterInv, Cancel
    PROVE  AdapterInv'
  <1> USE DEF AdapterInv, runVars
  <1>1. /\ phase \notin {"idle", "answered", "dead"} /\ token' = TRUE
        /\ UNCHANGED <<platform, doc, attempt, phase, stage, answer, ran, backend, runVars, sparse,
                       emitted, lingering, deaths>>
    BY DEF Cancel
  <1>2. Waiting' = Waiting /\ Mine' = Mine /\ Name' = Name /\ MapperRan' = MapperRan
        /\ MapperPlanned' = MapperPlanned
    BY <1>1 DEF Waiting, Mine, Name, MapperRan, MapperPlanned
  <1>3. AdapterTypeOK'
    BY <1>1 DEF AdapterTypeOK
  <1>4. Begun' /\ InOrder' /\ Counted'
    BY <1>1, <1>2 DEF Begun, InOrder, Counted, Accepted
  <1>5. Child' /\ Orphans'
    BY <1>1, <1>2 DEF Child, Orphans, Joined
  <1>6. Models'
    BY <1>1, <1>2 DEF Models
  <1>7. AnswerTruthful' /\ EmittedOwn'
    BY <1>1 DEF AnswerTruthful, EmittedOwn
  <1> QED
    BY <1>3, <1>4, <1>5, <1>6, <1>7

LEMMA DiesInv ==
    ASSUME AdapterInv, WorkerDies
    PROVE  AdapterInv'
  <1> USE DEF AdapterInv
  <1> DEFINE B == [state : {"none", "running", "zombie", "reaped"},
                   stage : {"none"} \cup KnownStages, code : {"none", "zero", "other"}]
  <1>1. /\ phase \notin {"idle", "answered", "dead"} /\ deaths < MaxDeaths /\ deaths' = deaths + 1
        /\ phase' = "dead"
        /\ lingering' = IF MapperRan THEN lingering \cup {attempt} ELSE lingering
        /\ backend' = [backend EXCEPT ![attempt].state = IF @ = "zombie" THEN "reaped" ELSE @]
        /\ pipe' = NothingRead /\ wrote' = NothingRead /\ captured' = NothingRead
        /\ reader' = [s \in Stream |-> "none"] /\ outcome' = "none"
        /\ UNCHANGED <<platform, doc, attempt, stage, token, answer, ran, sparse, emitted>>
    BY DEF WorkerDies, MapperRan
  <1>2. attempt \in Attempt /\ attempt \in Nat /\ attempt > 0 /\ answer = "none"
    BY <1>1, Attempts DEF Begun
  <1>3. backend \in [Attempt -> B]
    BY DEF AdapterTypeOK
  <1>4. /\ backend' \in [Attempt -> B]
        /\ Mine'.state = (IF Mine.state = "zombie" THEN "reaped" ELSE Mine.state)
        /\ Mine'.stage = Mine.stage
        /\ \A b \in Attempt : b # attempt => backend'[b] = backend[b]
        /\ \A b \in Attempt : /\ backend'[b].stage = backend[b].stage
                              /\ backend'[b].state = "running" => backend[b].state = "running"
    BY <1>1, <1>2, <1>3 DEF Mine
  <1>5. ~Waiting' /\ MapperRan' = MapperRan /\ MapperPlanned' = MapperPlanned
    BY <1>1 DEF Waiting, MapperRan, MapperPlanned
  <1>6. AdapterTypeOK'
    <2>1. pipe' \in [Stream -> 0..PipeCapacity] /\ reader' \in [Stream -> {"none", "draining", "done"}]
          /\ \A s \in Stream : wrote'[s] \in 0..MaxOutput[s] /\ captured'[s] \in 0..wrote'[s]
      BY <1>1, BoundAssumption DEF NothingRead
    <2>2. deaths' \in 0..MaxDeaths /\ lingering' \subseteq Attempt
      BY <1>1, <1>2, BoundAssumption DEF AdapterTypeOK
    <2> QED
      BY <1>1, <1>4, <2>1, <2>2 DEF AdapterTypeOK
  <1>7. Begun'
    BY <1>1, <1>2, <1>5 DEF Begun, Accepted, NothingRead
  <1>8. InOrder'
    BY <1>1, <1>5 DEF InOrder
  <1>9. Counted' /\ Child'
    BY <1>1, <1>5 DEF Counted, Child, NothingRead
  <1>10. Orphans'
    <2>1. deaths' > 0
      BY <1>1 DEF AdapterTypeOK
    <2>2. \A b \in Attempt : (b < attempt \/ b > attempt) => b # attempt
      BY <1>2 DEF Attempt
    <2> QED
      BY <1>1, <1>2, <1>4, <2>1, <2>2 DEF Orphans
  <1>11. Models'
    BY <1>1, <1>2, <1>4, <1>5 DEF Models
  <1>12. AnswerTruthful' /\ EmittedOwn'
    BY <1>1, <1>2 DEF AnswerTruthful, EmittedOwn
  <1> QED
    BY <1>6, <1>7, <1>8, <1>9, <1>10, <1>11, <1>12

LEMMA StutterInv ==
    ASSUME AdapterInv, UNCHANGED vars
    PROVE  AdapterInv'
  <1> USE DEF AdapterInv, vars, runVars, taskVars
  <1>1. Waiting' = Waiting /\ Mine' = Mine /\ Name' = Name /\ MapperRan' = MapperRan
        /\ MapperPlanned' = MapperPlanned
    BY DEF Waiting, Mine, Name, MapperRan, MapperPlanned
  <1>2. AdapterTypeOK'
    BY DEF AdapterTypeOK
  <1>3. Begun' /\ InOrder' /\ Counted'
    BY <1>1 DEF Begun, InOrder, Counted, Accepted
  <1>4. Child' /\ Orphans'
    BY <1>1 DEF Child, Orphans, Joined
  <1>5. Models'
    BY <1>1 DEF Models
  <1>6. AnswerTruthful' /\ EmittedOwn'
    BY DEF AnswerTruthful, EmittedOwn
  <1> QED
    BY <1>2, <1>3, <1>4, <1>5, <1>6

-----------------------------------------------------------------------------
(* Theorems. *)

\* The invariant holds at every step of RunSubprocess with its readers, of Execute, of
\* the backend, of the canceller and of the worker's death, on both platforms.
THEOREM AdapterInvariance == Spec => []AdapterInv
  <1>1. Init => AdapterInv
    BY InitInv
  <1>2. AdapterInv /\ [Next]_vars => AdapterInv'
    <2> SUFFICES ASSUME AdapterInv, [Next]_vars PROVE AdapterInv'
      OBVIOUS
    <2>1. CASE Dispatch
      BY <2>1, DispatchInv
    <2>2. CASE CreatePlan
      BY <2>2, CreatePlanInv
    <2>3. CASE MaterializeInputs
      BY <2>3, MaterializeInv
    <2>4. CASE Cancelled
      BY <2>4, CancelledInv
    <2>5. CASE SpawnPosix \/ SpawnWin32
      BY <2>5, SpawnInv
    <2>6. CASE PollPosix \/ PollWin32 \/ PollCancelled \/ PollTimedOut \/ PollAgain
      BY <2>6, PollInv
    <2>7. CASE \E s \in Stream : Drain(s) \/ DrainEnds(s)
      BY <2>7, DrainInv
    <2>8. CASE \E s \in Stream : BackendPrints(s)
      BY <2>8, PrintsInv
    <2>9. CASE Join
      BY <2>9, JoinInv
    <2>10. CASE NextStage
      BY <2>10, NextStageInv
    <2>11. CASE StageFails
      BY <2>11, StageFailsInv
    <2>12. CASE Discover
      BY <2>12, DiscoverInv
    <2>13. CASE \E a \in Attempt, f \in File : BackendWritesModel(a, f)
      BY <2>13, WritesModelInv
    <2>14. CASE \E a \in Attempt, code \in {"zero", "other"} : BackendExits(a, code)
      BY <2>14, ExitsInv
    <2>15. CASE Cancel
      BY <2>15, CancelInv
    <2>16. CASE WorkerDies
      BY <2>16, DiesInv
    <2>17. CASE UNCHANGED vars
      BY <2>17, StutterInv
    <2> QED
      BY <2>1, <2>2, <2>3, <2>4, <2>5, <2>6, <2>7, <2>8, <2>9, <2>10, <2>11, <2>12, <2>13, <2>14,
         <2>15, <2>16, <2>17
      DEF Next, WorkerStep
  <1> QED
    BY <1>1, <1>2, PTL DEF Spec

\* However the wait for a backend ended - by itself, by its deadline, by a cancellation,
\* on either platform -, once RunSubprocess has returned its child is reaped, its pipes
\* are empty and all it printed is captured; only a worker's death leaves a backend behind.
THEOREM SubprocessesEndClean == Spec => []SubprocessClean
  <1>1. ASSUME AdapterInv PROVE SubprocessClean
    <2> USE <1>1 DEF AdapterInv
    <2>1. phase \in {"returned", "boundary", "answered"} /\ attempt > 0 =>
            /\ Mine.state \in {"none", "reaped"}
            /\ \A s \in Stream : pipe[s] = 0 /\ reader[s] # "draining"
      BY DEF Child, Orphans
    <2>2. ASSUME NEW a \in Attempt, backend[a].state = "running", a # attempt PROVE deaths > 0
      <3>1. a \in Nat /\ attempt \in Nat
        BY BoundAssumption DEF Attempt, AdapterTypeOK
      <3>2. ~(a > attempt)
        BY <2>2 DEF Orphans, None
      <3> QED
        BY <2>2, <3>1, <3>2 DEF Orphans
    <2>3. ReturnsClean
      BY <2>1, <2>2 DEF ReturnsClean
    <2>4. CaptureComplete
      <3> SUFFICES ASSUME phase = "returned" PROVE captured = wrote
        BY DEF CaptureComplete
      <3>1. captured \in [Stream -> Nat] /\ wrote \in [Stream -> Nat]
        BY DEF Begun
      <3>2. \A s \in Stream : captured[s] = wrote[s]
        <4> SUFFICES ASSUME NEW s \in Stream PROVE captured[s] = wrote[s]
          OBVIOUS
        <4>1. wrote[s] = captured[s] + pipe[s] /\ pipe[s] = 0
          BY AfterReturn DEF Counted
        <4> QED
          BY <3>1, <4>1
      <3> QED
        BY <3>1, <3>2
    <2> QED
      BY <2>3, <2>4 DEF SubprocessClean
  <1> QED
    BY <1>1, AdapterInvariance, PTL

\* What an attempt tells the host is what it did: its stages in the canonical order, its
\* outcome, and a model whose files its own mapper wrote, unless an earlier attempt ended
\* while its mapper was on the way (ColmapAdapter::Execute, WorkerRunTask).
THEOREM AttemptsTellTheTruth == Spec => []AttemptTruthful
  <1>1. ASSUME AdapterInv PROVE AttemptTruthful
    <2> USE <1>1 DEF AdapterInv
    <2>1. StagesInOrder
      <3> SUFFICES ASSUME ran # <<>>
                   PROVE  /\ FromJson(doc)
                          /\ \A i \in DOMAIN ran : i < Len(ran) => ran[i].end = "ok"
                          /\ \A i, j \in DOMAIN ran : i < j =>
                               \E m, n \in DOMAIN ColmapStage :
                                  m < n /\ ColmapStage[m] = ran[i].stage /\ ColmapStage[n] = ran[j].stage
        BY DEF StagesInOrder
      <3>1. Accepted
        BY DEF Begun
      <3>2. /\ DOMAIN ran \subseteq 1..Len(Plan(doc))
            /\ \A i \in DOMAIN ran : ran[i].stage = Plan(doc)[i] /\ (i < Len(ran) => ran[i].end = "ok")
        BY PlanSeq DEF InOrder, Begun
      <3>3. \A i, j \in DOMAIN ran : i < j =>
              \E m, n \in DOMAIN ColmapStage :
                 m < n /\ ColmapStage[m] = Plan(doc)[i] /\ ColmapStage[n] = Plan(doc)[j]
        BY <3>1, <3>2, MapperLast
      <3> QED
        BY <3>1, <3>2, <3>3 DEF Accepted
    <2> QED
      BY <2>1 DEF AttemptTruthful
  <1> QED
    BY <1>1, AdapterInvariance, PTL
=============================================================================
