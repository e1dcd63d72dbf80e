-------------------------- MODULE SceneImportProofs --------------------------
(***************************************************************************)
(* Proofs about SceneImport for any processes, sensors, imports,            *)
(* trajectories and intervals and any number of commands and kills: a       *)
(* project has one scene with one history, which every query shows, and     *)
(* what the importers record is whole.                                      *)
(***************************************************************************)
EXTENDS SceneImport, FiniteSetTheorems, TLAPS

-----------------------------------------------------------------------------
(* The inductive invariant. *)

Putting == {"payload", "manifest", "row"}
Importing == {"session", "findScene", "createScene", "version", "file", "frame",
              "observation", "obsPayload"}
Placing == {"file", "frame", "observation", "obsPayload"}
Featuring == {"feature", "recordFeature"}
Writing == {"open", "commit"} \cup Putting \cup Importing \cup Featuring

\* Its command has the project open for writing.
Holds(p) ==
    \/ pc[p] \in Writing
    \/ pc[p] = "migrate" /\ job[p].then = "open"
    \/ pc[p] \in {"temp", "rename"} /\ job[p].after = "saved"

Stores(p, after) == pc[p] \in Putting /\ job[p].after = after

\* Types, and the fields of the records that are updated.
Typed ==
    /\ ImportTypeOK /\ ids >= 1
    /\ DOMAIN db = DOMAIN EmptyTables

TypedAt(p) == DOMAIN job[p] = DOMAIN NoJob /\ (pc[p] # "idle" => job[p].uuid \in 1..ids)

\* Only the holder of the lock has the project open for writing.
AloneAt(p) == Holds(p) => lock = p

\* What a process does next was decided when its command began; only the import of a
\* trajectory is ever inside a transaction.
CourseAt(p) ==
    /\ pc[p] \in {"root", "layout", "createDb"} => job[p].then = "temp" /\ job[p].after = "idle"
    /\ pc[p] \in {"lock", "reading"} => job[p].then = "open" /\ job[p].after = "idle"
    /\ pc[p] = "migrate" => job[p].then \in {"temp", "open"} /\ job[p].after = "idle"
    /\ pc[p] \in Putting => job[p].after \in {"frame", "commit", "recordFeature"}
    /\ job[p].begun <=> pc[p] = "commit" \/ Stores(p, "commit")

\* A manifest is on disk, or about to be, only after the last migration.
Migrated ==
    /\ schema \in 0..7 \cup {None}
    /\ (json # None \/ temp # None) => schema = 7

MigratedAt(p) ==
    /\ pc[p] \in {"temp", "rename", "insertProject"} => schema = 7
    /\ pc[p] = "migrate" => /\ schema \in 0..7
                            /\ job[p].applied \subseteq AppliedMigrationIds(schema)
    /\ (pc[p] \in {"lock", "reading"} \/ Holds(p)) => json # None

\* Rows of a project, a fresh id each.
Rooted ==
    /\ IsFiniteSet(db.projects)
    /\ \A x \in db.sessions : x.id \in Nat /\ x.id < ids /\ x.project \in db.projects
    /\ \A x, y \in db.sessions : x.id = y.id => x = y
    /\ \A s \in db.scenes : /\ s.id \in Nat /\ s.id < ids /\ s.project \in db.projects
                            /\ s.current \in Nat /\ s.current < ids
                            /\ DOMAIN s = {"id", "project", "current"}
    /\ \A a, b \in db.scenes : (a.id = b.id \/ a.project = b.project) => a = b

Versions(s) == {v \in db.versions : v.scene = s}

\* The versions of a scene: one without a parent, and one child for each but the
\* current one.
Chained ==
    /\ \A v \in db.versions :
        /\ v.id \in Nat /\ v.id < ids /\ v.scene \in Ids(db.scenes)
        /\ v.parent # None => v.parent \in Nat /\ v.parent < ids
    /\ \A s \in db.scenes :
        /\ \E v \in Versions(s.id) :
            v.parent = None /\ \A w \in Versions(s.id) : w.parent = None => w = v
        /\ \A v \in db.versions : v.id = s.current => v.scene = s.id
        /\ \A v \in Versions(s.id) : v.id = s.current =>
                \A w \in Versions(s.id) : w.parent # v.id
        /\ \A v \in Versions(s.id) : v.id # s.current =>
                \E w \in Versions(s.id) :
                    w.parent = v.id /\ \A u \in Versions(s.id) : u.parent = v.id => u = w

\* Every record belongs to records that are there, and agrees with them.
Recorded ==
    /\ \A f \in db.frames : f.session \in Ids(db.sessions) /\ f.scene \in Ids(db.scenes)
    /\ \A f, g \in db.frames : f.id = g.id => f = g
    /\ \A o \in db.observations : \E f \in db.frames :
        /\ f.id = o.frame /\ f.scene = o.scene /\ f.session = o.session
        /\ f.time = o.time /\ f.sensor = o.sensor
    /\ db.payloads \subseteq Ids(db.observations)
    /\ \A r \in db.rejections : r.session \in Ids(db.sessions)
    /\ \A x \in db.features : x.frame \in Ids(db.frames)
    /\ \A t \in db.trajectories : \E x \in db.sessions, s \in db.scenes :
        x.id = t.session /\ s.id = t.scene /\ x.project = s.project

\* What was stored as ref with the content h: its manifest stays, and of the content
\* the row of ref or of a later artifact.
Refers(d, M, ref, h) ==
    /\ ref \in Nat
    /\ \E m \in M : m.id = ref /\ m.hash = h
    /\ \E r \in d.artifacts : r.hash = h /\ ref <= r.id

\* Rows of artifacts lead to their content and records to their artifacts, in the
\* tables d with the manifests M, the payloads C and n the next identifier.
Content(d, M, C, n) ==
    /\ \A r \in d.artifacts : /\ r.id \in Nat /\ r.id < n /\ r.hash \in C
                              /\ \E m \in M : m.id = r.id /\ m.hash = r.hash
    /\ \A r, s \in d.artifacts : r.id = s.id => r = s
    /\ \A o \in d.observations : Refers(d, M, o.ref, o.id[4])
    /\ \A x \in d.features : \E r \in d.artifacts :
        r.id = x.ref /\ r.hash = x.id[3] /\ r.hash[1] = "feature"

Known ==
    /\ Content(db, manifests, cas, ids)
    /\ \A p \in Proc : job[p].begun => Content(job[p].tx, manifests, cas, ids)

\* No two calibrations of a sensor overlap, and versions count them.
Calibrated ==
    /\ IsFiniteSet(db.calibrations)
    /\ \A s \in db.sensors : DOMAIN s = {"id", "project", "status", "calibration"}
    /\ \A c \in db.calibrations :
        /\ c.sensor \in Ids(db.sensors) /\ c.from \in Nat /\ c.to \in Nat \cup {None}
        /\ c.version \in Nat
        /\ c.version <= Cardinality({d \in db.calibrations : d.sensor = c.sensor})
    /\ \A c, d \in db.calibrations :
        c.sensor = d.sensor /\ c # d => ~(c.from < End(d) /\ d.from < End(c))
    /\ \A s \in db.sensors, c \in db.calibrations :
        c.sensor = s.id => \E d \in db.calibrations :
            d.id = s.calibration /\ d.sensor = s.id /\ c.version <= d.version

-----------------------------------------------------------------------------
(* What a command knows between two steps. *)

ObservationId(j) == DeriveId("observation", j.sensor, j.time, j.file.content)

\* The session and the scene of an import.
Placed(p) ==
    /\ (pc[p] \in Importing \ {"session"} \/ Stores(p, "frame")) =>
            job[p].session \in Ids(db.sessions)
    /\ (pc[p] \in Placing \cup {"version"} \/ Stores(p, "frame")) =>
            job[p].scene \in Ids(db.scenes)
    /\ pc[p] = "createScene" => FindSceneByProject(db, job[p].uuid) = {}
    /\ (pc[p] \in Importing \/ Stores(p, "frame")) =>
            \A f \in job[p].files : f.kind # None /\ (f.kind = "image" => f.content[1] = "image")

\* The file an import is at.
Filed(p) ==
    /\ Stores(p, "frame") =>
        /\ job[p].puts = <<[id |-> None, hash |-> job[p].file.content, type |-> "image",
                            config |-> None, inputs |-> <<>>]>>
        /\ job[p].file.content[1] = "image"
    /\ (Stores(p, "frame") \/ pc[p] \in {"frame", "observation"}) =>
            ObservationId(job[p]) \notin Ids(db.observations)
    /\ pc[p] \in {"frame", "observation"} =>
            Refers(db, manifests, job[p].ref, job[p].file.content)
    /\ pc[p] = "observation" => FrameOf(job[p]) \in db.frames /\ job[p].sensor \in Ids(db.sensors)
    /\ pc[p] = "obsPayload" => /\ ObservationOf(job[p]) \in db.observations
                               /\ ObservationId(job[p]) \notin db.payloads

\* The observations a feature extraction is at.
Extracting(p) ==
    /\ (pc[p] \in Featuring \/ Stores(p, "recordFeature")) => job[p].obs \subseteq db.observations
    /\ (pc[p] = "recordFeature" \/ Stores(p, "recordFeature")) => job[p].ob \in db.observations
    /\ Stores(p, "recordFeature") =>
        \E m \in {job[p].puts[1]} :
            /\ job[p].puts = <<m>> /\ DOMAIN m = {"id", "hash", "type", "config", "inputs"}
            /\ m.type = "feature" /\ m.hash[1] = "feature"
    /\ pc[p] = "recordFeature" =>
        \E r \in db.artifacts : r.id = job[p].ref /\ r.hash[1] = "feature"

\* The artifact a process is storing.
Storing(p) ==
    /\ pc[p] \in Putting => job[p].instance \in BOOLEAN
    /\ pc[p] \in Putting /\ job[p].instance => job[p].after = "frame"
    /\ pc[p] \in {"manifest", "row"} =>
        /\ Head(job[p].puts).hash \in cas
        /\ ~job[p].instance => FindArtifactByHash(View(p), Head(job[p].puts).hash) = {}
    /\ pc[p] = "row" =>
        /\ Stamped(job[p], job[p].ref) \in manifests
        /\ job[p].ref \in Nat /\ job[p].ref < ids
        /\ \A r \in View(p).artifacts : r.id < job[p].ref

\* The three artifacts of a trajectory.
PutSource(source) ==
    [id |-> None, hash |-> source, type |-> "trajectory_source", config |-> None, inputs |-> <<>>]
PutConfig(source, config) ==
    [id |-> None, hash |-> config, type |-> "trajectory_configuration", config |-> None,
     inputs |-> <<source>>]
PutDocument(source, config, doc) ==
    [id |-> None, hash |-> doc, type |-> "trajectory", config |-> config, inputs |-> <<source, config>>]

Queued(puts, d, source, config, doc) ==
    \/ puts = <<PutSource(source), PutConfig(source, config), PutDocument(source, config, doc)>>
    \/ /\ puts = <<PutConfig(source, config), PutDocument(source, config, doc)>>
       /\ FindArtifactByHash(d, source) # {}
    \/ /\ puts = <<PutDocument(source, config, doc)>>
       /\ FindArtifactByHash(d, source) # {} /\ FindArtifactByHash(d, config) # {}
    \/ /\ puts = <<>>
       /\ FindArtifactByHash(d, source) # {} /\ FindArtifactByHash(d, config) # {}
       /\ FindArtifactByHash(d, doc) # {}

\* Consistent, by the content of the row r itself.
WholeRow(d, r, M, C) ==
    /\ \E m \in M : m.id = r.id /\ m.config = r.config
                   /\ m.inputs = <<SourceOf(r.config[5]), r.config>>
    /\ r.hash \in C /\ r.hash[3] = r.config[6]
    /\ \E t \in d.trajectories : /\ t.session = r.config[2] /\ t.id = r.hash[2]
                                 /\ t.scene = r.config[3] /\ t.doc = r.hash
    /\ FindArtifactByHash(d, SourceOf(r.config[5])) # {}
    /\ FindArtifactByHash(d, r.config) # {}

Whole(d, M, C) ==
    /\ \A r \in d.artifacts : r.type = "trajectory" => WholeRow(d, r, M, C)
    /\ \A t \in d.trajectories : FindArtifactByHash(d, t.doc) # {}

\* The row of a trajectory whose document is stored, before the trajectory is.
Pending(r, M, source, config, doc) ==
    /\ r.hash = doc /\ r.config = config
    /\ \E m \in M : m.id = r.id /\ m.config = config /\ m.inputs = <<source, config>>

WholeBut(d, M, C, source, config, doc) ==
    /\ \A r \in d.artifacts : r.type = "trajectory" =>
            WholeRow(d, r, M, C) \/ Pending(r, M, source, config, doc)
    /\ \A t \in d.trajectories : FindArtifactByHash(d, t.doc) # {}

Transacting(p, s, tum, nodes) ==
    LET j      == job[p]
        source == SourceOf(tum)
        config == ConfigOf(j.row.session, j.row.scene, s, tum, nodes)
        doc    == DocumentOf(j.row.id, nodes)
    IN  /\ j.row.doc = doc
        /\ pc[p] = "commit" <=> j.puts = <<>>
        /\ Queued(j.puts, j.tx, source, config, doc)
        /\ WholeBut(j.tx, manifests, cas, source, config, doc)

\* Inside the transaction of a trajectory only artifacts are written.
InTransaction(p) ==
    job[p].begun =>
        /\ DOMAIN job[p].tx = DOMAIN EmptyTables
        /\ \A t \in DOMAIN EmptyTables \ {"artifacts"} : job[p].tx[t] = db[t]
        /\ \E x \in db.sessions, s \in db.scenes :
            x.id = job[p].row.session /\ s.id = job[p].row.scene /\ x.project = s.project
        /\ \E s \in Sensor, tum \in Tums :
            \E nodes \in {NodesOf(db, job[p].row.session, job[p].row.scene, s, tum)} :
                Transacting(p, s, tum, nodes)

Local(p) == Placed(p) /\ Filed(p) /\ Extracting(p) /\ Storing(p) /\ InTransaction(p)

Held(p) == TypedAt(p) /\ AloneAt(p) /\ CourseAt(p) /\ MigratedAt(p) /\ Local(p)

\* The frames the kills have left incomplete.
Partial == {f \in db.frames : ~Completed(f)}

Parted == IsFiniteSet(Partial) /\ Cardinality(Partial) <= crashes

ImportInv ==
    /\ Typed /\ Migrated /\ Rooted /\ Chained /\ Recorded /\ Known
    /\ Whole(db, manifests, cas) /\ Calibrated /\ Parted
    /\ \A p \in Proc : Held(p)

-----------------------------------------------------------------------------
(* Records, steps and tables. *)

Tables ==
    {"projects", "sessions", "sensors", "calibrations", "scenes", "versions", "frames",
     "observations", "payloads", "rejections", "artifacts", "features", "trajectories"}

Fields ==
    {"uuid", "applied", "then", "files", "index", "session", "scene", "sensor", "time",
     "file", "puts", "instance", "ref", "after", "begun", "tx", "row", "obs", "ob"}

LEMMA Shapes == DOMAIN EmptyTables = Tables /\ DOMAIN NoJob = Fields
  BY DEF EmptyTables, NoJob, Tables, Fields

\* Go and Set are about one process.
LEMMA GoMoves ==
  ASSUME Typed, NEW p \in Proc, NEW label, label \in Labels, Go(p, label)
  PROVE  /\ pc' \in [Proc -> Labels] /\ pc'[p] = label
         /\ \A q \in Proc : q # p => pc'[q] = pc[q]
  BY DEF Typed, ImportTypeOK, Go

LEMMA SetMoves ==
  ASSUME Typed, NEW p \in Proc, NEW j, Set(p, j)
  PROVE  /\ DOMAIN job' = Proc /\ job'[p] = j
         /\ \A q \in Proc : q # p => job'[q] = job[q]
  BY DEF Typed, ImportTypeOK, Set

LEMMA LeaveMoves ==
  ASSUME Typed, NEW p \in Proc, Leave(p)
  PROVE  /\ pc' \in [Proc -> Labels] /\ pc'[p] = "idle"
         /\ DOMAIN job' = Proc /\ job'[p] = NoJob
         /\ \A q \in Proc : q # p => pc'[q] = pc[q] /\ job'[q] = job[q]
         /\ \A q \in Proc : q # p /\ lock = q => lock' = q
         /\ lock' \in Proc \cup {None}
  <1>1. "idle" \in Labels
    BY DEF Labels
  <1>2. Go(p, "idle") /\ Set(p, NoJob) /\ lock' = IF lock = p THEN None ELSE lock
    BY DEF Leave
  <1> QED
    BY <1>1, <1>2, GoMoves, SetMoves DEF Typed, ImportTypeOK

\* A command that ends knows nothing and holds nothing.
LEMMA Resting ==
  /\ NoJob.begun = FALSE /\ NoJob.after = "idle" /\ NoJob.uuid = None
  BY DEF NoJob

LEMMA Apart ==
  /\ None \notin Nat /\ None \notin Proc /\ Infinity \in Nat
  /\ \A i \in Imports : \A f \in i.files :
        f.kind # None /\ (f.kind = "image" => f.content[1] = "image")
  /\ \A v \in Validity : v.from \in Nat /\ v.to \in Nat \cup {None}
  BY ImportConstants DEF ImportConstants

\* A stored content has the fields of its description and its own identifier.
LEMMA StampedFields ==
  ASSUME NEW j, NEW i, NEW m, Head(j.puts) = m,
         DOMAIN m = {"id", "hash", "type", "config", "inputs"}
  PROVE  LET a == Stamped(j, i)
         IN  a.id = i /\ a.hash = m.hash /\ a.type = m.type /\ a.config = m.config
             /\ a.inputs = m.inputs
  BY DEF Stamped

-----------------------------------------------------------------------------
(* What a process leaves alone. *)

\* Tables of which only the projects may have grown.
SameTables ==
    /\ DOMAIN db' = Tables
    /\ \A t \in Tables \ {"projects"} : db'[t] = db[t]
    /\ db.projects \subseteq db'.projects /\ IsFiniteSet(db'.projects)

GrowingStore ==
    cas \subseteq cas' /\ manifests \subseteq manifests' /\ ids' \in Nat /\ ids <= ids'

LEMMA SameFields ==
  ASSUME SameTables
  PROVE  /\ db'.sessions = db.sessions /\ db'.sensors = db.sensors
         /\ db'.calibrations = db.calibrations /\ db'.scenes = db.scenes
         /\ db'.versions = db.versions /\ db'.frames = db.frames
         /\ db'.observations = db.observations /\ db'.payloads = db.payloads
         /\ db'.rejections = db.rejections /\ db'.artifacts = db.artifacts
         /\ db'.features = db.features /\ db'.trajectories = db.trajectories
  BY DEF SameTables, Tables

LEMMA ContentGrows ==
  ASSUME NEW d, NEW e, NEW M, NEW N, NEW C, NEW D, NEW m \in Nat, NEW n \in Nat,
         Content(d, M, C, m), M \subseteq N, C \subseteq D, m <= n,
         e.artifacts = d.artifacts, e.observations = d.observations, e.features = d.features
  PROVE  Content(e, N, D, n)
  <1>1. \A r \in e.artifacts : /\ r.id \in Nat /\ r.id < n /\ r.hash \in D
                               /\ \E x \in N : x.id = r.id /\ x.hash = r.hash
    BY DEF Content
  <1> QED
    BY <1>1 DEF Content, Refers

\* A row stays whole while contents, manifests and trajectories are only added.
LEMMA WholeRowGrows ==
  ASSUME NEW d, NEW e, NEW r, NEW M, NEW N, NEW C, NEW D, WholeRow(d, r, M, C),
         M \subseteq N, C \subseteq D, d.trajectories \subseteq e.trajectories,
         \A h : FindArtifactByHash(d, h) # {} => FindArtifactByHash(e, h) # {}
  PROVE  WholeRow(e, r, N, D)
  BY DEF WholeRow

LEMMA WholeGrows ==
  ASSUME NEW d, NEW e, NEW M, NEW N, NEW C, NEW D, Whole(d, M, C),
         M \subseteq N, C \subseteq D,
         e.artifacts = d.artifacts, e.trajectories = d.trajectories
  PROVE  Whole(e, N, D)
  <1>1. \A h : FindArtifactByHash(e, h) = FindArtifactByHash(d, h)
    BY DEF FindArtifactByHash
  <1>2. \A r \in e.artifacts : r.type = "trajectory" => WholeRow(e, r, N, D)
    BY <1>1, WholeRowGrows DEF Whole
  <1> QED
    BY <1>1, <1>2 DEF Whole

LEMMA WholeButGrows ==
  ASSUME NEW d, NEW M, NEW N, NEW C, NEW D, NEW source, NEW config, NEW doc,
         WholeBut(d, M, C, source, config, doc), M \subseteq N, C \subseteq D
  PROVE  WholeBut(d, N, D, source, config, doc)
  <1>1. \A r : Pending(r, M, source, config, doc) => Pending(r, N, source, config, doc)
    BY DEF Pending
  <1>2. \A r : WholeRow(d, r, M, C) => WholeRow(d, r, N, D)
    BY WholeRowGrows
  <1> QED
    BY <1>1, <1>2 DEF WholeBut

\* The records stay as they are.
LEMMA RecordsKept ==
  ASSUME Typed, Rooted, Chained, Recorded, Content(db, manifests, cas, ids),
         Whole(db, manifests, cas), Calibrated, SameTables, GrowingStore
  PROVE  /\ Rooted' /\ Chained' /\ Recorded' /\ Content(db', manifests', cas', ids')
         /\ Whole(db', manifests', cas') /\ Calibrated'
  <1> USE SameFields
  <1>1. ids \in Nat /\ ids' \in Nat /\ ids <= ids'
    BY DEF GrowingStore, Typed, ImportTypeOK
  <1>2. Rooted'
    BY <1>1 DEF Rooted, SameTables
  <1>3. Chained'
    BY <1>1 DEF Chained, Versions, Ids
  <1>4. Recorded'
    BY DEF Recorded, Ids
  <1>5. Content(db', manifests', cas', ids')
    BY <1>1, ContentGrows DEF GrowingStore
  <1>6. Whole(db', manifests', cas')
    BY WholeGrows DEF GrowingStore
  <1>7. Calibrated'
    BY DEF Calibrated, Ids
  <1> QED
    BY <1>2, <1>3, <1>4, <1>5, <1>6, <1>7

\* A process that is not the holder knows nothing of the tables.
LEMMA LocalElsewhere ==
  ASSUME NEW q \in Proc, CourseAt(q), ~Holds(q), pc'[q] = pc[q], job'[q] = job[q]
  PROVE  Local(q)'
  <1>1. pc[q] \notin Writing /\ ~job[q].begun
    BY DEF CourseAt, Holds, Stores, Writing, Putting
  <1>2. /\ ~Stores(q, "frame")' /\ ~Stores(q, "recordFeature")' /\ ~job'[q].begun
        /\ pc'[q] \notin Writing
    BY <1>1 DEF Stores, Writing, Putting
  <1> QED
    BY <1>2 DEF Local, Placed, Filed, Extracting, Storing, InTransaction, Writing, Putting,
                Importing, Placing, Featuring

\* What it knows while others leave the tables alone.
LEMMA LocalKept ==
  ASSUME Typed, NEW q \in Proc, Local(q), SameTables, GrowingStore,
         pc'[q] = pc[q], job'[q] = job[q], job[q].begun => db'.projects = db.projects
  PROVE  Local(q)'
  <1> USE SameFields
  <1>1. ids \in Nat /\ ids' \in Nat /\ ids <= ids' /\ cas \subseteq cas'
        /\ manifests \subseteq manifests'
    BY DEF GrowingStore, Typed, ImportTypeOK
  <1>2. \A a : Stores(q, a)' <=> Stores(q, a)
    BY DEF Stores
  <1>3. Placed(q)'
    BY <1>2 DEF Local, Placed, Ids, FindSceneByProject
  <1>4. Filed(q)'
    BY <1>1, <1>2 DEF Local, Filed, Ids, Refers
  <1>5. Extracting(q)'
    BY <1>2 DEF Local, Extracting
  <1>6. Storing(q)'
    <2>1. View(q)'.artifacts = View(q).artifacts
      BY DEF View
    <2>2. Storing(q)
      BY DEF Local
    <2> QED
      BY <1>1, <2>1, <2>2 DEF Storing, FindArtifactByHash
  <1>7. InTransaction(q)'
    <2> SUFFICES ASSUME job[q].begun
                 PROVE  InTransaction(q)'
      BY DEF InTransaction
    <2>1. InTransaction(q)
      BY DEF Local
    <2>2. /\ DOMAIN job[q].tx = DOMAIN EmptyTables
          /\ \A t \in DOMAIN EmptyTables \ {"artifacts"} : job[q].tx[t] = db'[t]
      BY <2>1, Shapes DEF InTransaction, Tables, SameTables
    <2>3. \E x \in db.sessions, s \in db.scenes :
            x.id = job[q].row.session /\ s.id = job[q].row.scene /\ x.project = s.project
      BY <2>1 DEF InTransaction
    <2>4. PICK s \in Sensor, tum \in Tums :
            Transacting(q, s, tum, NodesOf(db, job[q].row.session, job[q].row.scene, s, tum))
      BY <2>1 DEF InTransaction
    <2>5. NodesOf(db, job[q].row.session, job[q].row.scene, s, tum)
            = NodesOf(db', job[q].row.session, job[q].row.scene, s, tum)
      BY DEF NodesOf, MatchingFrames, FindFramesBySession
    <2> DEFINE nodes == NodesOf(db', job[q].row.session, job[q].row.scene, s, tum)
    <2>6. Transacting(q, s, tum, nodes)
      BY <2>4, <2>5
    <2>7. LET source == SourceOf(tum)
              config == ConfigOf(job[q].row.session, job[q].row.scene, s, tum, nodes)
              doc    == DocumentOf(job[q].row.id, nodes)
          IN  /\ job[q].row.doc = doc
              /\ pc[q] = "commit" <=> job[q].puts = <<>>
              /\ Queued(job[q].puts, job[q].tx, source, config, doc)
              /\ WholeBut(job[q].tx, manifests', cas', source, config, doc)
      <3> HIDE DEF nodes
      <3> QED
        BY <2>6, <1>1, WholeButGrows DEF Transacting
    <2> QED
      BY <2>2, <2>3, <2>7 DEF InTransaction, Transacting
  <1> QED
    BY <1>3, <1>4, <1>5, <1>6, <1>7 DEF Local

\* The last migration stays applied.
Advancing ==
    /\ schema' = schema \/ (schema = None /\ schema' = 0)
         \/ (schema \in 0..6 /\ schema' = schema + 1)
    /\ json # None => json' # None

LEMMA OtherHeld ==
  ASSUME Typed, NEW q \in Proc, Held(q), Migrated, Advancing, pc'[q] = pc[q], job'[q] = job[q],
         ids' \in Nat, ids <= ids', lock = q => lock' = q
  PROVE  TypedAt(q)' /\ AloneAt(q)' /\ CourseAt(q)' /\ MigratedAt(q)'
  <1>1. Holds(q)' <=> Holds(q)
    BY DEF Holds
  <1>2. TypedAt(q)'
    BY DEF Held, TypedAt, Typed, ImportTypeOK
  <1>3. AloneAt(q)'
    BY <1>1 DEF Held, AloneAt
  <1>4. CourseAt(q)'
    BY DEF Held, CourseAt, Stores
  <1>5. MigratedAt(q)'
    <2>1. schema \in 0..7 => AppliedMigrationIds(schema) \subseteq AppliedMigrationIds(schema')
      BY Apart DEF Advancing, AppliedMigrationIds
    <2> QED
      BY <1>1, <2>1, Apart DEF Held, MigratedAt, Advancing
  <1> QED
    BY <1>2, <1>3, <1>4, <1>5

LEMMA PartialBounds ==
  ASSUME Parted, ImportTypeOK
  PROVE  Cardinality(Partial) \in Nat /\ crashes \in Nat
  BY FS_CardinalityType, ImportConstants DEF Parted, ImportTypeOK

\* Without a kill no frame becomes incomplete.
LEMMA NoNewPartial ==
  ASSUME Parted, ImportTypeOK, crashes' = crashes,
         \A f \in db'.frames :
            (f \in db.frames => Completed(f)) =>
                \/ \E q \in Proc : /\ pc'[q] \in {"observation", "obsPayload"}
                                  /\ FrameOf(job'[q]).id = f.id
                \/ \E o \in FindObservationsByFrame(db', f.id) : o.id \in db'.payloads
  PROVE  Parted'
  <1>1. Partial' \subseteq Partial
    BY DEF Partial, Completed
  <1>2. IsFiniteSet(Partial') /\ Cardinality(Partial') <= Cardinality(Partial)
    BY <1>1, FS_Subset DEF Parted
  <1>3. Cardinality(Partial') \in Nat
    BY <1>2, FS_CardinalityType
  <1> QED
    BY <1>2, <1>3, PartialBounds DEF Parted

\* A kill makes the frame of its process incomplete.
LEMMA OneNewPartial ==
  ASSUME Parted, ImportTypeOK, Recorded, crashes' = crashes + 1, NEW i,
         \A f \in db'.frames : f \in db.frames /\ (f.id # i /\ Completed(f) => Completed(f)')
  PROVE  Parted'
  <1>1. CASE \E f \in db.frames : f.id = i
    <2>1. PICK f \in db.frames : f.id = i
      BY <1>1
    <2>2. Partial' \subseteq Partial \cup {f}
      BY <2>1 DEF Partial, Recorded
    <2>3. /\ IsFiniteSet(Partial \cup {f})
          /\ Cardinality(Partial \cup {f}) <= Cardinality(Partial) + 1
      <3>1. IsFiniteSet(Partial)
        BY DEF Parted
      <3>2. /\ IsFiniteSet(Partial \cup {f})
            /\ \/ Cardinality(Partial \cup {f}) = Cardinality(Partial)
               \/ Cardinality(Partial \cup {f}) = Cardinality(Partial) + 1
        BY <3>1, FS_AddElement
      <3> QED
        BY <3>2, PartialBounds
    <2>4. IsFiniteSet(Partial') /\ Cardinality(Partial') <= Cardinality(Partial \cup {f})
      BY <2>2, <2>3, FS_Subset
    <2>5. Cardinality(Partial') \in Nat /\ Cardinality(Partial \cup {f}) \in Nat
      BY <2>3, <2>4, FS_CardinalityType
    <2> QED
      BY <2>3, <2>4, <2>5, PartialBounds DEF Parted
  <1>2. CASE ~\E f \in db.frames : f.id = i
    <2>1. Partial' \subseteq Partial
      BY <1>2 DEF Partial
    <2>2. IsFiniteSet(Partial') /\ Cardinality(Partial') <= Cardinality(Partial)
      BY <2>1, FS_Subset DEF Parted
    <2>3. Cardinality(Partial') \in Nat
      BY <2>2, FS_CardinalityType
    <2> QED
      BY <2>2, <2>3, PartialBounds DEF Parted
  <1> QED
    BY <1>1, <1>2

\* A step of p that leaves the tables alone.
LEMMA QuietStep ==
  ASSUME ImportInv, NEW p \in Proc, SameTables, GrowingStore, Advancing, Typed', Migrated',
         \A q \in Proc : q # p =>
            pc'[q] = pc[q] /\ job'[q] = job[q] /\ (lock = q => lock' = q)
              /\ (job[q].begun => db'.projects = db.projects),
         crashes' # crashes \/ pc[p] \notin {"observation", "obsPayload"},
         crashes' = crashes \/ crashes' = crashes + 1,
         Held(p)', job'[p].begun => Content(job'[p].tx, manifests', cas', ids')
  PROVE  ImportInv'
  <1> USE DEF ImportInv
  <1>1. /\ Rooted' /\ Chained' /\ Recorded' /\ Content(db', manifests', cas', ids')
        /\ Whole(db', manifests', cas') /\ Calibrated'
    BY RecordsKept DEF Known
  <1>2. ids \in Nat /\ ids' \in Nat /\ ids <= ids'
    BY DEF GrowingStore, Typed, ImportTypeOK
  <1>3. \A q \in Proc : Held(q)'
    <2> SUFFICES ASSUME NEW q \in Proc, q # p
                 PROVE  Held(q)'
      OBVIOUS
    <2>1. Local(q)'
      BY LocalKept DEF Held
    <2> QED
      BY <1>2, <2>1, OtherHeld DEF Held
  <1>4. Known'
    <2>1. \A q \in Proc : job'[q].begun => Content(job'[q].tx, manifests', cas', ids')
      <3> SUFFICES ASSUME NEW q \in Proc, q # p, job[q].begun
                   PROVE  Content(job[q].tx, manifests', cas', ids')
        OBVIOUS
      <3> QED
        BY <1>2, ContentGrows DEF Known, GrowingStore
    <2> QED
      BY <1>1, <2>1 DEF Known
  <1>5. \A f \in db.frames :
            (crashes' # crashes => f.id # FrameOf(job[p]).id) /\ Completed(f) => Completed(f)'
    <2> SUFFICES ASSUME NEW f \in db.frames, crashes' # crashes => f.id # FrameOf(job[p]).id,
                        Completed(f)
                 PROVE  \/ \E q \in Proc : /\ pc'[q] \in {"observation", "obsPayload"}
                                           /\ FrameOf(job'[q]).id = f.id
                        \/ \E o \in FindObservationsByFrame(db', f.id) : o.id \in db'.payloads
      BY DEF Completed
    <2>1. CASE \E q \in Proc : /\ pc[q] \in {"observation", "obsPayload"}
                               /\ FrameOf(job[q]).id = f.id
      <3>1. PICK q \in Proc : pc[q] \in {"observation", "obsPayload"} /\ FrameOf(job[q]).id = f.id
        BY <2>1
      <3>2. pc'[q] = pc[q] /\ job'[q] = job[q]
        BY <3>1
      <3> QED
        BY <3>1, <3>2
    <2>2. CASE \E o \in FindObservationsByFrame(db, f.id) : o.id \in db.payloads
      BY <2>2, SameFields DEF FindObservationsByFrame
    <2> QED
      BY <2>1, <2>2 DEF Completed
  <1>6. Parted'
    <2>1. ImportTypeOK /\ db'.frames = db.frames
      BY SameFields DEF Typed
    <2>2. CASE crashes' = crashes
      <3> SUFFICES ASSUME NEW f \in db'.frames, f \in db.frames => Completed(f)
                   PROVE  \/ \E q \in Proc : /\ pc'[q] \in {"observation", "obsPayload"}
                                             /\ FrameOf(job'[q]).id = f.id
                          \/ \E o \in FindObservationsByFrame(db', f.id) : o.id \in db'.payloads
        BY <2>1, <2>2, NoNewPartial
      <3>1. Completed(f)'
        BY <1>5, <2>1, <2>2
      <3> QED
        BY <3>1 DEF Completed
    <2>3. CASE crashes' = crashes + 1
      <3>1. crashes' # crashes
        BY <2>1, <2>3, PartialBounds
      <3>2. \A f \in db.frames : f.id # FrameOf(job[p]).id /\ Completed(f) => Completed(f)'
        BY <1>5, <3>1
      <3> QED
        BY <2>1, <2>3, <3>2, OneNewPartial
    <2> QED
      BY <2>2, <2>3
  <1> QED
    BY <1>1, <1>3, <1>4, <1>6

\* No other process holds the lock.
LEMMA OnlyHolder ==
  ASSUME ImportInv, NEW p \in Proc, NEW q \in Proc, Holds(p), p # q
  PROVE  ~Holds(q) /\ lock = p /\ ~job[q].begun
  BY DEF ImportInv, Held, AloneAt, CourseAt, Holds, Stores, Writing

LEMMA SameWhenUnchanged ==
  ASSUME Typed, Rooted, UNCHANGED db
  PROVE  SameTables
  BY Shapes DEF SameTables, Typed, Rooted

-----------------------------------------------------------------------------
(* The steps that write no table: Create, Open, Save, and every way to end. *)

Plain == {"idle", "root", "layout", "createDb", "migrate", "temp", "rename", "insertProject",
          "lock", "reading", "open"}

LEMMA LocalPlain ==
  ASSUME NEW p \in Proc, pc'[p] \in Plain, ~job'[p].begun
  PROVE  Local(p)'
  BY DEF Local, Placed, Filed, Extracting, Storing, InTransaction, Stores, Plain, Putting,
         Importing, Placing, Featuring

LEMMA HeldIdle ==
  ASSUME NEW p \in Proc, pc'[p] = "idle", job'[p] = NoJob
  PROVE  Held(p)'
  <1>1. Local(p)'
    BY LocalPlain, Resting DEF Plain
  <1> QED
    BY <1>1, Resting DEF Held, TypedAt, AloneAt, CourseAt, MigratedAt, Holds, Stores, Writing,
                         Putting, Importing, Featuring

\* A step that changes one process and nothing else.
LEMMA PlainStep ==
  ASSUME ImportInv, NEW p \in Proc, UNCHANGED <<db, store, schema, disk>>,
         pc' \in [Proc -> Labels], DOMAIN job' = Proc, lock' \in Proc \cup {None},
         ids' \in Nat, ids <= ids', commands' \in 0..MaxCommands, crashes' \in 0..MaxCrashes,
         \A q \in Proc : q # p =>
            pc'[q] = pc[q] /\ job'[q] = job[q] /\ (lock = q => lock' = q),
         crashes' # crashes \/ pc[p] \notin {"observation", "obsPayload"},
         crashes' = crashes \/ crashes' = crashes + 1,
         Held(p)', job'[p].begun => Content(job'[p].tx, manifests, cas, ids')
  PROVE  ImportInv'
  <1> USE DEF ImportInv
  <1>1. SameTables /\ GrowingStore
    BY SameWhenUnchanged DEF GrowingStore, store, Typed, ImportTypeOK
  <1>2. Advancing /\ Migrated'
    BY DEF Advancing, Migrated, disk
  <1>3. Typed'
    BY DEF Typed, ImportTypeOK, disk
  <1>4. job'[p].begun => Content(job'[p].tx, manifests', cas', ids')
    BY DEF store
  <1> HIDE DEF ImportInv
  <1> QED
    BY <1>1, <1>2, <1>3, <1>4, QuietStep

LEMMA LeaveStep ==
  ASSUME ImportInv, NEW p \in Proc, Leave(p), UNCHANGED <<db, store, schema, disk, commands>>,
         ids' \in Nat, ids <= ids', crashes' \in 0..MaxCrashes,
         crashes' # crashes \/ pc[p] \notin {"observation", "obsPayload"},
         crashes' = crashes \/ crashes' = crashes + 1
  PROVE  ImportInv'
  <1>1. /\ pc' \in [Proc -> Labels] /\ pc'[p] = "idle" /\ DOMAIN job' = Proc /\ job'[p] = NoJob
        /\ \A q \in Proc : q # p => pc'[q] = pc[q] /\ job'[q] = job[q]
        /\ \A q \in Proc : q # p /\ lock = q => lock' = q
        /\ lock' \in Proc \cup {None}
    BY LeaveMoves DEF ImportInv
  <1>2. Held(p)' /\ ~job'[p].begun
    BY <1>1, HeldIdle, Resting
  <1>3. commands' \in 0..MaxCommands
    BY DEF ImportInv, Typed, ImportTypeOK
  <1> QED
    BY <1>1, <1>2, <1>3, PlainStep

LEMMA CrashKeeps ==
  ASSUME ImportInv, NEW p \in Proc, Crash(p)
  PROVE  ImportInv'
  <1>1. /\ crashes' \in 0..MaxCrashes /\ crashes' # crashes /\ crashes' = crashes + 1
        /\ ids' \in Nat /\ ids <= ids'
    BY ImportConstants DEF Crash, ImportInv, Typed, ImportTypeOK
  <1> QED
    BY <1>1, LeaveStep DEF Crash

LEMMA EndReadingKeeps ==
  ASSUME ImportInv, NEW p \in Proc, EndReading(p)
  PROVE  ImportInv'
  <1>1. crashes' \in 0..MaxCrashes /\ crashes' = crashes /\ ids' \in Nat /\ ids <= ids'
    BY DEF EndReading, ImportInv, Typed, ImportTypeOK, counts
  <1> QED
    BY <1>1, LeaveStep DEF EndReading, counts

\* A step that moves p to a label of Create and Open.
LEMMA MoveStep ==
  ASSUME ImportInv, NEW p \in Proc, UNCHANGED <<db, store, lock>>, Typed', Migrated', Advancing,
         GrowingStore, crashes' = crashes,
         \A q \in Proc : q # p => pc'[q] = pc[q] /\ job'[q] = job[q],
         pc[p] \notin {"observation", "obsPayload"}, pc'[p] \in Plain, ~job'[p].begun,
         TypedAt(p)', AloneAt(p)', CourseAt(p)', MigratedAt(p)'
  PROVE  ImportInv'
  <1>1. SameTables
    BY SameWhenUnchanged DEF ImportInv
  <1>2. Held(p)'
    BY LocalPlain DEF Held
  <1> QED
    BY <1>1, <1>2, QuietStep

LEMMA InitCheckKeeps ==
  ASSUME ImportInv, NEW p \in Proc, InitCheck(p)
  PROVE  ImportInv'
  <1> DEFINE j == [NoJob EXCEPT !.uuid = ids, !.then = "temp"]
  <1>1. /\ DOMAIN j = DOMAIN NoJob /\ j.uuid = ids /\ j.then = "temp" /\ j.after = "idle"
        /\ j.begun = FALSE
    BY Shapes, Resting DEF Fields
  <1> HIDE DEF j
  <1>2. /\ pc' \in [Proc -> Labels] /\ pc'[p] = "root" /\ DOMAIN job' = Proc /\ job'[p] = j
        /\ \A q \in Proc : q # p => pc'[q] = pc[q] /\ job'[q] = job[q]
    BY GoMoves, SetMoves DEF InitCheck, ImportInv, Labels, j
  <1>3. Typed' /\ ids' \in Nat /\ ids <= ids' /\ ids \in 1..ids'
    BY <1>2, ImportConstants DEF InitCheck, ImportInv, Typed, ImportTypeOK, disk
  <1>4. Migrated' /\ Advancing /\ GrowingStore
    BY <1>3 DEF InitCheck, ImportInv, Migrated, Advancing, GrowingStore, disk, store
  <1>5. TypedAt(p)' /\ AloneAt(p)' /\ CourseAt(p)' /\ MigratedAt(p)'
    BY <1>1, <1>2, <1>3 DEF TypedAt, AloneAt, CourseAt, MigratedAt, Holds, Stores, Writing,
                            Putting, Importing, Featuring
  <1> QED
    BY <1>1, <1>2, <1>3, <1>4, <1>5, MoveStep DEF InitCheck, Plain

LEMMA MakeRootKeeps ==
  ASSUME ImportInv, NEW p \in Proc, MakeRoot(p)
  PROVE  ImportInv'
  <1> USE DEF ImportInv
  <1>1. /\ pc' \in [Proc -> Labels] /\ pc'[p] = "layout" /\ job' = job
        /\ \A q \in Proc : q # p => pc'[q] = pc[q]
    BY GoMoves DEF MakeRoot, Labels
  <1>2. Typed' /\ Migrated' /\ Advancing /\ GrowingStore
    BY <1>1 DEF MakeRoot, Typed, ImportTypeOK, Migrated, Advancing, GrowingStore, store, counts,
                Dirs
  <1>3. TypedAt(p) /\ CourseAt(p) /\ pc[p] = "root"
    BY DEF MakeRoot, Held
  <1>4. TypedAt(p)' /\ AloneAt(p)' /\ CourseAt(p)' /\ MigratedAt(p)' /\ ~job'[p].begun
    BY <1>1, <1>3 DEF MakeRoot, TypedAt, AloneAt, CourseAt, MigratedAt, Holds, Stores, Writing,
                      Putting, Importing, Featuring
  <1> HIDE DEF ImportInv
  <1> QED
    BY <1>1, <1>2, <1>3, <1>4, MoveStep DEF MakeRoot, Plain, counts

LEMMA MakeLayoutKeeps ==
  ASSUME ImportInv, NEW p \in Proc, MakeLayout(p)
  PROVE  ImportInv'
  <1> USE DEF ImportInv
  <1>1. /\ pc' \in [Proc -> Labels] /\ pc'[p] = "createDb" /\ job' = job
        /\ \A q \in Proc : q # p => pc'[q] = pc[q]
    BY GoMoves DEF MakeLayout, Labels
  <1>2. Typed' /\ Migrated' /\ Advancing /\ GrowingStore
    BY <1>1 DEF MakeLayout, Typed, ImportTypeOK, Migrated, Advancing, GrowingStore, store, counts
  <1>3. TypedAt(p) /\ CourseAt(p) /\ pc[p] = "layout"
    BY DEF MakeLayout, Held
  <1>4. TypedAt(p)' /\ AloneAt(p)' /\ CourseAt(p)' /\ MigratedAt(p)' /\ ~job'[p].begun
    BY <1>1, <1>3 DEF MakeLayout, TypedAt, AloneAt, CourseAt, MigratedAt, Holds, Stores, Writing,
                      Putting, Importing, Featuring
  <1> HIDE DEF ImportInv
  <1> QED
    BY <1>1, <1>2, <1>3, <1>4, MoveStep DEF MakeLayout, Plain, counts

LEMMA CreateDbKeeps ==
  ASSUME ImportInv, NEW p \in Proc, CreateDb(p)
  PROVE  ImportInv'
  <1> USE DEF ImportInv
  <1> DEFINE j == [job[p] EXCEPT !.applied = AppliedMigrationIds(schema')]
  <1>1. TypedAt(p) /\ CourseAt(p) /\ pc[p] = "createDb"
    BY DEF CreateDb, Held
  <1>2. /\ DOMAIN j = DOMAIN NoJob /\ j.uuid = job[p].uuid /\ j.then = "temp" /\ j.after = "idle"
        /\ j.begun = job[p].begun /\ j.applied = AppliedMigrationIds(schema')
    BY <1>1, Shapes DEF Fields, TypedAt, CourseAt
  <1> HIDE DEF j
  <1>3. /\ pc' \in [Proc -> Labels] /\ pc'[p] = "migrate" /\ DOMAIN job' = Proc /\ job'[p] = j
        /\ \A q \in Proc : q # p => pc'[q] = pc[q] /\ job'[q] = job[q]
    BY GoMoves, SetMoves DEF CreateDb, Labels, j
  <1>4. schema' = IF schema = None THEN 0 ELSE schema
    BY DEF CreateDb
  <1>5. Typed' /\ Migrated' /\ Advancing /\ GrowingStore /\ schema' \in 0..7
    BY <1>3, <1>4, Apart DEF CreateDb, Typed, ImportTypeOK, Migrated, Advancing, GrowingStore, store,
                             counts, disk, Migrations
  <1>6. TypedAt(p)' /\ AloneAt(p)' /\ CourseAt(p)' /\ MigratedAt(p)' /\ ~job'[p].begun
    BY <1>1, <1>2, <1>3, <1>5 DEF CreateDb, TypedAt, AloneAt, CourseAt, MigratedAt, Holds, Stores,
                      Writing, Putting, Importing, Featuring
  <1> HIDE DEF ImportInv
  <1> QED
    BY <1>1, <1>3, <1>5, <1>6, MoveStep DEF CreateDb, Plain, counts

\* The least migration that is not applied, if there is one.
LEMMA NextMigrationIs ==
  ASSUME NEW applied
  PROVE  LET i == NextMigration(applied)
         IN  \/ i = None /\ \A k \in 1..7 : Migrations[k] \in applied
             \/ i \in 1..7
  <1> DEFINE open == {k \in DOMAIN Migrations : Migrations[k] \notin applied}
  <1>1. DOMAIN Migrations = 1..7
    BY DEF Migrations
  <1>2. CASE open = {}
    BY <1>1, <1>2 DEF NextMigration
  <1>3. CASE open # {}
    <2>1. open \subseteq 1..7
      BY <1>1
    <2>2. \E m \in open : \A k \in open : m <= k
      <3> HIDE DEF open
      <3>1. \A k \in open : k \in {1, 2, 3, 4, 5, 6, 7}
        BY <2>1
      <3> QED
        BY <1>3, <3>1
    <2>3. Min(open) \in open
      <3> HIDE DEF open
      <3> QED
        BY <2>2 DEF Min
    <2> QED
      BY <1>3, <2>1, <2>3 DEF NextMigration
  <1> QED
    BY <1>2, <1>3

LEMMA MigrateKeeps ==
  ASSUME ImportInv, NEW p \in Proc, Migrate(p)
  PROVE  ImportInv'
  <1> DEFINE i == NextMigration(job[p].applied)
  <1>1. TypedAt(p) /\ CourseAt(p) /\ AloneAt(p) /\ MigratedAt(p) /\ pc[p] = "migrate"
    BY DEF Migrate, Held, ImportInv
  <1>2. schema \in 0..7 /\ job[p].applied \subseteq AppliedMigrationIds(schema)
    BY <1>1 DEF MigratedAt
  <1>3. \/ i = None /\ \A k \in 1..7 : Migrations[k] \in job[p].applied
        \/ i \in 1..7
    BY NextMigrationIs
  <1>4. UNCHANGED <<disk, db, store, ids, counts>>
    BY DEF Migrate
  <1> HIDE DEF i
  <1>5. CASE i = None /\ Go(p, job[p].then) /\ UNCHANGED <<schema, job, lock>>
    <2>1. job[p].then \in {"temp", "open"}
      BY <1>1 DEF CourseAt
    <2>2. /\ pc' \in [Proc -> Labels] /\ pc'[p] = job[p].then /\ job' = job
          /\ \A q \in Proc : q # p => pc'[q] = pc[q]
      BY <1>5, <2>1, GoMoves DEF Labels, ImportInv
    <2>3. Typed' /\ Migrated' /\ Advancing /\ GrowingStore
      BY <1>4, <1>5, <2>2 DEF ImportInv, Typed, ImportTypeOK, Migrated, Advancing, GrowingStore,
                              store, counts, disk
    <2>4. schema = 7
      <3>1. Migrations[7] \in AppliedMigrationIds(schema)
        BY <1>2, <1>3, <1>5, Apart
      <3> QED
        BY <1>2, <3>1 DEF AppliedMigrationIds, Migrations
    <2>5. TypedAt(p)' /\ AloneAt(p)' /\ CourseAt(p)' /\ MigratedAt(p)' /\ ~job'[p].begun
      BY <1>1, <1>4, <1>5, <2>1, <2>2, <2>4
         DEF TypedAt, AloneAt, CourseAt, MigratedAt, Holds, Stores, Writing, Putting, Importing,
             Featuring, disk
    <2> QED
      BY <1>1, <1>4, <1>5, <2>1, <2>2, <2>3, <2>5, MoveStep DEF Plain, counts
  <1>6. CASE /\ i # None /\ MigrationApplies(schema, i) /\ schema' = i
             /\ Set(p, [job[p] EXCEPT !.applied = @ \cup {Migrations[i]}])
             /\ UNCHANGED <<pc, lock>>
    <2> DEFINE j == [job[p] EXCEPT !.applied = @ \cup {Migrations[i]}]
    <2>1. /\ DOMAIN j = DOMAIN NoJob /\ j.uuid = job[p].uuid /\ j.then = job[p].then
          /\ j.after = "idle" /\ j.begun = job[p].begun
          /\ j.applied = job[p].applied \cup {Migrations[i]}
      BY <1>1, Shapes DEF Fields, TypedAt, CourseAt
    <2> HIDE DEF j
    <2>2. /\ DOMAIN job' = Proc /\ job'[p] = j
          /\ \A q \in Proc : q # p => job'[q] = job[q]
      BY <1>6, SetMoves DEF j, ImportInv
    <2>3. i \in 1..7 /\ i = schema + 1 /\ schema \in 0..6
      BY <1>2, <1>3, <1>6 DEF MigrationApplies
    <2>4. Typed' /\ Migrated' /\ Advancing /\ GrowingStore
      BY <1>4, <1>6, <2>2, <2>3 DEF ImportInv, Typed, ImportTypeOK, Migrated, Advancing,
                              GrowingStore, store, counts, disk, Migrations
    <2>5. job'[p].applied \subseteq AppliedMigrationIds(schema')
      BY <1>2, <1>6, <2>1, <2>2, <2>3 DEF AppliedMigrationIds
    <2>6. TypedAt(p)' /\ AloneAt(p)' /\ CourseAt(p)' /\ MigratedAt(p)' /\ ~job'[p].begun
      BY <1>1, <1>4, <1>6, <2>1, <2>2, <2>3, <2>5
         DEF TypedAt, AloneAt, CourseAt, MigratedAt, Holds, Stores, Writing, Putting, Importing,
             Featuring, disk
    <2> QED
      BY <1>1, <1>4, <1>6, <2>2, <2>4, <2>6, MoveStep DEF Plain, counts
  <1>7. CASE Leave(p) /\ UNCHANGED schema
    <2>1. ids' \in Nat /\ ids <= ids' /\ crashes' \in 0..MaxCrashes
      BY <1>4 DEF ImportInv, Typed, ImportTypeOK, counts
    <2> QED
      BY <1>1, <1>4, <1>7, <2>1, LeaveStep DEF counts
  <1> QED
    BY <1>5, <1>6, <1>7 DEF Migrate, i

LEMMA WriteTempKeeps ==
  ASSUME ImportInv, NEW p \in Proc, WriteTemp(p)
  PROVE  ImportInv'
  <1> USE DEF ImportInv
  <1>1. TypedAt(p) /\ AloneAt(p) /\ CourseAt(p) /\ MigratedAt(p) /\ pc[p] = "temp"
    BY DEF WriteTemp, Held
  <1>2. /\ pc' \in [Proc -> Labels] /\ pc'[p] = "rename" /\ job' = job
        /\ \A q \in Proc : q # p => pc'[q] = pc[q]
    BY GoMoves DEF WriteTemp, Labels
  <1>3. job[p].uuid \in 1..ids /\ schema = 7
    BY <1>1 DEF TypedAt, MigratedAt
  <1>4. Typed' /\ Migrated' /\ Advancing /\ GrowingStore
    BY <1>2, <1>3 DEF WriteTemp, Typed, ImportTypeOK, Migrated, Advancing, GrowingStore, store,
                      counts
  <1>5. TypedAt(p)' /\ AloneAt(p)' /\ CourseAt(p)' /\ MigratedAt(p)' /\ ~job'[p].begun
    BY <1>1, <1>2, <1>3 DEF WriteTemp, TypedAt, AloneAt, CourseAt, MigratedAt, Holds, Stores,
                            Writing, Putting, Importing, Featuring
  <1> HIDE DEF ImportInv
  <1> QED
    BY <1>1, <1>2, <1>4, <1>5, MoveStep DEF WriteTemp, Plain, counts

LEMMA RenameKeeps ==
  ASSUME ImportInv, NEW p \in Proc, Rename(p)
  PROVE  ImportInv'
  <1>1. TypedAt(p) /\ AloneAt(p) /\ CourseAt(p) /\ MigratedAt(p) /\ pc[p] = "rename" /\ schema = 7
    BY DEF Rename, Held, ImportInv, MigratedAt
  <1>2. UNCHANGED <<dirs, schema, db, store, ids, counts>>
    BY DEF Rename
  <1>3. ids' \in Nat /\ ids <= ids' /\ crashes' = crashes /\ crashes' \in 0..MaxCrashes
    BY <1>2 DEF ImportInv, Typed, ImportTypeOK, counts
  <1>4. CASE temp = None
    BY <1>1, <1>2, <1>3, <1>4, LeaveStep DEF Rename, disk, counts
  <1>5. CASE temp # None /\ job[p].after = "saved"
    <2>1. Leave(p) /\ json' = temp /\ temp' = None
      BY <1>5 DEF Rename
    <2>2. /\ pc' \in [Proc -> Labels] /\ pc'[p] = "idle" /\ DOMAIN job' = Proc /\ job'[p] = NoJob
          /\ \A q \in Proc : q # p => pc'[q] = pc[q] /\ job'[q] = job[q]
          /\ \A q \in Proc : q # p /\ lock = q => lock' = q
          /\ lock' \in Proc \cup {None}
      BY <2>1, LeaveMoves DEF ImportInv
    <2>3. Held(p)' /\ ~job'[p].begun
      BY <2>2, HeldIdle, Resting
    <2>4. Typed' /\ Migrated' /\ Advancing /\ GrowingStore
      BY <1>1, <1>2, <1>5, <2>1, <2>2 DEF ImportInv, Typed, ImportTypeOK, Migrated, Advancing,
                                          GrowingStore, store, counts
    <2>5. SameTables
      BY <1>2, SameWhenUnchanged DEF ImportInv
    <2> QED
      BY <1>1, <1>2, <1>3, <2>2, <2>3, <2>4, <2>5, QuietStep
  <1>6. CASE temp # None /\ job[p].after # "saved"
    <2>1. Go(p, "insertProject") /\ UNCHANGED <<job, lock>> /\ json' = temp /\ temp' = None
      BY <1>6 DEF Rename
    <2>2. /\ pc' \in [Proc -> Labels] /\ pc'[p] = "insertProject"
          /\ \A q \in Proc : q # p => pc'[q] = pc[q]
      BY <2>1, GoMoves DEF ImportInv, Labels
    <2>3. Typed' /\ Migrated' /\ Advancing /\ GrowingStore
      BY <1>1, <1>2, <1>6, <2>1, <2>2 DEF ImportInv, Typed, ImportTypeOK, Migrated, Advancing,
                                          GrowingStore, store, counts
    <2>4. TypedAt(p)' /\ AloneAt(p)' /\ CourseAt(p)' /\ MigratedAt(p)' /\ ~job'[p].begun
      BY <1>1, <1>2, <2>1, <2>2 DEF TypedAt, AloneAt, CourseAt, MigratedAt, Holds, Stores,
                            Writing, Putting, Importing, Featuring
    <2> QED
      BY <1>1, <1>2, <1>3, <2>1, <2>2, <2>3, <2>4, MoveStep DEF Plain
  <1> QED
    BY <1>4, <1>5, <1>6

LEMMA InsertProjectRowKeeps ==
  ASSUME ImportInv, NEW p \in Proc, InsertProjectRow(p)
  PROVE  ImportInv'
  <1>1. UNCHANGED <<disk, schema, store, ids, counts>> /\ pc[p] = "insertProject" /\ Leave(p)
    BY DEF InsertProjectRow
  <1>2. /\ pc' \in [Proc -> Labels] /\ pc'[p] = "idle" /\ DOMAIN job' = Proc /\ job'[p] = NoJob
        /\ \A q \in Proc : q # p => pc'[q] = pc[q] /\ job'[q] = job[q]
        /\ \A q \in Proc : q # p /\ lock = q => lock' = q
        /\ lock' \in Proc \cup {None}
    BY <1>1, LeaveMoves DEF ImportInv
  <1>3. Held(p)' /\ ~job'[p].begun
    BY <1>2, HeldIdle, Resting
  <1>4. \/ db' = db
        \/ db' = InsertProject(db, job[p].uuid) /\ \A q \in Proc : ~job[q].begun
    BY DEF InsertProjectRow
  <1>5. DOMAIN db = Tables
    BY Shapes DEF ImportInv, Typed
  <1>6. SameTables
    <2>1. CASE db' = db
      BY <2>1, SameWhenUnchanged DEF ImportInv
    <2>2. CASE db' = InsertProject(db, job[p].uuid)
      <3>1. IsFiniteSet(db.projects \cup {job[p].uuid})
        BY FS_AddElement DEF ImportInv, Rooted
      <3> QED
        BY <1>5, <2>2, <3>1 DEF InsertProject, SameTables, Tables
    <2> QED
      BY <1>4, <2>1, <2>2
  <1>7. \A q \in Proc : job[q].begun => db'.projects = db.projects
    BY <1>4
  <1>8. DOMAIN db' = DOMAIN EmptyTables
    BY <1>6, Shapes DEF SameTables
  <1>9. Typed' /\ Migrated' /\ Advancing /\ GrowingStore
    BY <1>1, <1>2, <1>8 DEF ImportInv, Typed, ImportTypeOK, Migrated, Advancing, GrowingStore,
                            store, counts, disk
  <1> QED
    BY <1>1, <1>2, <1>3, <1>6, <1>7, <1>9, QuietStep DEF counts

LEMMA OpenCheckKeeps ==
  ASSUME ImportInv, NEW p \in Proc, OpenCheck(p)
  PROVE  ImportInv'
  <1> DEFINE j == [NoJob EXCEPT !.uuid = json, !.then = "open"]
  <1>1. PICK mode \in {"lock", "reading"} : Go(p, mode) /\ Set(p, j)
    BY DEF OpenCheck
  <1>2. /\ pc[p] = "idle" /\ json # None /\ commands < MaxCommands /\ commands' = commands + 1
        /\ UNCHANGED <<disk, schema, db, store, lock, ids, crashes>>
    BY DEF OpenCheck
  <1>3. /\ DOMAIN j = DOMAIN NoJob /\ j.uuid = json /\ j.then = "open" /\ j.after = "idle"
        /\ j.begun = FALSE
    BY Shapes, Resting DEF Fields
  <1> HIDE DEF j
  <1>4. /\ pc' \in [Proc -> Labels] /\ pc'[p] = mode /\ DOMAIN job' = Proc /\ job'[p] = j
        /\ \A q \in Proc : q # p => pc'[q] = pc[q] /\ job'[q] = job[q]
    BY <1>1, GoMoves, SetMoves DEF ImportInv, Labels
  <1>5. Typed' /\ Migrated' /\ Advancing /\ GrowingStore
    BY <1>2, <1>4, ImportConstants DEF ImportInv, Typed, ImportTypeOK, Migrated, Advancing,
                                       GrowingStore, disk, store
  <1>6. json \in 1..ids
    BY <1>2 DEF ImportInv, Typed, ImportTypeOK
  <1>7. TypedAt(p)' /\ AloneAt(p)' /\ CourseAt(p)' /\ MigratedAt(p)'
    BY <1>2, <1>3, <1>4, <1>6 DEF TypedAt, AloneAt, CourseAt, MigratedAt, Holds, Stores, Writing,
                                  Putting, Importing, Featuring, disk
  <1> QED
    BY <1>2, <1>3, <1>4, <1>5, <1>7, MoveStep DEF Plain

LEMMA OpenLockKeeps ==
  ASSUME ImportInv, NEW p \in Proc, OpenLock(p)
  PROVE  ImportInv'
  <1>1. /\ TypedAt(p) /\ CourseAt(p) /\ MigratedAt(p) /\ pc[p] = "lock"
        /\ UNCHANGED <<disk, schema, db, store, ids, counts>>
    BY DEF OpenLock, Held, ImportInv
  <1>2. ids' \in Nat /\ ids <= ids' /\ crashes' = crashes /\ crashes' \in 0..MaxCrashes
        /\ commands' \in 0..MaxCommands
    BY <1>1 DEF ImportInv, Typed, ImportTypeOK, counts
  <1>3. CASE lock # None \/ schema = None
    BY <1>1, <1>2, <1>3, LeaveStep DEF OpenLock, counts
  <1>4. CASE lock = None /\ schema # None
    <2> DEFINE j == [job[p] EXCEPT !.applied = AppliedMigrationIds(schema)]
    <2>1. lock' = p /\ Go(p, "migrate") /\ Set(p, j)
      BY <1>4 DEF OpenLock
    <2>2. /\ DOMAIN j = DOMAIN NoJob /\ j.uuid = job[p].uuid /\ j.then = "open" /\ j.after = "idle"
          /\ j.begun = job[p].begun /\ j.applied = AppliedMigrationIds(schema)
      BY <1>1, Shapes DEF Fields, TypedAt, CourseAt
    <2> HIDE DEF j
    <2>3. /\ pc' \in [Proc -> Labels] /\ pc'[p] = "migrate" /\ DOMAIN job' = Proc /\ job'[p] = j
          /\ \A q \in Proc : q # p => pc'[q] = pc[q] /\ job'[q] = job[q]
      BY <2>1, GoMoves, SetMoves DEF ImportInv, Labels
    <2>4. ~job[p].begun
      BY <1>1 DEF CourseAt, Stores, Putting
    <2>5. Held(p)' /\ ~job'[p].begun
      <3>1. TypedAt(p)' /\ AloneAt(p)' /\ CourseAt(p)' /\ MigratedAt(p)'
        BY <1>1, <1>4, <2>1, <2>2, <2>3, <2>4
           DEF TypedAt, AloneAt, CourseAt, MigratedAt, Holds, Stores, Writing,
               Putting, Importing, Featuring, disk, ImportInv, Migrated
      <3> QED
        BY <2>2, <2>3, <2>4, <3>1, LocalPlain DEF Plain, Held
    <2>6. \A q \in Proc : lock # q
      BY <1>4, Apart
    <2> QED
      BY <1>1, <1>2, <2>1, <2>3, <2>5, <2>6, PlainStep
  <1> QED
    BY <1>3, <1>4

LEMMA SaveKeeps ==
  ASSUME ImportInv, NEW p \in Proc, Save(p)
  PROVE  ImportInv'
  <1> DEFINE j == [job[p] EXCEPT !.after = "saved"]
  <1>1. /\ TypedAt(p) /\ AloneAt(p) /\ CourseAt(p) /\ MigratedAt(p) /\ pc[p] = "open"
        /\ UNCHANGED <<disk, schema, db, store, lock, ids, counts>>
    BY DEF Save, Held, ImportInv
  <1>2. DOMAIN j = DOMAIN NoJob /\ j.uuid = job[p].uuid /\ j.after = "saved" /\ j.begun = job[p].begun
    BY <1>1, Shapes DEF Fields, TypedAt
  <1>3. /\ pc' \in [Proc -> Labels] /\ pc'[p] = "temp" /\ DOMAIN job' = Proc /\ job'[p] = j
        /\ \A q \in Proc : q # p => pc'[q] = pc[q] /\ job'[q] = job[q]
    BY GoMoves, SetMoves DEF Save, ImportInv, Labels
  <1> HIDE DEF j
  <1>4. ~job[p].begun /\ lock = p /\ json # None
    BY <1>1 DEF CourseAt, Stores, Putting, AloneAt, Holds, Writing, MigratedAt
  <1>5. Held(p)' /\ ~job'[p].begun
    <2>1. TypedAt(p)' /\ AloneAt(p)' /\ CourseAt(p)' /\ MigratedAt(p)'
      BY <1>1, <1>2, <1>3, <1>4
         DEF TypedAt, AloneAt, CourseAt, MigratedAt, Holds, Stores, Writing,
             Putting, Importing, Featuring, disk, ImportInv, Migrated
    <2> QED
      BY <1>2, <1>3, <1>4, <2>1, LocalPlain DEF Plain, Held
  <1>6. ids' \in Nat /\ ids <= ids' /\ crashes' = crashes /\ crashes' \in 0..MaxCrashes
        /\ commands' \in 0..MaxCommands /\ lock' \in Proc \cup {None}
    BY <1>1 DEF ImportInv, Typed, ImportTypeOK, counts
  <1> QED
    BY <1>1, <1>3, <1>5, <1>6, PlainStep

-----------------------------------------------------------------------------
(* A step of the holder. *)

\* Only the tables T change.
Keeps(T) == DOMAIN db' = Tables /\ \A t \in Tables \ T : db'[t] = db[t]

LEMMA RootedKept ==
  ASSUME Rooted, NEW T, Keeps(T), T \cap {"projects", "sessions", "scenes"} = {},
         ids \in Nat, ids' \in Nat, ids <= ids'
  PROVE  Rooted'
  <1>1. db'.projects = db.projects /\ db'.sessions = db.sessions /\ db'.scenes = db.scenes
    BY DEF Keeps, Tables
  <1> QED
    BY <1>1 DEF Rooted

LEMMA ChainedKept ==
  ASSUME Chained, NEW T, Keeps(T), T \cap {"scenes", "versions"} = {},
         ids \in Nat, ids' \in Nat, ids <= ids'
  PROVE  Chained'
  <1>1. db'.scenes = db.scenes /\ db'.versions = db.versions
    BY DEF Keeps, Tables
  <1> QED
    BY <1>1 DEF Chained, Versions, Ids

LEMMA RecordedKept ==
  ASSUME Recorded, NEW T, Keeps(T),
         T \cap {"sessions", "scenes", "frames", "observations", "payloads", "rejections",
                 "features", "trajectories"} = {}
  PROVE  Recorded'
  <1>1. /\ db'.sessions = db.sessions /\ db'.scenes = db.scenes /\ db'.frames = db.frames
        /\ db'.observations = db.observations /\ db'.payloads = db.payloads
        /\ db'.rejections = db.rejections /\ db'.features = db.features
        /\ db'.trajectories = db.trajectories
    BY DEF Keeps, Tables
  <1> QED
    BY <1>1 DEF Recorded, Ids

LEMMA ContentKept ==
  ASSUME Content(db, manifests, cas, ids), GrowingStore, ids \in Nat, NEW T, Keeps(T),
         T \cap {"artifacts", "observations", "features"} = {}
  PROVE  Content(db', manifests', cas', ids')
  <1>1. db'.artifacts = db.artifacts /\ db'.observations = db.observations
        /\ db'.features = db.features
    BY DEF Keeps, Tables
  <1> QED
    BY <1>1, ContentGrows DEF GrowingStore

LEMMA WholeKept ==
  ASSUME Whole(db, manifests, cas), GrowingStore, NEW T, Keeps(T),
         T \cap {"artifacts", "trajectories"} = {}
  PROVE  Whole(db', manifests', cas')
  <1>1. db'.artifacts = db.artifacts /\ db'.trajectories = db.trajectories
    BY DEF Keeps, Tables
  <1> QED
    BY <1>1, WholeGrows DEF GrowingStore

LEMMA CalibratedKept ==
  ASSUME Calibrated, NEW T, Keeps(T), T \cap {"sensors", "calibrations"} = {}
  PROVE  Calibrated'
  <1>1. db'.sensors = db.sensors /\ db'.calibrations = db.calibrations
    BY DEF Keeps, Tables
  <1> QED
    BY <1>1 DEF Calibrated, Ids

LEMMA CompleteKept ==
  ASSUME Parted, ImportTypeOK, NEW p \in Proc, NEW T, Keeps(T),
         T \cap {"frames", "observations", "payloads"} = {},
         \A q \in Proc : q # p => pc'[q] = pc[q] /\ job'[q] = job[q],
         pc[p] \notin {"observation", "obsPayload"}, crashes' = crashes
  PROVE  Parted'
  <1>1. /\ db'.frames = db.frames /\ db'.observations = db.observations
        /\ db'.payloads = db.payloads
    BY DEF Keeps, Tables
  <1> SUFFICES ASSUME NEW f \in db.frames, Completed(f)
               PROVE  \/ \E q \in Proc : /\ pc'[q] \in {"observation", "obsPayload"}
                                         /\ FrameOf(job'[q]).id = f.id
                      \/ \E o \in FindObservationsByFrame(db', f.id) : o.id \in db'.payloads
    BY <1>1, NoNewPartial
  <1>2. CASE \E q \in Proc : /\ pc[q] \in {"observation", "obsPayload"}
                             /\ FrameOf(job[q]).id = f.id
    BY <1>2
  <1>3. CASE \E o \in FindObservationsByFrame(db, f.id) : o.id \in db.payloads
    BY <1>1, <1>3 DEF FindObservationsByFrame
  <1> QED
    BY <1>2, <1>3 DEF Completed

\* What changes with the process and the clock of identifiers.
Moving(p) ==
    /\ UNCHANGED <<disk, schema, counts>> /\ ids' \in Nat /\ ids <= ids'
    /\ pc' \in [Proc -> Labels] /\ DOMAIN job' = Proc /\ lock' \in Proc \cup {None}
    /\ \A q \in Proc : q # p => pc'[q] = pc[q] /\ job'[q] = job[q]

LEMMA HolderStep ==
  ASSUME ImportInv, NEW p \in Proc, Holds(p), Moving(p), DOMAIN db' = Tables, GrowingStore,
         Rooted', Chained', Recorded', Content(db', manifests', cas', ids'),
         Whole(db', manifests', cas'), Calibrated', Parted', Held(p)',
         job'[p].begun => Content(job'[p].tx, manifests', cas', ids')
  PROVE  ImportInv'
  <1>1. Typed'
    BY Shapes DEF Moving, ImportInv, Typed, ImportTypeOK, disk, counts
  <1>2. Migrated' /\ Advancing
    BY DEF Moving, ImportInv, Migrated, Advancing, disk
  <1>3. \A q \in Proc : q # p => Held(q)' /\ ~job'[q].begun
    <2> SUFFICES ASSUME NEW q \in Proc, q # p
                 PROVE  Held(q)' /\ ~job'[q].begun
      OBVIOUS
    <2>1. ~Holds(q) /\ lock = p /\ ~job[q].begun
      BY OnlyHolder
    <2>2. Local(q)'
      BY <2>1, LocalElsewhere DEF Moving, ImportInv, Held
    <2>3. TypedAt(q)' /\ AloneAt(q)' /\ CourseAt(q)' /\ MigratedAt(q)'
      BY <1>2, <2>1, OtherHeld DEF Moving, ImportInv
    <2> QED
      BY <2>1, <2>2, <2>3 DEF Held, Moving
  <1>4. Known'
    BY <1>3 DEF Known
  <1> QED
    BY <1>1, <1>2, <1>3, <1>4 DEF ImportInv

\* The holder goes on.
LEMMA HolderGoesOn ==
  ASSUME ImportInv, NEW p \in Proc, Holds(p), Moving(p), lock' = lock, pc'[p] \in Writing,
         DOMAIN job'[p] = Fields, job'[p].uuid = job[p].uuid
  PROVE  TypedAt(p)' /\ AloneAt(p)' /\ MigratedAt(p)'
  <1>1. TypedAt(p) /\ AloneAt(p) /\ MigratedAt(p) /\ ids \in Nat
    BY DEF ImportInv, Held, Typed, ImportTypeOK
  <1>2. lock = p /\ json # None /\ pc[p] # "idle"
    BY <1>1 DEF Holds, AloneAt, MigratedAt, Writing, Putting, Importing, Featuring
  <1> QED
    BY <1>1, <1>2, Shapes DEF TypedAt, AloneAt, MigratedAt, Moving, Holds, Writing, Putting,
                              Importing, Featuring, disk

\* The holder ends.
LEMMA LeaveMoving ==
  ASSUME ImportInv, NEW p \in Proc, Leave(p), UNCHANGED <<disk, schema, counts>>,
         ids' \in Nat, ids <= ids'
  PROVE  Moving(p) /\ Held(p)' /\ ~job'[p].begun
  <1>1. /\ pc' \in [Proc -> Labels] /\ pc'[p] = "idle"
        /\ DOMAIN job' = Proc /\ job'[p] = NoJob
        /\ \A q \in Proc : q # p => pc'[q] = pc[q] /\ job'[q] = job[q]
        /\ lock' \in Proc \cup {None}
    BY LeaveMoves DEF ImportInv
  <1> QED
    BY <1>1, HeldIdle, Resting DEF Moving

-----------------------------------------------------------------------------
(* Sensors and calibrations. *)

\* A step that writes sensors and calibrations only, and ends.
LEMMA SensorStep ==
  ASSUME ImportInv, NEW p \in Proc, pc[p] = "open", Leave(p),
         UNCHANGED <<disk, schema, store, ids, counts>>,
         Keeps({"sensors", "calibrations"}), Calibrated'
  PROVE  ImportInv'
  <1>1. ids \in Nat /\ ids' \in Nat /\ ids <= ids' /\ GrowingStore
    BY DEF ImportInv, Typed, ImportTypeOK, GrowingStore, store
  <1>2. Moving(p) /\ Held(p)' /\ ~job'[p].begun
    BY <1>1, LeaveMoving
  <1>3. Holds(p)
    BY DEF Holds, Writing
  <1>4. Rooted' /\ Chained' /\ Recorded'
    BY <1>1, RootedKept, ChainedKept, RecordedKept DEF ImportInv
  <1>5. Content(db', manifests', cas', ids')
    BY <1>1, ContentKept DEF ImportInv, Known
  <1>6. Whole(db', manifests', cas')
    BY <1>1, WholeKept DEF ImportInv
  <1>7. Parted'
    BY <1>2, CompleteKept DEF ImportInv, Typed, Moving, counts
  <1> QED
    BY <1>1, <1>2, <1>3, <1>4, <1>5, <1>6, <1>7, HolderStep DEF Keeps

LEMMA RegisterSensorCallKeeps ==
  ASSUME ImportInv, NEW p \in Proc, RegisterSensorCall(p)
  PROVE  ImportInv'
  <1> DEFINE row(s) == [id |-> s, project |-> job[p].uuid, status |-> "active",
                        calibration |-> None]
  <1>1. PICK s \in Sensor :
          db' = IF CanRegisterSensor(db, row(s)) THEN RegisterSensor(db, row(s)) ELSE db
    BY DEF RegisterSensorCall
  <1>2. DOMAIN db = Tables
    BY Shapes DEF ImportInv, Typed
  <1>3. Keeps({"sensors", "calibrations"}) /\ Calibrated'
    <2>1. CASE db' = db
      <3>1. Keeps({"sensors", "calibrations"}) /\ Keeps({})
        BY <1>2, <2>1 DEF Keeps
      <3> QED
        BY <3>1, CalibratedKept DEF ImportInv
    <2>2. CASE CanRegisterSensor(db, row(s)) /\ db' = RegisterSensor(db, row(s))
      <3>1. /\ db'.sensors = db.sensors \cup {row(s)}
            /\ db'.calibrations = db.calibrations /\ Keeps({"sensors", "calibrations"})
        BY <1>2, <2>2 DEF RegisterSensor, Keeps, Tables
      <3>2. s \notin Ids(db.sensors)
        BY <2>2 DEF CanRegisterSensor
      <3>3. /\ row(s).id = s /\ DOMAIN row(s) = {"id", "project", "status", "calibration"}
            /\ Ids(db.sensors) \subseteq Ids(db'.sensors)
        BY <3>1 DEF Ids
      <3> HIDE DEF row
      <3>4. \A c \in db.calibrations : c.sensor # s
        BY <3>2 DEF Calibrated, ImportInv
      <3> QED
        BY <3>1, <3>3, <3>4 DEF Calibrated, ImportInv
    <2> QED
      BY <1>1, <2>1, <2>2
  <1> QED
    BY <1>3, SensorStep DEF RegisterSensorCall

LEMMA UpdateSensorCallKeeps ==
  ASSUME ImportInv, NEW p \in Proc, UpdateSensorCall(p)
  PROVE  ImportInv'
  <1>1. PICK s : db' = UpdateSensorMetadata(db, s, "retired")
    BY DEF UpdateSensorCall
  <1>2. DOMAIN db = Tables
    BY Shapes DEF ImportInv, Typed
  <1>3. /\ db'.sensors = {IF r.id = s THEN [r EXCEPT !.status = "retired"] ELSE r : r \in db.sensors}
        /\ db'.calibrations = db.calibrations /\ Keeps({"sensors", "calibrations"})
    BY <1>1, <1>2 DEF UpdateSensorMetadata, Keeps, Tables
  <1>4. Calibrated'
    <2>1. \A x \in db'.sensors : \E r \in db.sensors :
            x.id = r.id /\ x.calibration = r.calibration /\ DOMAIN x = DOMAIN r
      BY <1>3 DEF Calibrated, ImportInv
    <2>2. Ids(db.sensors) \subseteq Ids(db'.sensors)
      <3> SUFFICES ASSUME NEW r \in db.sensors
                   PROVE  \E x \in db'.sensors : x.id = r.id
        BY DEF Ids
      <3> DEFINE x == IF r.id = s THEN [r EXCEPT !.status = "retired"] ELSE r
      <3>1. x.id = r.id
        BY DEF Calibrated, ImportInv
      <3>2. x \in db'.sensors
        BY <1>3
      <3> QED
        BY <3>1, <3>2
    <2>3. \A x \in db'.sensors : DOMAIN x = {"id", "project", "status", "calibration"}
      BY <2>1 DEF Calibrated, ImportInv
    <2>4. \A c \in db'.calibrations :
            /\ c.sensor \in Ids(db'.sensors) /\ c.from \in Nat /\ c.to \in Nat \cup {None}
            /\ c.version \in Nat
            /\ c.version <= Cardinality({d \in db'.calibrations : d.sensor = c.sensor})
      BY <1>3, <2>2 DEF Calibrated, ImportInv
    <2>5. \A x \in db'.sensors, c \in db'.calibrations :
            c.sensor = x.id => \E d \in db'.calibrations :
              d.id = x.calibration /\ d.sensor = x.id /\ c.version <= d.version
      <3> SUFFICES ASSUME NEW x \in db'.sensors, NEW c \in db.calibrations, c.sensor = x.id
                   PROVE  \E d \in db.calibrations :
                            d.id = x.calibration /\ d.sensor = x.id /\ c.version <= d.version
        BY <1>3
      <3>1. PICK r \in db.sensors : x.id = r.id /\ x.calibration = r.calibration
        BY <2>1
      <3> QED
        BY <3>1 DEF Calibrated, ImportInv
    <2>6. /\ IsFiniteSet(db'.calibrations)
          /\ \A c, d \in db'.calibrations :
               c.sensor = d.sensor /\ c # d => ~(c.from < End(d) /\ d.from < End(c))
      BY <1>3 DEF Calibrated, ImportInv
    <2> QED
      BY <2>3, <2>4, <2>5, <2>6 DEF Calibrated
  <1> QED
    BY <1>3, <1>4, SensorStep DEF UpdateSensorCall

LEMMA AddCalibrationCallKeeps ==
  ASSUME ImportInv, NEW p \in Proc, AddCalibrationCall(p)
  PROVE  ImportInv'
  <1> DEFINE row(s, v) == [id |-> None, sensor |-> s, from |-> v.from, to |-> v.to, version |-> 0]
  <1>1. PICK s \in Sensor, v \in Validity :
          db' = IF CanAddCalibration(db, row(s, v)) THEN AddCalibration(db, row(s, v)) ELSE db
    BY DEF AddCalibrationCall
  <1>2. DOMAIN db = Tables
    BY Shapes DEF ImportInv, Typed
  <1>3. CASE db' = db
    <2>1. Keeps({"sensors", "calibrations"}) /\ Keeps({})
      BY <1>2, <1>3 DEF Keeps
    <2>2. Calibrated'
      BY <2>1, CalibratedKept DEF ImportInv
    <2> QED
      BY <2>1, <2>2, SensorStep DEF AddCalibrationCall
  <1>4. CASE CanAddCalibration(db, row(s, v)) /\ db' = AddCalibration(db, row(s, v))
    <2> DEFINE before  == {c \in db.calibrations : c.sensor = s}
               version == Cardinality(before) + 1
               new     == [row(s, v) EXCEPT !.id = <<s, version>>, !.version = version]
    <2>1. Cardinality(before) \in Nat /\ version \in Nat /\ IsFiniteSet(before)
      <3>1. IsFiniteSet(before)
        BY FS_Subset DEF Calibrated, ImportInv
      <3> QED
        BY <3>1, FS_CardinalityType
    <2>2. /\ new.id = <<s, version>> /\ new.sensor = s /\ new.from = v.from /\ new.to = v.to
          /\ new.version = version
      OBVIOUS
    <2>3. /\ db'.calibrations = db.calibrations \cup {new}
          /\ db'.sensors = {IF r.id = s THEN [r EXCEPT !.calibration = <<s, version>>] ELSE r
                               : r \in db.sensors}
          /\ Keeps({"sensors", "calibrations"})
      BY <1>2, <1>4 DEF AddCalibration, Keeps, Tables
    <2>4. v.from \in Nat /\ v.to \in Nat \cup {None} /\ Infinity \in Nat /\ None \notin Nat
      BY Apart
    <2>5. /\ s \in Ids(db.sensors)
          /\ \A c \in before : ~(c.from < End(new) /\ End(c) > v.from)
      <3>1. End(row(s, v)) = End(new)
        BY <2>2 DEF End
      <3> QED
        BY <1>4, <3>1 DEF CanAddCalibration, Overlaps
    <2> HIDE DEF new
    <2>6. \A c \in before : c.version < version /\ c.version \in Nat
      BY <2>1 DEF Calibrated, ImportInv
    <2>7. new \notin before
      BY <2>1, <2>2, <2>6
    <2>8. \A x \in db'.sensors : \E r \in db.sensors :
            /\ x.id = r.id /\ DOMAIN x = DOMAIN r
            /\ x.calibration = IF r.id = s THEN <<s, version>> ELSE r.calibration
      BY <2>3 DEF Calibrated, ImportInv
    <2>9. Ids(db.sensors) \subseteq Ids(db'.sensors)
      <3> SUFFICES ASSUME NEW r \in db.sensors
                   PROVE  \E x \in db'.sensors : x.id = r.id
        BY DEF Ids
      <3> DEFINE x == IF r.id = s THEN [r EXCEPT !.calibration = <<s, version>>] ELSE r
      <3>1. x.id = r.id
        BY DEF Calibrated, ImportInv
      <3>2. x \in db'.sensors
        BY <2>3
      <3> QED
        BY <3>1, <3>2
    <2>10. {c \in db'.calibrations : c.sensor = s} = before \cup {new}
      BY <2>2, <2>3
    <2>11. Cardinality(before \cup {new}) = version
      BY <2>1, <2>7, FS_AddElement
    <2>12. \A t : t # s => {c \in db'.calibrations : c.sensor = t}
                             = {c \in db.calibrations : c.sensor = t}
      BY <2>2, <2>3
    <2> HIDE DEF before, version
    <2>13. Calibrated'
      <3>1. IsFiniteSet(db'.calibrations)
        BY <2>3, FS_AddElement DEF Calibrated, ImportInv
      <3>2. \A r \in db'.sensors : DOMAIN r = {"id", "project", "status", "calibration"}
        BY <2>8 DEF Calibrated, ImportInv
      <3>3. \A c \in db'.calibrations :
              /\ c.sensor \in Ids(db'.sensors) /\ c.from \in Nat /\ c.to \in Nat \cup {None}
              /\ c.version \in Nat
        BY <2>1, <2>2, <2>3, <2>4, <2>5, <2>9 DEF Calibrated, ImportInv
      <3>4. \A c \in db'.calibrations :
              c.version <= Cardinality({d \in db'.calibrations : d.sensor = c.sensor})
        <4> SUFFICES ASSUME NEW c \in db'.calibrations
                     PROVE  c.version <= Cardinality({d \in db'.calibrations : d.sensor = c.sensor})
          OBVIOUS
        <4>1. CASE c.sensor = s
          <5>1. Cardinality({d \in db'.calibrations : d.sensor = c.sensor}) = version
            BY <4>1, <2>10, <2>11
          <5>2. c = new \/ c \in before
            BY <4>1, <2>3 DEF before
          <5>3. c.version <= version
            BY <5>2, <2>1, <2>2, <2>6
          <5> QED
            BY <5>1, <5>3
        <4>2. CASE c.sensor # s
          <5>1. c \in db.calibrations
            BY <4>2, <2>2, <2>3
          <5>2. c.version <= Cardinality({d \in db.calibrations : d.sensor = c.sensor})
            BY <5>1 DEF Calibrated, ImportInv
          <5> QED
            BY <4>2, <5>2, <2>12
        <4> QED
          BY <4>1, <4>2
      <3>5. \A c, d \in db'.calibrations :
              c.sensor = d.sensor /\ c # d => ~(c.from < End(d) /\ d.from < End(c))
        <4>1. \A c \in before : /\ ~(c.from < End(new) /\ new.from < End(c))
                                /\ c.from \in Nat /\ End(c) \in Nat
          BY <2>2, <2>4, <2>5 DEF Calibrated, ImportInv, before, End
        <4>2. End(new) \in Nat /\ new.from \in Nat
          BY <2>2, <2>4 DEF End
        <4>3. \A c \in db'.calibrations : c # new => c \in db.calibrations
          BY <2>3
        <4>4. \A c \in db.calibrations : c.sensor = s => c \in before
          BY DEF before
        <4> QED
          BY <4>1, <4>2, <4>3, <4>4, <2>2 DEF Calibrated, ImportInv
      <3>6. \A x \in db'.sensors, c \in db'.calibrations :
              c.sensor = x.id => \E d \in db'.calibrations :
                d.id = x.calibration /\ d.sensor = x.id /\ c.version <= d.version
        <4> SUFFICES ASSUME NEW x \in db'.sensors, NEW c \in db'.calibrations, c.sensor = x.id
                     PROVE  \E d \in db'.calibrations :
                              d.id = x.calibration /\ d.sensor = x.id /\ c.version <= d.version
          OBVIOUS
        <4>1. PICK r \in db.sensors :
                 /\ x.id = r.id
                 /\ x.calibration = IF r.id = s THEN <<s, version>> ELSE r.calibration
          BY <2>8
        <4>2. CASE x.id = s
          <5>1. c = new \/ c \in before
            BY <2>3, <4>2 DEF before
          <5>2. c.version <= new.version
            BY <2>1, <2>2, <2>6, <5>1
          <5> QED
            BY <2>2, <2>3, <4>1, <4>2, <5>2
        <4>3. CASE x.id # s
          <5>1. c \in db.calibrations
            BY <2>2, <2>3, <4>3
          <5> QED
            BY <2>3, <4>1, <4>3, <5>1 DEF Calibrated, ImportInv
        <4> QED
          BY <4>2, <4>3
      <3> QED
        BY <3>1, <3>2, <3>3, <3>4, <3>5, <3>6 DEF Calibrated
    <2> QED
      BY <2>3, <2>13, SensorStep DEF AddCalibrationCall
  <1> QED
    BY <1>1, <1>3, <1>4

-----------------------------------------------------------------------------
(* The holder goes on, or reads. *)

LEMMA WritingIsLabel == Writing \subseteq Labels
  BY DEF Writing, Putting, Importing, Featuring, Labels

\* What the steps that go on have in common.
LEMMA GoesOn ==
  ASSUME ImportInv, NEW p \in Proc, Holds(p), NEW label \in Writing, NEW j,
         Go(p, label) \/ (UNCHANGED pc /\ pc[p] = label),
         Set(p, j) \/ (UNCHANGED job /\ job[p] = j),
         DOMAIN j = Fields, j.uuid = job[p].uuid,
         UNCHANGED <<disk, schema, counts, lock>>, ids' \in Nat, ids <= ids'
  PROVE  /\ Moving(p) /\ pc'[p] = label /\ job'[p] = j
         /\ TypedAt(p)' /\ AloneAt(p)' /\ MigratedAt(p)'
  <1>1. Typed /\ pc \in [Proc -> Labels] /\ DOMAIN job = Proc /\ lock \in Proc \cup {None}
    BY DEF ImportInv, Typed, ImportTypeOK
  <1>2. /\ pc' \in [Proc -> Labels] /\ pc'[p] = label
        /\ \A q \in Proc : q # p => pc'[q] = pc[q]
    BY <1>1, GoMoves, WritingIsLabel
  <1>3. /\ DOMAIN job' = Proc /\ job'[p] = j
        /\ \A q \in Proc : q # p => job'[q] = job[q]
    BY <1>1, SetMoves
  <1>4. Moving(p)
    BY <1>1, <1>2, <1>3 DEF Moving
  <1> QED
    BY <1>2, <1>3, <1>4, HolderGoesOn

LEMMA FieldsAt ==
  ASSUME ImportInv, NEW p \in Proc
  PROVE  DOMAIN job[p] = Fields
  BY Shapes DEF ImportInv, Held, TypedAt

\* The tables stay, the store may grow.
LEMMA HolderQuiet ==
  ASSUME ImportInv, NEW p \in Proc, Holds(p), Moving(p), UNCHANGED db, GrowingStore, Held(p)',
         pc[p] \notin {"observation", "obsPayload"},
         job'[p].begun => Content(job'[p].tx, manifests', cas', ids')
  PROVE  ImportInv'
  <1>1. SameTables
    BY SameWhenUnchanged DEF ImportInv
  <1>2. Typed' /\ Migrated' /\ Advancing
    BY DEF Moving, ImportInv, Typed, ImportTypeOK, Migrated, Advancing, disk, counts
  <1>3. \A q \in Proc : q # p =>
          pc'[q] = pc[q] /\ job'[q] = job[q] /\ (lock = q => lock' = q)
            /\ (job[q].begun => db'.projects = db.projects)
    BY OnlyHolder DEF Moving
  <1>4. crashes' = crashes
    BY DEF Moving, counts
  <1> QED
    BY <1>1, <1>2, <1>3, <1>4, QuietStep

-----------------------------------------------------------------------------
(* Storing an artifact. *)

\* The queue of a process that stores, by what comes after.
LEMMA QueueShape ==
  ASSUME ImportInv, NEW p \in Proc, pc[p] \in Putting
  PROVE  /\ Holds(p) /\ job[p].after \in {"frame", "commit", "recordFeature"}
         /\ job[p].begun <=> job[p].after = "commit"
         /\ job[p].instance \in BOOLEAN /\ (job[p].instance => job[p].after = "frame")
         /\ \E m : Head(job[p].puts) = m /\ DOMAIN m = {"id", "hash", "type", "config", "inputs"}
         /\ job[p].after = "frame" => /\ Len(job[p].puts) = 1
                                      /\ Head(job[p].puts).hash = job[p].file.content
                                      /\ Head(job[p].puts).type = "image"
                                      /\ Head(job[p].puts).hash[1] = "image"
         /\ job[p].after = "recordFeature" => /\ Len(job[p].puts) = 1
                                              /\ Head(job[p].puts).type = "feature"
                                              /\ Head(job[p].puts).hash[1] = "feature"
  <1>1. Held(p)
    BY DEF ImportInv
  <1>2. /\ job[p].after \in {"frame", "commit", "recordFeature"}
        /\ job[p].begun <=> job[p].after = "commit"
    BY <1>1 DEF Held, CourseAt, Stores, Putting
  <1>3. job[p].instance \in BOOLEAN /\ (job[p].instance => job[p].after = "frame")
    BY <1>1 DEF Held, Local, Storing
  <1>4. CASE job[p].after = "frame"
    <2> DEFINE m == [id |-> None, hash |-> job[p].file.content, type |-> "image",
                     config |-> None, inputs |-> <<>>]
    <2>1. job[p].puts = <<m>> /\ job[p].file.content[1] = "image"
      BY <1>1, <1>4 DEF Held, Local, Filed, Stores
    <2>2. /\ DOMAIN m = {"id", "hash", "type", "config", "inputs"} /\ m.type = "image"
          /\ m.hash = job[p].file.content
      OBVIOUS
    <2> HIDE DEF m
    <2> QED
      BY <1>2, <1>3, <1>4, <2>1, <2>2 DEF Holds, Writing
  <1>5. CASE job[p].after = "recordFeature"
    <2>1. PICK m : /\ job[p].puts = <<m>> /\ DOMAIN m = {"id", "hash", "type", "config", "inputs"}
                   /\ m.type = "feature" /\ m.hash[1] = "feature"
      BY <1>1, <1>5 DEF Held, Local, Extracting, Stores
    <2> QED
      BY <1>2, <1>3, <1>5, <2>1 DEF Holds, Writing
  <1>6. CASE job[p].after = "commit"
    <2>1. PICK s, tum, nodes : Transacting(p, s, tum, nodes)
      BY <1>1, <1>2, <1>6 DEF Held, Local, InTransaction
    <2>2. PICK source, config, doc : Queued(job[p].puts, job[p].tx, source, config, doc)
      BY <2>1 DEF Transacting
    <2>3. job[p].puts # <<>>
      BY <2>1 DEF Transacting, Putting
    <2>4. Head(job[p].puts) \in {PutSource(source), PutConfig(source, config),
                                 PutDocument(source, config, doc)}
      BY <2>2, <2>3 DEF Queued
    <2>5. \A m \in {PutSource(source), PutConfig(source, config), PutDocument(source, config, doc)} :
            DOMAIN m = {"id", "hash", "type", "config", "inputs"}
      BY DEF PutSource, PutConfig, PutDocument
    <2> QED
      BY <1>2, <1>3, <1>6, <2>4, <2>5 DEF Holds, Writing
  <1> QED
    BY <1>2, <1>4, <1>5, <1>6

\* The head of the queue is stored, the rest remains.
LEMMA QueueMoves ==
  ASSUME NEW puts, NEW d, NEW e, NEW source, NEW config, NEW doc,
         Queued(puts, d, source, config, doc), puts # <<>>,
         \A h : FindArtifactByHash(d, h) # {} => FindArtifactByHash(e, h) # {},
         FindArtifactByHash(e, Head(puts).hash) # {}
  PROVE  Queued(Tail(puts), e, source, config, doc) /\ (Len(puts) = 1 <=> Tail(puts) = <<>>)
  <1>1. /\ PutSource(source).hash = source /\ PutConfig(source, config).hash = config
        /\ PutDocument(source, config, doc).hash = doc
    BY DEF PutSource, PutConfig, PutDocument
  <1> DEFINE a == PutSource(source)
             b == PutConfig(source, config)
             c == PutDocument(source, config, doc)
  <1>2. /\ puts = <<a, b, c>> \/ puts = <<b, c>> \/ puts = <<c>>
        /\ puts # <<a, b, c>> => FindArtifactByHash(e, source) # {}
        /\ puts = <<c>> => FindArtifactByHash(e, config) # {}
    <2> HIDE DEF a, b, c
    <2>1. <<a, b, c>> # <<b, c>> /\ <<a, b, c>> # <<c>> /\ <<b, c>> # <<c>>
      OBVIOUS
    <2> QED
      BY <2>1 DEF Queued, a, b, c
  <1>3. a.hash = source /\ b.hash = config /\ c.hash = doc
    BY <1>1
  <1> HIDE DEF a, b, c
  <1>4. CASE puts = <<a, b, c>>
    <2>1. Tail(puts) = <<b, c>> /\ Head(puts) = a /\ Len(puts) = 3 /\ Tail(puts) # <<>>
      BY <1>4
    <2>2. FindArtifactByHash(e, source) # {}
      BY <2>1, <1>3
    <2>3. Queued(Tail(puts), e, source, config, doc)
      BY <2>1, <2>2 DEF Queued, b, c
    <2> QED
      BY <2>1, <2>3
  <1>5. CASE puts = <<b, c>>
    <2>1. Tail(puts) = <<c>> /\ Head(puts) = b /\ Len(puts) = 2 /\ puts # <<a, b, c>>
      BY <1>5
    <2> QED
      BY <2>1, <1>2, <1>3 DEF Queued, c
  <1>6. CASE puts = <<c>>
    <2>1. Tail(puts) = <<>> /\ Head(puts) = c /\ Len(puts) = 1 /\ puts # <<a, b, c>>
      BY <1>6
    <2> QED
      BY <2>1, <1>2, <1>3, <1>6 DEF Queued
  <1> QED
    BY <1>2, <1>4, <1>5, <1>6

\* The transaction of a trajectory takes a step.
LEMMA TransactionGoes ==
  ASSUME NEW p \in Proc, InTransaction(p), job[p].begun, UNCHANGED db,
         job'[p].row = job[p].row, DOMAIN job'[p].tx = DOMAIN EmptyTables,
         \A t \in DOMAIN EmptyTables \ {"artifacts"} : job'[p].tx[t] = job[p].tx[t],
         \A source, config, doc :
            /\ pc[p] = "commit" <=> job[p].puts = <<>>
            /\ Queued(job[p].puts, job[p].tx, source, config, doc)
            /\ WholeBut(job[p].tx, manifests, cas, source, config, doc)
            => /\ pc'[p] = "commit" <=> job'[p].puts = <<>>
               /\ Queued(job'[p].puts, job'[p].tx, source, config, doc)
               /\ WholeBut(job'[p].tx, manifests', cas', source, config, doc)
  PROVE  InTransaction(p)'
  <1>1. PICK s \in Sensor, tum \in Tums :
          Transacting(p, s, tum, NodesOf(db, job[p].row.session, job[p].row.scene, s, tum))
    BY DEF InTransaction
  <1> DEFINE nodes == NodesOf(db, job[p].row.session, job[p].row.scene, s, tum)
  <1>2. nodes = NodesOf(db', job'[p].row.session, job'[p].row.scene, s, tum)
    OBVIOUS
  <1>3. Transacting(p, s, tum, nodes)
    BY <1>1
  <1>4. LET source == SourceOf(tum)
            config == ConfigOf(job'[p].row.session, job'[p].row.scene, s, tum, nodes)
            doc    == DocumentOf(job'[p].row.id, nodes)
        IN  /\ job'[p].row.doc = doc
            /\ pc'[p] = "commit" <=> job'[p].puts = <<>>
            /\ Queued(job'[p].puts, job'[p].tx, source, config, doc)
            /\ WholeBut(job'[p].tx, manifests', cas', source, config, doc)
    <2> HIDE DEF nodes
    <2> QED
      BY <1>3 DEF Transacting
  <1>5. /\ \A t \in DOMAIN EmptyTables \ {"artifacts"} : job'[p].tx[t] = db'[t]
        /\ \E x \in db'.sessions, c \in db'.scenes :
            x.id = job'[p].row.session /\ c.id = job'[p].row.scene /\ x.project = c.project
    BY DEF InTransaction
  <1> QED
    BY <1>2, <1>4, <1>5 DEF InTransaction, Transacting
\* What storing leaves as it is.
StoringLike(j, k) ==
    /\ DOMAIN j = Fields
    /\ j.uuid = k.uuid /\ j.files = k.files /\ j.session = k.session /\ j.scene = k.scene
    /\ j.sensor = k.sensor /\ j.time = k.time /\ j.file = k.file /\ j.instance = k.instance
    /\ j.after = k.after /\ j.begun = k.begun /\ j.row = k.row /\ j.obs = k.obs /\ j.ob = k.ob

\* The head of the queue is still to be stored.
LEMMA StillPutting ==
  ASSUME ImportInv, NEW p \in Proc, pc[p] \in Putting, pc'[p] \in Putting,
         StoringLike(job'[p], job[p]), job'[p].puts = job[p].puts, job'[p].tx = job[p].tx,
         UNCHANGED db, GrowingStore
  PROVE  CourseAt(p)' /\ Placed(p)' /\ Filed(p)' /\ Extracting(p)' /\ InTransaction(p)'
  <1>1. Held(p)
    BY DEF ImportInv
  <1>2. \A a : Stores(p, a)' <=> Stores(p, a)
    BY DEF Stores, StoringLike
  <1>3. /\ pc'[p] \notin Importing \cup Featuring \cup {"commit", "migrate", "lock", "reading",
                                                        "root", "layout", "createDb", "open"}
        /\ pc[p] # "commit" /\ pc'[p] # "commit"
    BY DEF Putting, Importing, Featuring
  <1>4. CourseAt(p)'
    BY <1>1, <1>2, <1>3 DEF Held, CourseAt, StoringLike, Stores, Putting
  <1>5. Placed(p)'
    BY <1>1, <1>2, <1>3 DEF Held, Local, Placed, StoringLike, Importing, Placing
  <1>6. Filed(p)'
    BY <1>1, <1>2, <1>3 DEF Held, Local, Filed, StoringLike, ObservationId, Importing
  <1>7. Extracting(p)'
    BY <1>1, <1>2, <1>3 DEF Held, Local, Extracting, StoringLike, Featuring
  <1>8. InTransaction(p)'
    <2> SUFFICES ASSUME job'[p].begun
                 PROVE  InTransaction(p)'
      BY DEF InTransaction
    <2>1. job[p].begun /\ InTransaction(p)
      BY <1>1 DEF Held, Local, StoringLike
    <2>2. \A source, config, doc :
            WholeBut(job[p].tx, manifests, cas, source, config, doc)
              => WholeBut(job'[p].tx, manifests', cas', source, config, doc)
      BY WholeButGrows DEF GrowingStore
    <2>3. DOMAIN job[p].tx = DOMAIN EmptyTables
      BY <2>1 DEF InTransaction
    <2> QED
      BY <1>3, <2>1, <2>2, <2>3, TransactionGoes DEF StoringLike
  <1> QED
    BY <1>4, <1>5, <1>6, <1>7, <1>8

\* The head of the queue is stored: the next one follows, or what comes after.
LEMMA HeadStored ==
  ASSUME ImportInv, NEW p \in Proc, pc[p] \in Putting,
         pc'[p] = IF Len(job[p].puts) = 1 THEN job[p].after ELSE "payload",
         StoringLike(job'[p], job[p]), job'[p].puts = Tail(job[p].puts),
         Keeps({"artifacts"}), job[p].begun => db' = db,
         \A h : FindArtifactByHash(View(p), h) # {} => FindArtifactByHash(View(p)', h) # {},
         FindArtifactByHash(View(p)', Head(job[p].puts).hash) # {},
         \E r \in View(p)'.artifacts : r.id = job'[p].ref /\ r.hash = Head(job[p].puts).hash,
         Refers(View(p)', manifests', job'[p].ref, Head(job[p].puts).hash),
         job[p].begun =>
            /\ DOMAIN job'[p].tx = DOMAIN EmptyTables
            /\ \A t \in DOMAIN EmptyTables \ {"artifacts"} : job'[p].tx[t] = job[p].tx[t]
            /\ \A source, config, doc :
                 /\ Queued(job[p].puts, job[p].tx, source, config, doc)
                 /\ job[p].puts # <<>>
                 /\ WholeBut(job[p].tx, manifests, cas, source, config, doc)
                 => WholeBut(job'[p].tx, manifests', cas', source, config, doc)
  PROVE  CourseAt(p)' /\ Local(p)'
  <1>1. Held(p)
    BY DEF ImportInv
  <1>2. /\ job[p].after \in {"frame", "commit", "recordFeature"}
        /\ job[p].begun <=> job[p].after = "commit"
        /\ job[p].instance \in BOOLEAN /\ (job[p].instance => job[p].after = "frame")
        /\ job[p].after = "frame" => /\ Len(job[p].puts) = 1
                                     /\ Head(job[p].puts).hash = job[p].file.content
        /\ job[p].after = "recordFeature" => /\ Len(job[p].puts) = 1
                                             /\ Head(job[p].puts).hash[1] = "feature"
    BY QueueShape
  <1>3. /\ db'.sessions = db.sessions /\ db'.scenes = db.scenes
        /\ db'.observations = db.observations
    BY DEF Keeps, Tables
  <1>4. CASE job[p].after = "frame"
    <2>1. /\ pc'[p] = "frame" /\ ~job'[p].begun /\ Stores(p, "frame")
          /\ \A a : ~Stores(p, a)'
      BY <1>2, <1>4 DEF StoringLike, Stores, Putting
    <2>2. View(p)' = db'
      BY <2>1 DEF View
    <2>3. CourseAt(p)' /\ Extracting(p)' /\ Storing(p)' /\ InTransaction(p)'
      BY <2>1 DEF CourseAt, Extracting, Storing, InTransaction, Putting, Featuring
    <2>4. Placed(p)'
      BY <1>1, <1>3, <2>1 DEF Held, Local, Placed, StoringLike, Importing, Placing
    <2>5. Filed(p)'
      BY <1>1, <1>2, <1>3, <1>4, <2>1, <2>2 DEF Held, Local, Filed, StoringLike, ObservationId
    <2> QED
      BY <2>3, <2>4, <2>5 DEF Local
  <1>5. CASE job[p].after = "recordFeature"
    <2>1. /\ pc'[p] = "recordFeature" /\ ~job'[p].begun /\ Stores(p, "recordFeature")
          /\ \A a : ~Stores(p, a)'
      BY <1>2, <1>5 DEF StoringLike, Stores, Putting
    <2>2. View(p)' = db'
      BY <2>1 DEF View
    <2>3. CourseAt(p)' /\ Placed(p)' /\ Filed(p)' /\ Storing(p)' /\ InTransaction(p)'
      BY <2>1 DEF CourseAt, Placed, Filed, Storing, InTransaction, Putting, Importing, Placing
    <2>4. Extracting(p)'
      BY <1>1, <1>2, <1>3, <1>5, <2>1, <2>2 DEF Held, Local, Extracting, StoringLike
    <2> QED
      BY <2>3, <2>4 DEF Local
  <1>6. CASE job[p].after = "commit"
    <2>1. /\ job[p].begun /\ job'[p].begun /\ job'[p].after = "commit" /\ pc[p] # "commit"
          /\ ~job'[p].instance /\ job'[p].instance \in BOOLEAN /\ db' = db
      BY <1>2, <1>6 DEF StoringLike, Putting
    <2>2. pc'[p] \in {"commit", "payload"} /\ (Stores(p, "commit")' <=> pc'[p] = "payload")
          /\ ~Stores(p, "frame")' /\ ~Stores(p, "recordFeature")'
      BY <1>6, <2>1 DEF Stores, Putting
    <2>3. CourseAt(p)' /\ Placed(p)' /\ Filed(p)' /\ Extracting(p)' /\ Storing(p)'
      BY <2>1, <2>2 DEF CourseAt, Placed, Filed, Extracting, Storing, Putting, Importing, Placing,
                        Featuring
    <2>4. View(p) = job[p].tx /\ View(p)' = job'[p].tx
      BY <2>1 DEF View
    <2>5. InTransaction(p)
      BY <1>1 DEF Held, Local
    <2>6. \A source, config, doc :
            /\ pc[p] = "commit" <=> job[p].puts = <<>>
            /\ Queued(job[p].puts, job[p].tx, source, config, doc)
            /\ WholeBut(job[p].tx, manifests, cas, source, config, doc)
            => /\ pc'[p] = "commit" <=> job'[p].puts = <<>>
               /\ Queued(job'[p].puts, job'[p].tx, source, config, doc)
               /\ WholeBut(job'[p].tx, manifests', cas', source, config, doc)
      <3> SUFFICES ASSUME NEW source, NEW config, NEW doc,
                          pc[p] = "commit" <=> job[p].puts = <<>>,
                          Queued(job[p].puts, job[p].tx, source, config, doc),
                          WholeBut(job[p].tx, manifests, cas, source, config, doc)
                   PROVE  /\ pc'[p] = "commit" <=> job'[p].puts = <<>>
                          /\ Queued(job'[p].puts, job'[p].tx, source, config, doc)
                          /\ WholeBut(job'[p].tx, manifests', cas', source, config, doc)
        OBVIOUS
      <3>1. job[p].puts # <<>>
        BY <2>1
      <3>2. /\ Queued(Tail(job[p].puts), job'[p].tx, source, config, doc)
            /\ Len(job[p].puts) = 1 <=> Tail(job[p].puts) = <<>>
        BY <2>4, <3>1, QueueMoves
      <3> QED
        BY <1>6, <2>1, <2>2, <3>1, <3>2
    <2>7. InTransaction(p)'
      BY <2>1, <2>5, <2>6, TransactionGoes DEF StoringLike
    <2> QED
      BY <2>3, <2>7 DEF Local
  <1> QED
    BY <1>2, <1>4, <1>5, <1>6
LEMMA PutPayloadKeeps ==
  ASSUME ImportInv, NEW p \in Proc, PutPayload(p)
  PROVE  ImportInv'
  <1> DEFINE c   == Head(job[p].puts).hash
             old == FindArtifactByHash(View(p), c)
  <1>1. /\ pc[p] = "payload" /\ UNCHANGED <<disk, schema, db, manifests, ids, counts>>
        /\ pc[p] \in Putting /\ pc[p] \notin {"observation", "obsPayload"}
    BY DEF PutPayload, Putting
  <1>2. /\ Holds(p) /\ job[p].after \in Writing
        /\ job[p].begun <=> job[p].after = "commit"
        /\ job[p].instance \in BOOLEAN
    BY <1>1, QueueShape DEF Writing, Importing, Featuring
  <1>3. /\ ids' \in Nat /\ ids <= ids' /\ DOMAIN job[p] = Fields /\ DOMAIN db = Tables
        /\ db.projects = db.projects /\ Held(p)
        /\ crashes' = crashes /\ crashes' \in 0..MaxCrashes /\ commands' \in 0..MaxCommands
    BY <1>1, FieldsAt, Shapes DEF ImportInv, Typed, ImportTypeOK, counts
  <1>4. job[p].begun => Content(job[p].tx, manifests, cas, ids)
    BY DEF ImportInv, Known
  <1>5. CASE /\ ~job[p].instance /\ old # {}
             /\ PutNext(p, [job[p] EXCEPT !.ref = (CHOOSE r \in old : TRUE).id])
             /\ UNCHANGED <<cas, lock>>
    <2> DEFINE r == CHOOSE x \in old : TRUE
               k == [job[p] EXCEPT !.ref = r.id]
               j == [k EXCEPT !.puts = Tail(@)]
               label == IF Len(job[p].puts) = 1 THEN job[p].after ELSE "payload"
    <2>1. r \in View(p).artifacts /\ r.hash = c
      BY <1>5 DEF FindArtifactByHash
    <2>2. /\ k.puts = job[p].puts /\ k.after = job[p].after /\ DOMAIN k = Fields
          /\ j.puts = Tail(job[p].puts) /\ j.ref = r.id
          /\ j.tx = job[p].tx /\ StoringLike(j, job[p])
      BY <1>3 DEF StoringLike, Fields
    <2>3. Go(p, label) /\ Set(p, j) /\ label \in Writing
      BY <1>2, <1>5, <2>2 DEF PutNext, Writing, Putting
    <2> HIDE DEF r, k, j, label
    <2>4. /\ Moving(p) /\ pc'[p] = label /\ job'[p] = j
          /\ TypedAt(p)' /\ AloneAt(p)' /\ MigratedAt(p)'
      BY <1>1, <1>2, <1>3, <1>5, <2>2, <2>3, GoesOn DEF StoringLike
    <2>5. GrowingStore
      BY <1>1, <1>3, <1>5 DEF GrowingStore
    <2>6. View(p)' = View(p)
      BY <1>1, <2>2, <2>4 DEF View, StoringLike
    <2>7. Keeps({"artifacts"})
      BY <1>1, <1>3 DEF Keeps
    <2>8. job[p].begun =>
            /\ DOMAIN job'[p].tx = DOMAIN EmptyTables
            /\ \A t \in DOMAIN EmptyTables \ {"artifacts"} : job'[p].tx[t] = job[p].tx[t]
            /\ \A source, config, doc :
                 WholeBut(job[p].tx, manifests, cas, source, config, doc)
                 => WholeBut(job'[p].tx, manifests', cas', source, config, doc)
      BY <1>1, <1>3, <1>5, <2>2, <2>4 DEF Held, Local, InTransaction
    <2>9. CourseAt(p)' /\ Local(p)'
      <3>1. FindArtifactByHash(View(p)', c) # {}
        BY <1>5, <2>6
      <3>2. \E x \in View(p)'.artifacts : x.id = job'[p].ref /\ x.hash = c
        BY <2>1, <2>2, <2>4, <2>6
      <3>3. pc'[p] = IF Len(job[p].puts) = 1 THEN job[p].after ELSE "payload"
        BY <2>4 DEF label
      <3>4. StoringLike(job'[p], job[p]) /\ job'[p].puts = Tail(job[p].puts)
        BY <2>2, <2>4
      <3>5. Refers(View(p)', manifests', job'[p].ref, c)
        <4>1. Content(View(p), manifests, cas, ids)
          BY <1>4 DEF View, ImportInv, Known
        <4>2. r.id \in Nat /\ \E x \in manifests : x.id = r.id /\ x.hash = r.hash
          BY <2>1, <4>1 DEF Content
        <4>3. manifests' = manifests /\ job'[p].ref = r.id
          BY <1>1, <2>2, <2>4
        <4> QED
          BY <2>1, <2>6, <4>2, <4>3 DEF Refers
      <3> QED
        BY <1>1, <2>6, <2>7, <2>8, <3>1, <3>2, <3>3, <3>4, <3>5, HeadStored
    <2>10. job'[p].begun => Content(job'[p].tx, manifests', cas', ids')
      BY <1>1, <1>4, <1>5, <2>2, <2>4 DEF StoringLike
    <2> QED
      BY <1>1, <1>2, <2>4, <2>5, <2>9, <2>10, HolderQuiet DEF Held
  <1>6. CASE /\ \/ ~job[p].instance /\ old = {} /\ cas' = cas \cup {c}
                \/ job[p].instance /\ c \in cas /\ cas' = cas
             /\ Go(p, "manifest") /\ UNCHANGED <<job, lock>>
    <2>1. GrowingStore /\ c \in cas'
      BY <1>1, <1>3, <1>6 DEF GrowingStore
    <2>2. /\ Moving(p) /\ pc'[p] = "manifest" /\ job'[p] = job[p]
          /\ TypedAt(p)' /\ AloneAt(p)' /\ MigratedAt(p)'
      <3>1. "manifest" \in Writing
        BY DEF Writing, Putting
      <3> QED
        BY <1>1, <1>2, <1>3, <1>6, <3>1, GoesOn
    <2>3. StoringLike(job'[p], job[p]) /\ pc'[p] \in Putting
      BY <1>3, <2>2 DEF StoringLike, Putting
    <2>4. CourseAt(p)' /\ Placed(p)' /\ Filed(p)' /\ Extracting(p)' /\ InTransaction(p)'
      BY <1>1, <2>1, <2>2, <2>3, StillPutting
    <2>5. View(p)' = View(p)
      BY <1>1, <2>2 DEF View
    <2>6. Storing(p)'
      BY <1>1, <1>3, <1>6, <2>1, <2>2, <2>5 DEF Held, Local, Storing
    <2>7. job'[p].begun => Content(job'[p].tx, manifests', cas', ids')
      BY <1>1, <1>3, <1>4, <2>1, <2>2, ContentGrows DEF GrowingStore, ImportInv, Typed, ImportTypeOK
    <2> QED
      BY <1>1, <1>2, <2>1, <2>2, <2>4, <2>6, <2>7, HolderQuiet DEF Held, Local
  <1>7. CASE Leave(p) /\ UNCHANGED cas
    BY <1>1, <1>3, <1>7, LeaveStep DEF store, counts
  <1> QED
    BY <1>5, <1>6, <1>7 DEF PutPayload

LEMMA PutManifestKeeps ==
  ASSUME ImportInv, NEW p \in Proc, PutManifest(p)
  PROVE  ImportInv'
  <1> DEFINE j == [job[p] EXCEPT !.ref = ids]
  <1>1. /\ pc[p] = "manifest" /\ UNCHANGED <<disk, schema, db, cas, lock, counts>>
        /\ pc[p] \in Putting /\ pc[p] \notin {"observation", "obsPayload"}
        /\ manifests' = manifests \cup {Stamped(job[p], ids)} /\ ids' = ids + 1
        /\ Go(p, "row") /\ Set(p, j)
    BY DEF PutManifest, Putting
  <1>2. Holds(p) /\ Held(p) /\ ids \in Nat
    BY <1>1, QueueShape DEF ImportInv, Typed, ImportTypeOK
  <1>3. /\ j.puts = job[p].puts /\ j.ref = ids /\ j.tx = job[p].tx /\ StoringLike(j, job[p])
    BY FieldsAt DEF StoringLike, Fields
  <1>4. Stamped(job[p], ids) = Stamped(j, ids)
    BY <1>3 DEF Stamped
  <1> HIDE DEF j
  <1>5. GrowingStore
    BY <1>1, <1>2 DEF GrowingStore
  <1>6. /\ Moving(p) /\ pc'[p] = "row" /\ job'[p] = j
        /\ TypedAt(p)' /\ AloneAt(p)' /\ MigratedAt(p)'
    <2>1. "row" \in Writing
      BY DEF Writing, Putting
    <2> QED
      BY <1>1, <1>2, <1>3, <1>5, <2>1, GoesOn DEF StoringLike, GrowingStore
  <1>7. CourseAt(p)' /\ Placed(p)' /\ Filed(p)' /\ Extracting(p)' /\ InTransaction(p)'
    BY <1>1, <1>3, <1>5, <1>6, StillPutting DEF Putting
  <1>8. View(p)' = View(p)
    BY <1>1, <1>3, <1>6 DEF View, StoringLike
  <1>9. \A r \in View(p).artifacts : r.id \in Nat /\ r.id < ids
    BY DEF View, ImportInv, Known, Content
  <1>10. Storing(p)'
    <2>1. Storing(p)
      BY <1>2 DEF Held, Local
    <2>2. Stamped(job'[p], job'[p].ref) \in manifests'
      BY <1>1, <1>3, <1>4, <1>6
    <2>3. job'[p].ref \in Nat /\ job'[p].ref < ids' /\ \A r \in View(p)'.artifacts : r.id < job'[p].ref
      BY <1>1, <1>2, <1>3, <1>6, <1>8, <1>9
    <2>4. job'[p].instance = job[p].instance /\ job'[p].after = job[p].after
          /\ job'[p].puts = job[p].puts
      BY <1>3, <1>6 DEF StoringLike
    <2> QED
      BY <1>1, <1>8, <2>1, <2>2, <2>3, <2>4 DEF Storing
  <1>11. job'[p].begun => Content(job'[p].tx, manifests', cas', ids')
    <2> SUFFICES ASSUME job[p].begun
                 PROVE  Content(job[p].tx, manifests', cas', ids')
      BY <1>3, <1>6 DEF StoringLike
    <2>1. Content(job[p].tx, manifests, cas, ids)
      BY DEF ImportInv, Known
    <2> QED
      BY <1>2, <1>5, <2>1, ContentGrows DEF GrowingStore
  <1> QED
    BY <1>1, <1>2, <1>5, <1>6, <1>7, <1>10, <1>11, HolderQuiet DEF Held, Local
\* The row a of a stored content: it takes the place of a row of the same image only.
LEMMA Upserted ==
  ASSUME NEW d, NEW a, NEW e, e = UpsertArtifact(d, a), DOMAIN d = Tables,
         NEW M, NEW C, NEW n \in Nat, Content(d, M, C, n),
         a.id \in Nat, a.id < n, a.hash \in C, a \in M,
         \A r \in d.artifacts : r.id \in Nat /\ r.id < a.id,
         FindArtifactByHash(d, a.hash) = {} \/ a.hash[1] = "image"
  PROVE  /\ DOMAIN e = Tables /\ \A t \in Tables \ {"artifacts"} : e[t] = d[t]
         /\ a \in e.artifacts /\ \A r \in e.artifacts : r = a \/ r \in d.artifacts
         /\ \A h : FindArtifactByHash(d, h) # {} => FindArtifactByHash(e, h) # {}
         /\ FindArtifactByHash(e, a.hash) # {}
         /\ Content(e, M, C, n)
  <1>1. /\ DOMAIN e = Tables /\ \A t \in Tables \ {"artifacts"} : e[t] = d[t]
        /\ e.artifacts = {r \in d.artifacts : r.id # a.id /\ r.hash # a.hash} \cup {a}
    BY DEF UpsertArtifact, Tables
  <1>2. e.observations = d.observations /\ e.features = d.features
    BY <1>1 DEF Tables
  <1>3. a \in e.artifacts /\ \A r \in e.artifacts : r = a \/ r \in d.artifacts
    BY <1>1
  <1>4. \A h : FindArtifactByHash(d, h) # {} => FindArtifactByHash(e, h) # {}
    <2> SUFFICES ASSUME NEW r \in d.artifacts
                 PROVE  \E x \in e.artifacts : x.hash = r.hash
      BY DEF FindArtifactByHash
    <2> QED
      BY <1>1
  <1>5. FindArtifactByHash(e, a.hash) # {}
    BY <1>3 DEF FindArtifactByHash
  <1>6. Content(e, M, C, n)
    <2>1. \A r \in e.artifacts : /\ r.id \in Nat /\ r.id < n /\ r.hash \in C
                                 /\ \E m \in M : m.id = r.id /\ m.hash = r.hash
      BY <1>3 DEF Content
    <2>2. \A r, s \in e.artifacts : r.id = s.id => r = s
      BY <1>3 DEF Content
    <2>3. \A o \in e.observations : Refers(e, M, o.ref, o.id[4])
      <3> SUFFICES ASSUME NEW o \in d.observations
                   PROVE  Refers(e, M, o.ref, o.id[4])
        BY <1>2
      <3>1. o.ref \in Nat /\ \E m \in M : m.id = o.ref /\ m.hash = o.id[4]
        BY DEF Content, Refers
      <3>2. PICK r \in d.artifacts : r.hash = o.id[4] /\ o.ref <= r.id
        BY DEF Content, Refers
      <3>3. CASE r.hash = a.hash
        BY <1>3, <3>1, <3>2, <3>3 DEF Refers
      <3>4. CASE r.hash # a.hash
        <4>1. r.id # a.id
          OBVIOUS
        <4> QED
          BY <1>1, <3>1, <3>2, <3>4, <4>1 DEF Refers
      <3> QED
        BY <3>3, <3>4
    <2>4. \A x \in e.features : \E r \in e.artifacts :
            r.id = x.ref /\ r.hash = x.id[3] /\ r.hash[1] = "feature"
      <3> SUFFICES ASSUME NEW x \in d.features
                   PROVE  \E r \in e.artifacts :
                            r.id = x.ref /\ r.hash = x.id[3] /\ r.hash[1] = "feature"
        BY <1>2
      <3>1. PICK r \in d.artifacts : r.id = x.ref /\ r.hash = x.id[3] /\ r.hash[1] = "feature"
        BY DEF Content
      <3>2. r.hash # a.hash
        BY <3>1 DEF FindArtifactByHash
      <3> QED
        BY <1>1, <3>1, <3>2
    <2> QED
      BY <2>1, <2>2, <2>3, <2>4 DEF Content
  <1> QED
    BY <1>1, <1>3, <1>4, <1>5, <1>6

LEMMA PutRowKeeps ==
  ASSUME ImportInv, NEW p \in Proc, PutRow(p)
  PROVE  ImportInv'
  <1> DEFINE a     == Stamped(job[p], job[p].ref)
             d     == View(p)
             e     == UpsertArtifact(d, a)
             k     == [job[p] EXCEPT !.puts = Tail(@)]
             j     == IF k.begun THEN [k EXCEPT !.tx = e] ELSE k
             label == IF Len(job[p].puts) = 1 THEN job[p].after ELSE "payload"
  <1>1. /\ pc[p] = "row" /\ pc[p] \in Putting /\ pc[p] \notin {"observation", "obsPayload"}
        /\ Go(p, label) /\ Set(p, j) /\ db' = (IF k.begun THEN db ELSE e)
        /\ UNCHANGED <<disk, schema, store, lock, ids, counts>>
    BY DEF PutRow, Putting, Write
  <1>2. /\ Holds(p) /\ Held(p) /\ ids \in Nat /\ job[p].after \in Writing /\ label \in Writing
        /\ job[p].begun <=> job[p].after = "commit"
        /\ job[p].instance \in BOOLEAN /\ (job[p].instance => job[p].after = "frame")
        /\ job[p].after = "frame" => Head(job[p].puts).hash[1] = "image"
        /\ ~job[p].begun => Head(job[p].puts).type \in {"image", "feature"}
    BY <1>1, QueueShape DEF ImportInv, Typed, ImportTypeOK, Writing, Importing, Featuring, Putting
  <1>3. PICK m : Head(job[p].puts) = m /\ DOMAIN m = {"id", "hash", "type", "config", "inputs"}
    BY <1>1, QueueShape
  <1>4. /\ a.id = job[p].ref /\ a.hash = m.hash /\ a.type = m.type /\ a.config = m.config
        /\ a.inputs = m.inputs
    BY <1>3, StampedFields
  <1>5. /\ k.puts = Tail(job[p].puts) /\ k.begun = job[p].begun /\ k.tx = job[p].tx
        /\ DOMAIN k = Fields /\ k.ref = job[p].ref /\ StoringLike(k, job[p])
    BY FieldsAt DEF StoringLike, Fields
  <1>6. /\ StoringLike(j, job[p]) /\ j.puts = Tail(job[p].puts) /\ j.ref = job[p].ref
        /\ job[p].begun => j.tx = e
    <2> HIDE DEF k, e
    <2>1. CASE k.begun
      BY <1>5, <2>1 DEF StoringLike, Fields
    <2>2. CASE ~k.begun
      BY <1>5, <2>2
    <2> QED
      BY <2>1, <2>2
  <1>7. /\ job[p].begun => d = job[p].tx
        /\ ~job[p].begun => d = db
    BY DEF View
  <1>8. Content(d, manifests, cas, ids) /\ DOMAIN d = Tables
    BY <1>2, <1>7, Shapes DEF ImportInv, Known, Held, Local, InTransaction, Typed
  <1>9. /\ a \in manifests /\ a.id \in Nat /\ a.id < ids /\ a.hash \in cas
        /\ \A r \in d.artifacts : r.id \in Nat /\ r.id < a.id
        /\ FindArtifactByHash(d, a.hash) = {} \/ a.hash[1] = "image"
    <2>1. Storing(p)
      BY <1>2 DEF Held, Local
    <2>2. \A r \in d.artifacts : r.id \in Nat
      BY <1>8 DEF Content
    <2> HIDE DEF d, a
    <2> QED
      BY <1>1, <1>2, <1>3, <1>4, <2>1, <2>2 DEF Storing, d, a
  <1> HIDE DEF a, d, e, k, j, label
  <1>10. /\ DOMAIN e = Tables /\ \A t \in Tables \ {"artifacts"} : e[t] = d[t]
         /\ a \in e.artifacts /\ \A r \in e.artifacts : r = a \/ r \in d.artifacts
         /\ \A h : FindArtifactByHash(d, h) # {} => FindArtifactByHash(e, h) # {}
         /\ FindArtifactByHash(e, a.hash) # {}
         /\ Content(e, manifests, cas, ids)
    BY <1>2, <1>8, <1>9, Upserted DEF e
  <1>11. e.trajectories = d.trajectories
    BY <1>10 DEF Tables
  <1>12. /\ Moving(p) /\ pc'[p] = label /\ job'[p] = j
         /\ TypedAt(p)' /\ AloneAt(p)' /\ MigratedAt(p)'
    BY <1>1, <1>2, <1>6, GoesOn DEF StoringLike
  <1>13. GrowingStore
    BY <1>1, <1>2 DEF GrowingStore, store
  <1>14. DOMAIN db = Tables /\ DOMAIN db' = Tables /\ Keeps({"artifacts"}) /\ View(p)' = e
    <2>1. DOMAIN db = Tables
      BY Shapes DEF ImportInv, Typed
    <2>2. View(p)' = e
      BY <1>1, <1>5, <1>6, <1>12 DEF View, StoringLike
    <2>3. CASE job[p].begun
      BY <1>1, <1>5, <2>1, <2>2, <2>3 DEF Keeps
    <2>4. CASE ~job[p].begun
      BY <1>1, <1>5, <1>7, <1>10, <2>1, <2>2, <2>4 DEF Keeps
    <2> QED
      BY <2>3, <2>4
  <1>15. job[p].begun =>
            /\ DOMAIN job'[p].tx = DOMAIN EmptyTables
            /\ \A t \in DOMAIN EmptyTables \ {"artifacts"} : job'[p].tx[t] = job[p].tx[t]
            /\ \A source, config, doc :
                 /\ Queued(job[p].puts, job[p].tx, source, config, doc)
                 /\ job[p].puts # <<>>
                 /\ WholeBut(job[p].tx, manifests, cas, source, config, doc)
                 => WholeBut(job'[p].tx, manifests', cas', source, config, doc)
    <2> SUFFICES ASSUME job[p].begun
                 PROVE  /\ DOMAIN e = DOMAIN EmptyTables
                        /\ \A t \in DOMAIN EmptyTables \ {"artifacts"} : e[t] = d[t]
                        /\ \A source, config, doc :
                             /\ Queued(job[p].puts, d, source, config, doc)
                             /\ job[p].puts # <<>>
                             /\ WholeBut(d, manifests, cas, source, config, doc)
                             => WholeBut(e, manifests, cas, source, config, doc)
      BY <1>1, <1>6, <1>7, <1>12 DEF store
    <2> SUFFICES ASSUME NEW source, NEW config, NEW doc,
                        Queued(job[p].puts, d, source, config, doc), job[p].puts # <<>>,
                        WholeBut(d, manifests, cas, source, config, doc)
                 PROVE  WholeBut(e, manifests, cas, source, config, doc)
      BY <1>10, Shapes
    <2>1. m \in {PutSource(source), PutConfig(source, config), PutDocument(source, config, doc)}
      BY <1>3 DEF Queued
    <2>2. a.type = "trajectory" => Pending(a, manifests, source, config, doc)
      <3> SUFFICES ASSUME a.type = "trajectory"
                   PROVE  Pending(a, manifests, source, config, doc)
        OBVIOUS
      <3>1. m = PutDocument(source, config, doc)
        BY <1>4, <2>1 DEF PutSource, PutConfig, PutDocument
      <3>2. a.hash = doc /\ a.config = config /\ a.inputs = <<source, config>>
        BY <1>4, <3>1 DEF PutDocument
      <3> QED
        BY <1>9, <3>2 DEF Pending
    <2>3. \A r \in d.artifacts : WholeRow(d, r, manifests, cas) => WholeRow(e, r, manifests, cas)
      BY <1>10, <1>11, WholeRowGrows
    <2>4. \A r \in e.artifacts : r.type = "trajectory" =>
            WholeRow(e, r, manifests, cas) \/ Pending(r, manifests, source, config, doc)
      BY <1>10, <2>2, <2>3 DEF WholeBut
    <2> QED
      BY <1>10, <1>11, <2>4 DEF WholeBut
  <1>16. CourseAt(p)' /\ Local(p)'
    <2>1. FindArtifactByHash(View(p)', Head(job[p].puts).hash) # {}
      BY <1>3, <1>4, <1>10, <1>14
    <2>2. \E r \in View(p)'.artifacts : r.id = job'[p].ref /\ r.hash = Head(job[p].puts).hash
      BY <1>3, <1>4, <1>6, <1>10, <1>12, <1>14
    <2>3. \A h : FindArtifactByHash(View(p), h) # {} => FindArtifactByHash(View(p)', h) # {}
      BY <1>10, <1>14 DEF d
    <2>4. pc'[p] = IF Len(job[p].puts) = 1 THEN job[p].after ELSE "payload"
      BY <1>12 DEF label
    <2>5. StoringLike(job'[p], job[p]) /\ job'[p].puts = Tail(job[p].puts)
      BY <1>6, <1>12
    <2>6. job[p].begun => db' = db
      BY <1>1, <1>5
    <2>7. Refers(View(p)', manifests', job'[p].ref, Head(job[p].puts).hash)
      <3>1. job'[p].ref = a.id /\ Head(job[p].puts).hash = a.hash /\ manifests' = manifests
        BY <1>1, <1>3, <1>4, <1>6, <1>12 DEF store
      <3> QED
        BY <1>9, <1>10, <1>14, <3>1 DEF Refers
    <2> QED
      BY <1>1, <1>14, <1>15, <2>1, <2>2, <2>3, <2>4, <2>5, <2>6, <2>7, HeadStored
  <1>17. Rooted' /\ Chained' /\ Recorded' /\ Calibrated'
    BY <1>2, <1>13, <1>14, RootedKept, ChainedKept, RecordedKept, CalibratedKept
       DEF GrowingStore, ImportInv
  <1>18. Content(db', manifests', cas', ids') /\ Whole(db', manifests', cas')
    <2>1. CASE job[p].begun
      BY <1>1, <1>5, <2>1 DEF ImportInv, Known, store
    <2>2. CASE ~job[p].begun
      <3>1. db' = e /\ d = db
        BY <1>1, <1>5, <1>7, <2>2
      <3>2. \A r \in e.artifacts : r.type = "trajectory" => WholeRow(e, r, manifests, cas)
        <4> SUFFICES ASSUME NEW r \in e.artifacts, r.type = "trajectory"
                     PROVE  WholeRow(e, r, manifests, cas)
          OBVIOUS
        <4>1. r \in db.artifacts
          BY <1>2, <1>3, <1>4, <1>10, <2>2, <3>1
        <4>2. WholeRow(db, r, manifests, cas)
          BY <4>1 DEF ImportInv, Whole
        <4> QED
          BY <1>10, <1>11, <3>1, <4>2, WholeRowGrows
      <3>3. \A t \in e.trajectories : FindArtifactByHash(e, t.doc) # {}
        BY <1>10, <1>11, <3>1 DEF ImportInv, Whole
      <3> QED
        BY <1>1, <1>10, <3>1, <3>2, <3>3 DEF Whole, store
    <2> QED
      BY <2>1, <2>2
  <1>19. Parted'
    BY <1>1, <1>12, <1>14, CompleteKept DEF ImportInv, Typed, Moving, counts
  <1>20. job'[p].begun => Content(job'[p].tx, manifests', cas', ids')
    BY <1>1, <1>6, <1>10, <1>12 DEF store, StoringLike
  <1> QED
    BY <1>2, <1>12, <1>13, <1>14, <1>16, <1>17, <1>18, <1>19, <1>20, HolderStep DEF Held
-----------------------------------------------------------------------------
(* An import, up to its first file. *)

\* A writer that stores nothing is in no transaction.
LEMMA Writer ==
  ASSUME ImportInv, NEW p \in Proc, pc[p] \in Importing \cup Featuring \cup {"open"}
  PROVE  /\ Holds(p) /\ Held(p) /\ ~job[p].begun /\ DOMAIN job[p] = Fields /\ DOMAIN db = Tables
         /\ ids \in Nat /\ Typed /\ Local(p)
  <1>1. Held(p) /\ Typed /\ ids \in Nat
    BY DEF ImportInv, Typed, ImportTypeOK
  <1>2. Holds(p) /\ ~job[p].begun
    BY <1>1 DEF Held, Holds, CourseAt, Stores, Writing, Putting, Importing, Featuring
  <1> QED
    BY <1>1, <1>2, FieldsAt, Shapes DEF Typed, Held

LEMMA EarlyImport ==
  ASSUME NEW p \in Proc, pc'[p] \in {"session", "findScene", "createScene", "version", "file"},
         ~job'[p].begun
  PROVE  CourseAt(p)' /\ Filed(p)' /\ Extracting(p)' /\ Storing(p)' /\ InTransaction(p)'
  BY DEF CourseAt, Filed, Extracting, Storing, InTransaction, Stores, Putting, Featuring

LEMMA StartImportKeeps ==
  ASSUME ImportInv, NEW p \in Proc, StartImport(p)
  PROVE  ImportInv'
  <1>1. /\ pc[p] = "open" /\ UNCHANGED <<disk, schema, db, store, ids, counts>>
        /\ pc[p] \in Importing \cup Featuring \cup {"open"}
    BY DEF StartImport
  <1>2. /\ Holds(p) /\ ~job[p].begun /\ DOMAIN job[p] = Fields /\ ids \in Nat /\ Typed
    BY <1>1, Writer
  <1>3. PICK i \in Imports, s \in Sensor, session \in {None, 0} \cup Ids(db.sessions) :
          IF i.files = {} \/ (session # None /\ ~FindSession(db, session))
          THEN Leave(p)
          ELSE /\ Go(p, IF session = None THEN "session" ELSE "findScene")
               /\ Set(p, [job[p] EXCEPT
                            !.files = i.files, !.sensor = s, !.time = i.time, !.session = session])
               /\ UNCHANGED lock
    BY DEF StartImport
  <1>4. /\ ids' \in Nat /\ ids <= ids' /\ crashes' = crashes /\ crashes' \in 0..MaxCrashes
        /\ commands' \in 0..MaxCommands
    BY <1>1, <1>2 DEF Typed, ImportTypeOK, counts
  <1>5. CASE Leave(p)
    BY <1>1, <1>4, <1>5, LeaveStep DEF counts
  <1>6. CASE /\ session = None \/ FindSession(db, session)
             /\ Go(p, IF session = None THEN "session" ELSE "findScene")
             /\ Set(p, [job[p] EXCEPT
                          !.files = i.files, !.sensor = s, !.time = i.time, !.session = session])
             /\ UNCHANGED lock
    <2> DEFINE j == [job[p] EXCEPT
                       !.files = i.files, !.sensor = s, !.time = i.time, !.session = session]
               label == IF session = None THEN "session" ELSE "findScene"
    <2>1. /\ j.files = i.files /\ j.session = session /\ j.begun = job[p].begun
          /\ j.uuid = job[p].uuid /\ DOMAIN j = Fields
      BY <1>2 DEF Fields
    <2>2. Go(p, label) /\ Set(p, j) /\ label \in Writing /\ label \in {"session", "findScene"}
      BY <1>6 DEF Writing, Importing
    <2>3. label = "findScene" => session \in Ids(db.sessions)
      BY <1>6 DEF FindSession
    <2> HIDE DEF j, label
    <2>4. /\ Moving(p) /\ pc'[p] = label /\ job'[p] = j
          /\ TypedAt(p)' /\ AloneAt(p)' /\ MigratedAt(p)'
      BY <1>1, <1>2, <1>4, <1>6, <2>1, <2>2, GoesOn
    <2>5. CourseAt(p)' /\ Filed(p)' /\ Extracting(p)' /\ Storing(p)' /\ InTransaction(p)'
      BY <1>2, <2>1, <2>2, <2>4, EarlyImport
    <2>6. Placed(p)'
      BY <1>1, <2>1, <2>2, <2>3, <2>4, Apart DEF Placed, Stores, Putting, Placing
    <2>7. GrowingStore
      BY <1>1, <1>4 DEF GrowingStore, store
    <2> QED
      BY <1>1, <1>2, <2>1, <2>4, <2>5, <2>6, <2>7, HolderQuiet DEF Held, Local
  <1> QED
    BY <1>3, <1>5, <1>6

LEMMA ImportSessionKeeps ==
  ASSUME ImportInv, NEW p \in Proc, ImportSession(p)
  PROVE  ImportInv'
  <1> DEFINE row == [id |-> ids, project |-> job[p].uuid]
             j   == [job[p] EXCEPT !.session = ids]
  <1>1. /\ pc[p] = "session" /\ ids' = ids + 1 /\ UNCHANGED <<disk, schema, store, counts>>
        /\ pc[p] \in Importing \cup Featuring \cup {"open"}
    BY DEF ImportSession, Importing
  <1>2. /\ Holds(p) /\ ~job[p].begun /\ DOMAIN job[p] = Fields /\ ids \in Nat /\ Typed /\ Local(p)
        /\ DOMAIN db = Tables
    BY <1>1, Writer
  <1>3. /\ ids' \in Nat /\ ids <= ids' /\ crashes' = crashes /\ crashes' \in 0..MaxCrashes
        /\ GrowingStore
    BY <1>1, <1>2 DEF Typed, ImportTypeOK, counts, GrowingStore, store
  <1>4. CASE Leave(p) /\ UNCHANGED db
    BY <1>1, <1>3, <1>4, LeaveStep DEF counts
  <1>5. CASE /\ CanInsertCaptureSession(db, row) /\ db' = InsertCaptureSession(db, row)
             /\ Go(p, "findScene") /\ Set(p, j) /\ UNCHANGED lock
    <2>1. /\ j.session = ids /\ j.begun = job[p].begun /\ j.files = job[p].files
          /\ j.uuid = job[p].uuid /\ DOMAIN j = Fields
      BY <1>2 DEF Fields
    <2>2. /\ db'.sessions = db.sessions \cup {row} /\ Keeps({"sessions"})
      BY <1>2, <1>5 DEF InsertCaptureSession, Keeps, Tables
    <2>3. row.id = ids /\ row.project \in db.projects
      BY <1>5 DEF CanInsertCaptureSession
    <2> HIDE DEF j, row
    <2>4. /\ Moving(p) /\ pc'[p] = "findScene" /\ job'[p] = j
          /\ TypedAt(p)' /\ AloneAt(p)' /\ MigratedAt(p)'
      <3>1. "findScene" \in Writing
        BY DEF Writing, Importing
      <3> QED
        BY <1>1, <1>2, <1>3, <1>5, <2>1, <3>1, GoesOn
    <2>5. CourseAt(p)' /\ Filed(p)' /\ Extracting(p)' /\ Storing(p)' /\ InTransaction(p)'
      BY <1>2, <2>1, <2>4, EarlyImport
    <2>6. Placed(p)'
      <3>1. ids \in Ids(db'.sessions)
        BY <2>2, <2>3 DEF Ids
      <3>2. \A f \in job[p].files : f.kind # None /\ (f.kind = "image" => f.content[1] = "image")
        BY <1>1, <1>2 DEF Local, Placed, Importing
      <3> QED
        BY <2>1, <2>4, <3>1, <3>2 DEF Placed, Stores, Putting, Placing
    <2>7. db'.projects = db.projects /\ db'.scenes = db.scenes
      BY <2>2 DEF Keeps, Tables
    <2>8. Rooted'
      BY <1>1, <1>2, <2>2, <2>3, <2>7 DEF ImportInv, Rooted
    <2>9. Recorded'
      <3>1. /\ db'.frames = db.frames /\ db'.observations = db.observations
            /\ db'.payloads = db.payloads /\ db'.rejections = db.rejections
            /\ db'.features = db.features /\ db'.trajectories = db.trajectories
        BY <2>2 DEF Keeps, Tables
      <3>2. Ids(db.sessions) \subseteq Ids(db'.sessions)
        BY <2>2 DEF Ids
      <3>3. \A t \in db.trajectories : \E x \in db'.sessions, s \in db'.scenes :
              x.id = t.session /\ s.id = t.scene /\ x.project = s.project
        BY <2>2, <2>7 DEF ImportInv, Recorded
      <3> QED
        BY <2>7, <3>1, <3>2, <3>3 DEF ImportInv, Recorded
    <2>10. Chained' /\ Calibrated'
      BY <1>2, <1>3, <2>2, ChainedKept, CalibratedKept DEF ImportInv
    <2>11. Content(db', manifests', cas', ids') /\ Whole(db', manifests', cas')
      BY <1>2, <1>3, <2>2, ContentKept, WholeKept DEF ImportInv, Known
    <2>12. Parted'
      BY <1>1, <1>3, <2>2, <2>4, CompleteKept DEF ImportInv, Typed, Moving
    <2>13. Held(p)' /\ ~job'[p].begun
      BY <1>2, <2>1, <2>4, <2>5, <2>6 DEF Held, Local
    <2> QED
      BY <1>2, <1>3, <2>2, <2>4, <2>8, <2>9, <2>10, <2>11, <2>12, <2>13, HolderStep DEF Keeps
  <1> QED
    BY <1>4, <1>5 DEF ImportSession

LEMMA ImportFindSceneKeeps ==
  ASSUME ImportInv, NEW p \in Proc, ImportFindScene(p)
  PROVE  ImportInv'
  <1> DEFINE found == FindSceneByProject(db, job[p].uuid)
  <1>1. /\ pc[p] = "findScene" /\ UNCHANGED <<disk, schema, db, store, lock, ids, counts>>
        /\ pc[p] \in Importing \cup Featuring \cup {"open"}
    BY DEF ImportFindScene, Importing
  <1>2. /\ Holds(p) /\ ~job[p].begun /\ DOMAIN job[p] = Fields /\ ids \in Nat /\ Typed /\ Local(p)
    BY <1>1, Writer
  <1>3. ids' \in Nat /\ ids <= ids' /\ GrowingStore
    BY <1>1, <1>2 DEF GrowingStore, store
  <1>4. \E label \in {"createScene", "version"} : \E j :
          /\ Go(p, label) /\ (Set(p, j) \/ (UNCHANGED job /\ job[p] = j))
          /\ DOMAIN j = Fields /\ j.uuid = job[p].uuid /\ j.files = job[p].files
          /\ j.session = job[p].session /\ j.begun = job[p].begun
          /\ label = "createScene" => found = {}
          /\ label = "version" => j.scene \in Ids(db.scenes)
    <2>1. CASE found = {}
      <3>1. Go(p, "createScene") /\ UNCHANGED job
        BY <2>1 DEF ImportFindScene
      <3> QED
        BY <1>2, <2>1, <3>1
    <2>2. CASE found # {}
      <3>1. PICK r \in found : Set(p, [job[p] EXCEPT !.scene = r.id])
        BY <2>2 DEF ImportFindScene
      <3> DEFINE j == [job[p] EXCEPT !.scene = r.id]
      <3>2. /\ DOMAIN j = Fields /\ j.uuid = job[p].uuid /\ j.files = job[p].files
            /\ j.session = job[p].session /\ j.begun = job[p].begun /\ j.scene = r.id
        BY <1>2 DEF Fields
      <3>3. r.id \in Ids(db.scenes)
        BY DEF FindSceneByProject, Ids
      <3>4. Go(p, "version") /\ Set(p, j)
        BY <2>2, <3>1 DEF ImportFindScene
      <3> HIDE DEF j
      <3> QED
        BY <3>2, <3>3, <3>4
    <2> QED
      BY <2>1, <2>2
  <1>5. PICK label, j :
          /\ label \in {"createScene", "version"}
          /\ Go(p, label) /\ (Set(p, j) \/ (UNCHANGED job /\ job[p] = j))
          /\ DOMAIN j = Fields /\ j.uuid = job[p].uuid /\ j.files = job[p].files
          /\ j.session = job[p].session /\ j.begun = job[p].begun
          /\ label = "createScene" => found = {}
          /\ label = "version" => j.scene \in Ids(db.scenes)
    BY <1>4
  <1>6. /\ Moving(p) /\ pc'[p] = label /\ job'[p] = j
        /\ TypedAt(p)' /\ AloneAt(p)' /\ MigratedAt(p)'
    <2>1. label \in Writing
      BY <1>5 DEF Writing, Importing
    <2> QED
      BY <1>1, <1>2, <1>3, <1>5, <2>1, GoesOn
  <1>7. CourseAt(p)' /\ Filed(p)' /\ Extracting(p)' /\ Storing(p)' /\ InTransaction(p)'
    BY <1>2, <1>5, <1>6, EarlyImport
  <1>8. Placed(p)'
    <2>1. /\ job[p].session \in Ids(db.sessions)
          /\ \A f \in job[p].files : f.kind # None /\ (f.kind = "image" => f.content[1] = "image")
      BY <1>1, <1>2 DEF Local, Placed, Importing
    <2> QED
      BY <1>1, <1>5, <1>6, <2>1 DEF Placed, Stores, Putting, Placing
  <1> QED
    BY <1>1, <1>2, <1>3, <1>5, <1>6, <1>7, <1>8, HolderQuiet DEF Held, Local
\* A scene keeps its history, whatever is added to the others.
LEMMA ImportCreateSceneKeeps ==
  ASSUME ImportInv, NEW p \in Proc, ImportCreateScene(p)
  PROVE  ImportInv'
  <1> DEFINE scene   == [id |-> ids, project |-> job[p].uuid, current |-> ids + 1]
             version == [id |-> ids + 1, scene |-> ids, parent |-> None, stage |-> "created"]
             j       == [job[p] EXCEPT !.scene = ids]
  <1>1. /\ pc[p] = "createScene" /\ ids' = ids + 2 /\ UNCHANGED <<disk, schema, store, counts>>
        /\ pc[p] \in Importing \cup Featuring \cup {"open"}
    BY DEF ImportCreateScene, Importing
  <1>2. /\ Holds(p) /\ ~job[p].begun /\ DOMAIN job[p] = Fields /\ ids \in Nat /\ Typed /\ Local(p)
        /\ DOMAIN db = Tables
    BY <1>1, Writer
  <1>3. /\ ids' \in Nat /\ ids <= ids' /\ crashes' = crashes /\ crashes' \in 0..MaxCrashes
        /\ GrowingStore
    BY <1>1, <1>2 DEF Typed, ImportTypeOK, counts, GrowingStore, store
  <1>4. CASE Leave(p) /\ UNCHANGED db
    BY <1>1, <1>3, <1>4, LeaveStep DEF counts
  <1>5. CASE /\ CanCreateScene(db, job[p].uuid)
             /\ db' = CreateScene(db, ids, job[p].uuid, ids + 1)
             /\ Go(p, "version") /\ Set(p, j) /\ UNCHANGED lock
    <2>1. /\ j.session = job[p].session /\ j.begun = job[p].begun /\ j.files = job[p].files
          /\ j.uuid = job[p].uuid /\ DOMAIN j = Fields /\ j.scene = ids
      BY <1>2 DEF Fields
    <2>2. /\ db'.scenes = db.scenes \cup {scene} /\ db'.versions = db.versions \cup {version}
          /\ Keeps({"scenes", "versions"})
      BY <1>2, <1>5 DEF CreateScene, Keeps, Tables
    <2>3. /\ scene.id = ids /\ scene.project = job[p].uuid /\ scene.current = ids + 1
          /\ DOMAIN scene = {"id", "project", "current"}
          /\ version.id = ids + 1 /\ version.scene = ids /\ version.parent = None
      OBVIOUS
    <2> HIDE DEF j, scene, version
    <2>4. /\ job[p].uuid \in db.projects /\ \A s \in db.scenes : s.project # job[p].uuid
      BY <1>1, <1>2, <1>5 DEF CanCreateScene, Local, Placed, FindSceneByProject
    <2>5. /\ Moving(p) /\ pc'[p] = "version" /\ job'[p] = j
          /\ TypedAt(p)' /\ AloneAt(p)' /\ MigratedAt(p)'
      <3>1. "version" \in Writing
        BY DEF Writing, Importing
      <3> QED
        BY <1>1, <1>2, <1>3, <1>5, <2>1, <3>1, GoesOn
    <2>6. CourseAt(p)' /\ Filed(p)' /\ Extracting(p)' /\ Storing(p)' /\ InTransaction(p)'
      BY <1>2, <2>1, <2>5, EarlyImport
    <2>7. db'.projects = db.projects /\ db'.sessions = db.sessions
      BY <2>2 DEF Keeps, Tables
    <2>8. Placed(p)'
      <3>1. ids \in Ids(db'.scenes)
        BY <2>2, <2>3 DEF Ids
      <3>2. /\ \A f \in job[p].files : f.kind # None /\ (f.kind = "image" => f.content[1] = "image")
            /\ job[p].session \in Ids(db.sessions)
        BY <1>1, <1>2 DEF Local, Placed, Importing
      <3> QED
        BY <2>1, <2>5, <2>7, <3>1, <3>2 DEF Placed, Stores, Putting, Placing
    <2>9. Rooted'
      BY <1>1, <1>2, <2>2, <2>3, <2>4, <2>7 DEF ImportInv, Rooted
    <2>10. Chained'
      <3>1. \A s \in db.scenes : s.id # ids /\ s.current # ids + 1 /\ s.id \in Nat
        BY <1>2 DEF ImportInv, Rooted
      <3>2. \A v \in db.versions : v.scene # ids /\ v.id # ids + 1 /\ v.id \in Nat
        BY <1>2, <3>1 DEF ImportInv, Chained, Ids
      <3> DEFINE Later(s) == {v \in db'.versions : v.scene = s}
      <3>3. /\ \A s : s # ids => Later(s) = Versions(s)
            /\ Later(ids) = {version}
        BY <2>2, <2>3, <3>2 DEF Versions
      <3>4. \A v \in db'.versions :
              /\ v.id \in Nat /\ v.id < ids' /\ v.scene \in Ids(db'.scenes)
              /\ v.parent # None => v.parent \in Nat /\ v.parent < ids'
        <4>1. Ids(db.scenes) \subseteq Ids(db'.scenes) /\ ids \in Ids(db'.scenes)
          BY <2>2, <2>3 DEF Ids
        <4>2. \A v \in db.versions :
                /\ v.id \in Nat /\ v.id < ids /\ v.scene \in Ids(db.scenes)
                /\ v.parent # None => v.parent \in Nat /\ v.parent < ids
          BY DEF ImportInv, Chained
        <4>3. \A v \in db'.versions : v = version \/ v \in db.versions
          BY <2>2
        <4>4. /\ version.id \in Nat /\ version.id < ids' /\ version.scene \in Ids(db'.scenes)
              /\ version.parent = None
          BY <1>1, <1>2, <2>3, <4>1
        <4> QED
          BY <1>1, <1>2, <4>1, <4>2, <4>3, <4>4
      <3>5. \A v \in db'.versions : v.id = ids + 1 => v = version
        BY <2>2, <3>2
      <3>6. ASSUME NEW s \in db'.scenes
            PROVE  /\ \E v \in Later(s.id) :
                       v.parent = None /\ \A w \in Later(s.id) : w.parent = None => w = v
                   /\ \A v \in db'.versions : v.id = s.current => v.scene = s.id
                   /\ \A v \in Later(s.id) : v.id = s.current =>
                           \A w \in Later(s.id) : w.parent # v.id
                   /\ \A v \in Later(s.id) : v.id # s.current =>
                           \E w \in Later(s.id) :
                               w.parent = v.id /\ \A u \in Later(s.id) : u.parent = v.id => u = w
        <4>1. CASE s = scene
          <5>1. s.id = ids /\ s.current = ids + 1 /\ Later(s.id) = {version}
            BY <2>3, <3>3, <4>1
          <5>2. version.parent # version.id
            BY <1>2, <2>3, Apart
          <5> HIDE DEF Later
          <5> QED
            BY <2>3, <3>5, <5>1, <5>2
        <4>2. CASE s \in db.scenes
          <5>1. s.id # ids /\ Later(s.id) = Versions(s.id) /\ s.current # ids + 1
            BY <3>1, <3>3, <4>2
          <5>2. \A v \in db'.versions : v.id = s.current => v \in db.versions
            BY <2>2, <2>3, <5>1
          <5> HIDE DEF Later
          <5> QED
            BY <4>2, <5>1, <5>2 DEF ImportInv, Chained
        <4> QED
          BY <2>2, <4>1, <4>2
      <3> QED
        BY <3>4, <3>6 DEF Chained, Versions
    <2>11. Recorded'
      <3>1. /\ db'.frames = db.frames /\ db'.observations = db.observations
            /\ db'.payloads = db.payloads /\ db'.rejections = db.rejections
            /\ db'.features = db.features /\ db'.trajectories = db.trajectories
        BY <2>2 DEF Keeps, Tables
      <3>2. Ids(db.scenes) \subseteq Ids(db'.scenes)
        BY <2>2 DEF Ids
      <3>3. \A t \in db.trajectories : \E x \in db'.sessions, s \in db'.scenes :
              x.id = t.session /\ s.id = t.scene /\ x.project = s.project
        BY <2>2, <2>7 DEF ImportInv, Recorded
      <3> QED
        BY <2>7, <3>1, <3>2, <3>3 DEF ImportInv, Recorded
    <2>12. Calibrated' /\ Content(db', manifests', cas', ids') /\ Whole(db', manifests', cas')
      BY <1>2, <1>3, <2>2, CalibratedKept, ContentKept, WholeKept DEF ImportInv, Known
    <2>13. Parted'
      BY <1>1, <1>3, <2>2, <2>5, CompleteKept DEF ImportInv, Typed, Moving
    <2>14. Held(p)' /\ ~job'[p].begun
      BY <1>2, <2>1, <2>5, <2>6, <2>8 DEF Held, Local
    <2> QED
      BY <1>2, <1>3, <2>2, <2>5, <2>9, <2>10, <2>11, <2>12, <2>13, <2>14, HolderStep DEF Keeps
  <1> QED
    BY <1>4, <1>5 DEF ImportCreateScene

LEMMA ImportVersionKeeps ==
  ASSUME ImportInv, NEW p \in Proc, ImportVersion(p)
  PROVE  ImportInv'
  <1> DEFINE c   == job[p].scene
             row == CHOOSE r \in db.scenes : r.id = c
             new == [id |-> ids, scene |-> c, parent |-> row.current, stage |-> "imported"]
  <1>1. /\ pc[p] = "version" /\ ids' = ids + 1 /\ UNCHANGED <<disk, schema, store, lock, job, counts>>
        /\ pc[p] \in Importing \cup Featuring \cup {"open"} /\ Go(p, "file")
        /\ db' = CreateSceneVersion(db, c, "imported", ids)
    BY DEF ImportVersion, Importing
  <1>2. /\ Holds(p) /\ ~job[p].begun /\ DOMAIN job[p] = Fields /\ ids \in Nat /\ Typed /\ Local(p)
        /\ DOMAIN db = Tables
    BY <1>1, Writer
  <1>3. ids' \in Nat /\ ids <= ids' /\ crashes' = crashes /\ GrowingStore
    BY <1>1, <1>2 DEF Typed, ImportTypeOK, counts, GrowingStore, store
  <1>4. /\ row \in db.scenes /\ row.id = c
        /\ job[p].session \in Ids(db.sessions)
        /\ \A f \in job[p].files : f.kind # None /\ (f.kind = "image" => f.content[1] = "image")
    <2>1. c \in Ids(db.scenes)
      BY <1>1, <1>2 DEF Local, Placed
    <2>2. \E r \in db.scenes : r.id = c
      BY <2>1 DEF Ids
    <2> QED
      BY <1>1, <1>2, <2>2 DEF Local, Placed, Importing
  <1>5. \A s \in db.scenes :
          /\ s.id \in Nat /\ s.id < ids /\ s.current \in Nat /\ s.current < ids
          /\ DOMAIN s = {"id", "project", "current"} /\ (s.id = c => s = row)
    BY <1>4 DEF ImportInv, Rooted
  <1>6. /\ db'.scenes = {IF r.id = c THEN [r EXCEPT !.current = ids] ELSE r : r \in db.scenes}
        /\ db'.versions = db.versions \cup {new}
        /\ Keeps({"scenes", "versions"})
    BY <1>1, <1>2 DEF CreateSceneVersion, Keeps, Tables
  <1>7. new.id = ids /\ new.scene = c /\ new.parent = row.current
    OBVIOUS
  <1> HIDE DEF new, row
  <1> DEFINE after(r) == IF r.id = c THEN [r EXCEPT !.current = ids] ELSE r
  <1>8. \A s \in db.scenes :
          /\ after(s).id = s.id /\ after(s).project = s.project
          /\ DOMAIN after(s) = {"id", "project", "current"}
          /\ after(s).current = IF s.id = c THEN ids ELSE s.current
    BY <1>5
  <1>9. db'.scenes = {after(r) : r \in db.scenes}
    BY <1>6
  <1> HIDE DEF after
  <1>10. Ids(db'.scenes) = Ids(db.scenes)
    BY <1>8, <1>9 DEF Ids
  <1>11. /\ Moving(p) /\ pc'[p] = "file" /\ job'[p] = job[p]
         /\ TypedAt(p)' /\ AloneAt(p)' /\ MigratedAt(p)'
    <2>1. "file" \in Writing
      BY DEF Writing, Importing
    <2> QED
      BY <1>1, <1>2, <1>3, <2>1, GoesOn
  <1>12. CourseAt(p)' /\ Filed(p)' /\ Extracting(p)' /\ Storing(p)' /\ InTransaction(p)'
    BY <1>2, <1>11, EarlyImport
  <1>13. db'.projects = db.projects /\ db'.sessions = db.sessions
    BY <1>6 DEF Keeps, Tables
  <1>14. Placed(p)'
    <2>1. c \in Ids(db'.scenes)
      BY <1>4, <1>10 DEF Ids
    <2> QED
      BY <1>4, <1>11, <1>13, <2>1 DEF Placed, Stores, Putting, Placing
  <1>15. Rooted'
    <2>1. \A x \in db'.scenes : \E s \in db.scenes : x = after(s)
      BY <1>9
    <2>2. \A x \in db'.scenes : /\ x.id \in Nat /\ x.id < ids' /\ x.project \in db'.projects
                                /\ x.current \in Nat /\ x.current < ids'
                                /\ DOMAIN x = {"id", "project", "current"}
      <3> SUFFICES ASSUME NEW s \in db.scenes
                   PROVE  LET x == after(s)
                          IN  /\ x.id \in Nat /\ x.id < ids' /\ x.project \in db'.projects
                              /\ x.current \in Nat /\ x.current < ids'
                              /\ DOMAIN x = {"id", "project", "current"}
        BY <2>1
      <3>1. s.project \in db.projects
        BY DEF ImportInv, Rooted
      <3> QED
        BY <1>1, <1>2, <1>5, <1>8, <1>13, <3>1
    <2>3. \A a, b \in db'.scenes : (a.id = b.id \/ a.project = b.project) => a = b
      <3> SUFFICES ASSUME NEW r \in db.scenes, NEW s \in db.scenes,
                          after(r).id = after(s).id \/ after(r).project = after(s).project
                   PROVE  after(r) = after(s)
        BY <2>1
      <3>1. r = s
        BY <1>8 DEF ImportInv, Rooted
      <3> QED
        BY <3>1
    <2> QED
      BY <1>1, <1>2, <1>13, <2>2, <2>3 DEF ImportInv, Rooted
  <1>16. Chained'
    <2>1. \A v \in db.versions : /\ v.id \in Nat /\ v.id < ids /\ v.scene \in Ids(db.scenes)
                                 /\ v.parent # None => v.parent \in Nat /\ v.parent < ids
      BY DEF ImportInv, Chained
    <2>2. \A v \in db'.versions :
            /\ v.id \in Nat /\ v.id < ids' /\ v.scene \in Ids(db'.scenes)
            /\ v.parent # None => v.parent \in Nat /\ v.parent < ids'
      <3>1. c \in Ids(db.scenes) /\ row.current \in Nat /\ row.current < ids
        BY <1>4, <1>5 DEF Ids
      <3> QED
        BY <1>1, <1>2, <1>6, <1>7, <1>10, <2>1, <3>1
    <2> DEFINE Later(s) == {v \in db'.versions : v.scene = s}
    <2>3. /\ \A s : s # c => Later(s) = Versions(s)
          /\ Later(c) = Versions(c) \cup {new}
      BY <1>6, <1>7 DEF Versions
    <2>4. ASSUME NEW x \in db'.scenes
          PROVE  /\ \E v \in Later(x.id) :
                     v.parent = None /\ \A w \in Later(x.id) : w.parent = None => w = v
                 /\ \A v \in db'.versions : v.id = x.current => v.scene = x.id
                 /\ \A v \in Later(x.id) : v.id = x.current =>
                         \A w \in Later(x.id) : w.parent # v.id
                 /\ \A v \in Later(x.id) : v.id # x.current =>
                         \E w \in Later(x.id) :
                             w.parent = v.id /\ \A u \in Later(x.id) : u.parent = v.id => u = w
      <3>1. PICK s \in db.scenes : x = after(s)
        BY <1>9
      <3>2. x.id = s.id /\ x.current = IF s.id = c THEN ids ELSE s.current
        BY <1>8, <3>1
      <3>3. /\ \E v \in Versions(s.id) :
                 v.parent = None /\ \A w \in Versions(s.id) : w.parent = None => w = v
            /\ \A v \in db.versions : v.id = s.current => v.scene = s.id
            /\ \A v \in Versions(s.id) : v.id = s.current =>
                     \A w \in Versions(s.id) : w.parent # v.id
            /\ \A v \in Versions(s.id) : v.id # s.current =>
                     \E w \in Versions(s.id) :
                         w.parent = v.id /\ \A u \in Versions(s.id) : u.parent = v.id => u = w
        BY DEF ImportInv, Chained
      <3> HIDE DEF Later
      <3>4. CASE s.id # c
        <4>1. Later(x.id) = Versions(s.id) /\ x.current = s.current /\ s.current # ids
          BY <1>2, <1>5, <2>3, <3>2, <3>4
        <4>2. \A v \in db'.versions : v.id = s.current => v \in db.versions
          BY <1>6, <1>7, <4>1
        <4> QED
          BY <3>2, <3>3, <4>1, <4>2
      <3>5. CASE s.id = c
        <4>1. /\ s = row /\ x.current = ids /\ Later(x.id) = Versions(c) \cup {new}
              /\ new.parent = s.current /\ new.id = ids /\ s.current \in Nat /\ s.current < ids
          BY <1>5, <1>7, <2>3, <3>2, <3>5
        <4>2. \A v \in Versions(c) : /\ v.id \in Nat /\ v.id < ids
                                     /\ v.parent # None => v.parent \in Nat /\ v.parent < ids
          BY <2>1 DEF Versions
        <4>3. \E v \in Later(x.id) :
                v.parent = None /\ \A w \in Later(x.id) : w.parent = None => w = v
          BY <3>3, <3>5, <4>1, Apart
        <4>4. \A v \in db'.versions : v.id = x.current => v.scene = x.id
          BY <1>2, <1>6, <1>7, <2>1, <3>2, <3>5, <4>1
        <4>5. \A v \in Later(x.id) : v.id = x.current =>
                \A w \in Later(x.id) : w.parent # v.id
          BY <1>2, <4>1, <4>2, Apart
        <4>6. \A v \in Later(x.id) : v.id # x.current =>
                \E w \in Later(x.id) :
                  w.parent = v.id /\ \A u \in Later(x.id) : u.parent = v.id => u = w
          <5> SUFFICES ASSUME NEW v \in Versions(c)
                       PROVE  \E w \in Later(x.id) :
                         w.parent = v.id /\ \A u \in Later(x.id) : u.parent = v.id => u = w
            BY <4>1
          <5>1. CASE v.id = s.current
            BY <3>3, <3>5, <4>1, <5>1
          <5>2. CASE v.id # s.current
            BY <3>3, <3>5, <4>1, <5>2
          <5> QED
            BY <5>1, <5>2
        <4> QED
          BY <4>3, <4>4, <4>5, <4>6
      <3> QED
        BY <3>4, <3>5
    <2> QED
      BY <2>2, <2>4 DEF Chained, Versions
  <1>17. Recorded'
    <2>1. /\ db'.frames = db.frames /\ db'.observations = db.observations
          /\ db'.payloads = db.payloads /\ db'.rejections = db.rejections
          /\ db'.features = db.features /\ db'.trajectories = db.trajectories
      BY <1>6 DEF Keeps, Tables
    <2>2. \A t \in db.trajectories : \E x \in db'.sessions, y \in db'.scenes :
            x.id = t.session /\ y.id = t.scene /\ x.project = y.project
      <3> SUFFICES ASSUME NEW t \in db.trajectories
                   PROVE  \E x \in db'.sessions, y \in db'.scenes :
                            x.id = t.session /\ y.id = t.scene /\ x.project = y.project
        OBVIOUS
      <3>1. PICK x \in db.sessions, s \in db.scenes :
              x.id = t.session /\ s.id = t.scene /\ x.project = s.project
        BY DEF ImportInv, Recorded
      <3>2. after(s) \in db'.scenes /\ after(s).id = s.id /\ after(s).project = s.project
        BY <1>8, <1>9
      <3> QED
        BY <1>13, <3>1, <3>2
    <2> QED
      BY <1>10, <1>13, <2>1, <2>2 DEF ImportInv, Recorded
  <1>18. Calibrated' /\ Content(db', manifests', cas', ids') /\ Whole(db', manifests', cas')
    BY <1>2, <1>3, <1>6, CalibratedKept, ContentKept, WholeKept DEF ImportInv, Known
  <1>19. Parted'
    BY <1>1, <1>3, <1>6, <1>11, CompleteKept DEF ImportInv, Typed, Moving
  <1>20. Held(p)' /\ ~job'[p].begun
    BY <1>2, <1>11, <1>12, <1>14 DEF Held, Local
  <1> QED
    BY <1>2, <1>3, <1>6, <1>11, <1>15, <1>16, <1>17, <1>18, <1>19, <1>20, HolderStep DEF Keeps
-----------------------------------------------------------------------------
(* An import, file by file. *)

\* What an import knows at every file.
LEMMA AtFile ==
  ASSUME ImportInv, NEW p \in Proc, pc[p] \in Placing
  PROVE  /\ Holds(p) /\ ~job[p].begun /\ DOMAIN job[p] = Fields /\ DOMAIN db = Tables
         /\ ids \in Nat /\ Typed /\ Local(p)
         /\ job[p].session \in Ids(db.sessions) /\ job[p].scene \in Ids(db.scenes)
         /\ \A f \in job[p].files : f.kind # None /\ (f.kind = "image" => f.content[1] = "image")
  <1>1. pc[p] \in Importing \cup Featuring \cup {"open"} /\ pc[p] \in Importing \ {"session"}
    BY DEF Placing, Importing
  <1>2. Local(p)
    BY <1>1, Writer
  <1> QED
    BY <1>1, <1>2, Writer DEF Local, Placed

LEMMA ImportFileKeeps ==
  ASSUME ImportInv, NEW p \in Proc, ImportFile(p)
  PROVE  ImportInv'
  <1>1. /\ pc[p] = "file" /\ UNCHANGED <<disk, schema, store, counts>> /\ pc[p] \in Placing
        /\ pc[p] \notin {"observation", "obsPayload"}
    BY DEF ImportFile, Placing
  <1>2. /\ Holds(p) /\ ~job[p].begun /\ DOMAIN job[p] = Fields /\ DOMAIN db = Tables
        /\ ids \in Nat /\ Typed /\ Local(p)
        /\ job[p].session \in Ids(db.sessions) /\ job[p].scene \in Ids(db.scenes)
        /\ \A f \in job[p].files : f.kind # None /\ (f.kind = "image" => f.content[1] = "image")
    BY <1>1, AtFile
  <1>3. CASE Leave(p) /\ UNCHANGED <<db, ids>>
    <2>1. ids' \in Nat /\ ids <= ids' /\ crashes' = crashes /\ crashes' \in 0..MaxCrashes
      BY <1>1, <1>2, <1>3 DEF Typed, ImportTypeOK, counts
    <2> QED
      BY <1>1, <1>3, <2>1, LeaveStep DEF counts
  <1>4. ASSUME NEW f \in job[p].files, ProcessFile(p, f), UNCHANGED lock
        PROVE  ImportInv'
    <2> DEFINE why   == Rejection(db, f, job[p].sensor, job[p].time)
               name  == DeriveId("observation", job[p].sensor, job[p].time, f.content)
               later == [job[p] EXCEPT !.files = @ \ {f}, !.index = @ + 1]
    <2>1. /\ DOMAIN later = Fields /\ later.uuid = job[p].uuid /\ later.session = job[p].session
          /\ later.scene = job[p].scene /\ later.sensor = job[p].sensor
          /\ later.time = job[p].time /\ later.files \subseteq job[p].files
          /\ later.begun = job[p].begun
      BY <1>2 DEF Fields
    <2>2. /\ "file" \in Writing /\ "payload" \in Writing
      BY DEF Writing, Importing, Putting
    <2>3. ASSUME Set(p, later), UNCHANGED pc, ids' \in Nat, ids <= ids',
                 UNCHANGED <<db.sessions, db.scenes>>
          PROVE  Moving(p) /\ Held(p)' /\ ~job'[p].begun /\ pc'[p] = "file"
      <3> HIDE DEF later
      <3>1. /\ Moving(p) /\ pc'[p] = "file" /\ job'[p] = later
            /\ TypedAt(p)' /\ AloneAt(p)' /\ MigratedAt(p)'
        BY <1>1, <1>2, <1>4, <2>1, <2>2, <2>3, GoesOn
      <3>2. CourseAt(p)' /\ Filed(p)' /\ Extracting(p)' /\ Storing(p)' /\ InTransaction(p)'
        BY <1>2, <2>1, <3>1, EarlyImport
      <3>3. Placed(p)'
        BY <1>2, <2>1, <2>3, <3>1 DEF Placed, Stores, Putting, Placing
      <3> QED
        BY <1>2, <2>1, <3>1, <3>2, <3>3 DEF Held, Local
    <2>4. CASE /\ db' = InsertImportRejection(db, [id |-> ids, session |-> job[p].session,
                                                   index |-> job[p].index, code |-> why])
               /\ ids' = ids + 1 /\ Set(p, later) /\ UNCHANGED pc
      <3> DEFINE row == [id |-> ids, session |-> job[p].session, index |-> job[p].index,
                         code |-> why]
      <3>1. db'.rejections = db.rejections \cup {row} /\ Keeps({"rejections"})
        BY <1>2, <2>4 DEF InsertImportRejection, Keeps, Tables
      <3>2. row.session = job[p].session
        OBVIOUS
      <3> HIDE DEF row, later
      <3>3. /\ db'.sessions = db.sessions /\ db'.scenes = db.scenes /\ db'.frames = db.frames
            /\ db'.observations = db.observations /\ db'.payloads = db.payloads
            /\ db'.features = db.features /\ db'.trajectories = db.trajectories
        BY <3>1 DEF Keeps, Tables
      <3>4. ids' \in Nat /\ ids <= ids' /\ GrowingStore /\ crashes' = crashes
        BY <1>1, <1>2, <2>4 DEF GrowingStore, store, counts
      <3>5. Moving(p) /\ Held(p)' /\ ~job'[p].begun /\ pc'[p] = "file"
        BY <2>3, <2>4, <3>3, <3>4
      <3>6. Recorded'
        BY <1>2, <3>1, <3>2, <3>3 DEF ImportInv, Recorded, Ids
      <3>7. Rooted' /\ Chained' /\ Calibrated'
        BY <1>2, <3>1, <3>4, RootedKept, ChainedKept, CalibratedKept DEF ImportInv
      <3>8. Content(db', manifests', cas', ids') /\ Whole(db', manifests', cas')
        BY <1>2, <3>1, <3>4, ContentKept, WholeKept DEF ImportInv, Known
      <3>9. Parted'
        BY <1>1, <3>1, <3>4, <3>5, CompleteKept DEF ImportInv, Typed, Moving
      <3> QED
        BY <1>2, <3>1, <3>4, <3>5, <3>6, <3>7, <3>8, <3>9, HolderStep DEF Keeps
    <2>5. CASE Set(p, later) /\ UNCHANGED <<db, ids, pc>>
      <3> HIDE DEF later
      <3>1. ids' \in Nat /\ ids <= ids' /\ GrowingStore
        BY <1>1, <1>2, <2>5 DEF GrowingStore, store
      <3> QED
        BY <1>1, <1>2, <2>3, <2>5, <3>1, HolderQuiet
    <2>6. CASE /\ why = None /\ ~ObservationExists(db, name)
               /\ Put(p, <<[id |-> None, hash |-> f.content, type |-> "image",
                            config |-> None, inputs |-> <<>>]>>,
                      FindArtifactByHash(db, f.content) # {}, "frame", [later EXCEPT !.file = f])
               /\ UNCHANGED <<db, ids>>
      <3> DEFINE puts == <<[id |-> None, hash |-> f.content, type |-> "image",
                            config |-> None, inputs |-> <<>>]>>
                 inst == FindArtifactByHash(db, f.content) # {}
                 k    == [later EXCEPT !.file = f]
                 j    == [k EXCEPT !.puts = puts, !.instance = inst, !.after = "frame"]
      <3>1. Go(p, "payload") /\ Set(p, j)
        BY <2>6 DEF Put
      <3> HIDE DEF later
      <3>2. /\ DOMAIN k = Fields /\ k.uuid = job[p].uuid /\ k.session = job[p].session
            /\ k.scene = job[p].scene /\ k.sensor = job[p].sensor /\ k.time = job[p].time
            /\ k.files \subseteq job[p].files /\ k.begun = job[p].begun /\ k.file = f
        BY <2>1 DEF Fields
      <3> HIDE DEF k, puts, inst
      <3>3. /\ DOMAIN j = Fields /\ j.uuid = job[p].uuid /\ j.session = job[p].session
            /\ j.scene = job[p].scene /\ j.sensor = job[p].sensor /\ j.time = job[p].time
            /\ j.files \subseteq job[p].files /\ j.begun = job[p].begun /\ j.file = f
            /\ j.puts = puts /\ j.instance = inst /\ j.after = "frame"
        BY <3>2 DEF Fields
      <3> HIDE DEF j
      <3>4. /\ Moving(p) /\ pc'[p] = "payload" /\ job'[p] = j
            /\ TypedAt(p)' /\ AloneAt(p)' /\ MigratedAt(p)'
        BY <1>1, <1>2, <1>4, <2>2, <2>6, <3>1, <3>3, GoesOn
      <3>5. f.content[1] = "image"
        <4>1. f.kind = "image"
          BY <1>2, <2>6 DEF Rejection
        <4> QED
          BY <1>2, <4>1
      <3>6. Stores(p, "frame")' /\ ~Stores(p, "commit")' /\ ~Stores(p, "recordFeature")'
        BY <3>3, <3>4 DEF Stores, Putting
      <3>7. inst \in BOOLEAN
        BY DEF inst
      <3>8. CourseAt(p)' /\ Extracting(p)' /\ Storing(p)' /\ InTransaction(p)'
        BY <1>2, <3>3, <3>4, <3>6, <3>7
           DEF CourseAt, Extracting, Storing, InTransaction, Putting, Featuring
      <3>9. Placed(p)'
        BY <1>2, <2>6, <3>3, <3>4, <3>6 DEF Placed, Importing
      <3>10. Filed(p)'
        <4>1. name = ObservationId(job'[p]) /\ name \notin Ids(db'.observations)
          BY <2>6, <3>3, <3>4 DEF ObservationId, ObservationExists
        <4>2. job'[p].puts = <<[id |-> None, hash |-> job'[p].file.content, type |-> "image",
                                config |-> None, inputs |-> <<>>]>>
          BY <3>3, <3>4 DEF puts
        <4> HIDE DEF name
        <4> QED
          BY <3>3, <3>4, <3>5, <4>1, <4>2 DEF Filed
      <3>11. GrowingStore
        BY <1>1, <1>2, <2>6 DEF GrowingStore, store
      <3> QED
        BY <1>1, <1>2, <2>6, <3>3, <3>4, <3>8, <3>9, <3>10, <3>11, HolderQuiet DEF Held, Local
    <2> QED
      BY <1>4, <2>4, <2>5, <2>6 DEF ProcessFile
  <1> QED
    BY <1>3, <1>4 DEF ImportFile, FirstFile
LEMMA LateImport ==
  ASSUME NEW p \in Proc, pc'[p] \in Placing, ~job'[p].begun
  PROVE  CourseAt(p)' /\ Extracting(p)' /\ Storing(p)' /\ InTransaction(p)'
  BY DEF CourseAt, Extracting, Storing, InTransaction, Stores, Putting, Featuring, Placing

\* The next insert of the importer: it keeps what it knows, and one table grows.
LEMMA NextInsert ==
  ASSUME ImportInv, NEW p \in Proc, pc[p] \in Placing, NEW label \in Placing,
         Go(p, label), UNCHANGED <<disk, schema, store, job, lock, ids, counts>>,
         db'.sessions = db.sessions, db'.scenes = db.scenes
  PROVE  /\ Moving(p) /\ pc'[p] = label /\ job'[p] = job[p] /\ ~job'[p].begun /\ GrowingStore
         /\ TypedAt(p)' /\ AloneAt(p)' /\ MigratedAt(p)' /\ CourseAt(p)'
         /\ Placed(p)' /\ Extracting(p)' /\ Storing(p)' /\ InTransaction(p)'
  <1>1. /\ Holds(p) /\ ~job[p].begun /\ DOMAIN job[p] = Fields /\ ids \in Nat
        /\ job[p].session \in Ids(db.sessions) /\ job[p].scene \in Ids(db.scenes)
        /\ \A f \in job[p].files : f.kind # None /\ (f.kind = "image" => f.content[1] = "image")
    BY AtFile
  <1>2. ids' \in Nat /\ ids <= ids' /\ GrowingStore /\ label \in Writing
    BY <1>1 DEF GrowingStore, store, Writing, Importing, Placing
  <1>3. /\ Moving(p) /\ pc'[p] = label /\ job'[p] = job[p]
        /\ TypedAt(p)' /\ AloneAt(p)' /\ MigratedAt(p)'
    BY <1>1, <1>2, GoesOn
  <1>4. CourseAt(p)' /\ Extracting(p)' /\ Storing(p)' /\ InTransaction(p)'
    BY <1>1, <1>3, LateImport
  <1>5. Placed(p)'
    BY <1>1, <1>3 DEF Placed, Stores, Putting, Placing
  <1> QED
    BY <1>1, <1>2, <1>3, <1>4, <1>5

\* The fields of the rows of a file.
LEMMA RowsOfFile ==
  ASSUME NEW j
  PROVE  /\ FrameOf(j).session = j.session /\ FrameOf(j).scene = j.scene
         /\ FrameOf(j).time = j.time /\ FrameOf(j).sensor = j.sensor
         /\ ObservationOf(j).id = ObservationId(j) /\ ObservationOf(j).id[4] = j.file.content
         /\ ObservationOf(j).session = j.session /\ ObservationOf(j).scene = j.scene
         /\ ObservationOf(j).time = j.time /\ ObservationOf(j).sensor = j.sensor
         /\ ObservationOf(j).frame = FrameOf(j).id
  BY DEF FrameOf, ObservationOf, ObservationId, DeriveId

LEMMA ImportFrameKeeps ==
  ASSUME ImportInv, NEW p \in Proc, ImportFrame(p)
  PROVE  ImportInv'
  <1> DEFINE row == FrameOf(job[p])
  <1>1. /\ pc[p] = "frame" /\ UNCHANGED <<disk, schema, store, ids, counts>> /\ pc[p] \in Placing
        /\ pc[p] \notin {"observation", "obsPayload"}
    BY DEF ImportFrame, Placing
  <1>2. /\ Holds(p) /\ DOMAIN db = Tables /\ ids \in Nat /\ Typed /\ Filed(p)
        /\ job[p].session \in Ids(db.sessions)
    BY <1>1, AtFile DEF Local
  <1>3. ids' \in Nat /\ ids <= ids' /\ crashes' = crashes /\ crashes' \in 0..MaxCrashes
    BY <1>1, <1>2 DEF Typed, ImportTypeOK, counts
  <1>4. CASE Leave(p) /\ UNCHANGED db
    BY <1>1, <1>3, <1>4, LeaveStep DEF counts
  <1>5. CASE /\ CanInsertFrame(db, row) /\ db' = InsertFrame(db, row)
             /\ Go(p, "observation") /\ UNCHANGED <<job, lock>>
    <2>1. db'.frames = db.frames \cup {row} /\ Keeps({"frames"})
      BY <1>2, <1>5 DEF InsertFrame, Keeps, Tables
    <2>2. /\ db'.sessions = db.sessions /\ db'.scenes = db.scenes
          /\ db'.observations = db.observations /\ db'.payloads = db.payloads
          /\ db'.rejections = db.rejections /\ db'.features = db.features
          /\ db'.trajectories = db.trajectories /\ db'.sensors = db.sensors
          /\ db'.artifacts = db.artifacts
      BY <2>1 DEF Keeps, Tables
    <2>3. /\ row.session = job[p].session /\ row.sensor = job[p].sensor
          /\ row.id \notin Ids(db.frames) /\ row.scene \in Ids(db.scenes)
          /\ row.sensor \in Ids(db.sensors)
      BY <1>5, RowsOfFile DEF CanInsertFrame
    <2>4. /\ Moving(p) /\ pc'[p] = "observation" /\ job'[p] = job[p] /\ ~job'[p].begun
          /\ GrowingStore
          /\ TypedAt(p)' /\ AloneAt(p)' /\ MigratedAt(p)' /\ CourseAt(p)'
          /\ Placed(p)' /\ Extracting(p)' /\ Storing(p)' /\ InTransaction(p)'
      BY <1>1, <1>5, <2>2, NextInsert DEF Placing
    <2>5. FrameOf(job'[p]) = row /\ ObservationId(job'[p]) = ObservationId(job[p])
      BY <2>4
    <2> HIDE DEF row
    <2>6. Filed(p)'
      BY <1>1, <1>2, <2>1, <2>2, <2>3, <2>4, <2>5 DEF Filed, Stores, Putting, Refers, store
    <2>7. Recorded'
      <3>1. \A f \in db'.frames : f.session \in Ids(db'.sessions) /\ f.scene \in Ids(db'.scenes)
        BY <1>2, <2>1, <2>2, <2>3 DEF ImportInv, Recorded
      <3>2. \A f, g \in db'.frames : f.id = g.id => f = g
        BY <2>1, <2>3 DEF ImportInv, Recorded, Ids
      <3>3. Ids(db.frames) \subseteq Ids(db'.frames) /\ db.frames \subseteq db'.frames
        BY <2>1 DEF Ids
      <3> QED
        BY <2>2, <3>1, <3>2, <3>3 DEF ImportInv, Recorded
    <2>8. Rooted' /\ Chained' /\ Calibrated'
      BY <1>2, <1>3, <2>1, RootedKept, ChainedKept, CalibratedKept DEF ImportInv
    <2>9. Content(db', manifests', cas', ids') /\ Whole(db', manifests', cas')
      BY <1>2, <2>1, <2>4, ContentKept, WholeKept DEF ImportInv, Known
    <2>10. Parted'
      <3> SUFFICES ASSUME NEW f \in db'.frames, f \in db.frames => Completed(f)
                   PROVE  \/ \E q \in Proc : /\ pc'[q] \in {"observation", "obsPayload"}
                                             /\ FrameOf(job'[q]).id = f.id
                          \/ \E o \in FindObservationsByFrame(db', f.id) : o.id \in db'.payloads
        BY <1>3, NoNewPartial DEF ImportInv, Typed
      <3>1. CASE f = row
        BY <2>4, <2>5, <3>1
      <3>2. CASE f \in db.frames
        <4>1. CASE \E q \in Proc : /\ pc[q] \in {"observation", "obsPayload"}
                                   /\ FrameOf(job[q]).id = f.id
          BY <1>1, <2>4, <4>1 DEF Moving
        <4>2. CASE \E o \in FindObservationsByFrame(db, f.id) : o.id \in db.payloads
          BY <2>2, <4>2 DEF FindObservationsByFrame
        <4> QED
          BY <1>3, <3>2, <4>1, <4>2 DEF Completed
      <3> QED
        BY <2>1, <3>1, <3>2
    <2> QED
      BY <1>2, <2>1, <2>4, <2>6, <2>7, <2>8, <2>9, <2>10, HolderStep DEF Keeps, Held, Local
  <1> QED
    BY <1>4, <1>5 DEF ImportFrame

\* Nothing refuses the observation of a frame.
LEMMA ImportObservationKeeps ==
  ASSUME ImportInv, NEW p \in Proc, ImportObservation(p)
  PROVE  ImportInv'
  <1> DEFINE row == ObservationOf(job[p])
             fr  == FrameOf(job[p])
  <1>1. /\ pc[p] = "observation" /\ UNCHANGED <<disk, schema, store, ids, counts>>
        /\ pc[p] \in Placing
    BY DEF ImportObservation, Placing
  <1>2. /\ Holds(p) /\ DOMAIN db = Tables /\ ids \in Nat /\ Typed /\ Filed(p)
        /\ job[p].scene \in Ids(db.scenes)
    BY <1>1, AtFile DEF Local
  <1>3. ids' \in Nat /\ ids <= ids' /\ crashes' = crashes
    BY <1>1, <1>2 DEF counts
  <1>4. /\ row.session = fr.session /\ row.scene = fr.scene /\ row.time = fr.time
        /\ row.sensor = fr.sensor /\ row.frame = fr.id /\ row.id = ObservationId(job[p])
        /\ row.id[4] = job[p].file.content /\ row.scene = job[p].scene
        /\ row.sensor = job[p].sensor
    <2> DEFINE j == job[p]
    <2> HIDE DEF j
    <2>1. LET r == ObservationOf(j)
              f == FrameOf(j)
          IN  /\ r.session = f.session /\ r.scene = f.scene /\ r.time = f.time
              /\ r.sensor = f.sensor /\ r.frame = f.id /\ r.id = ObservationId(j)
              /\ r.id[4] = j.file.content /\ r.scene = j.scene /\ r.sensor = j.sensor
      BY RowsOfFile
    <2> QED
      BY <2>1 DEF j
  <1>5. /\ ObservationId(job[p]) \notin Ids(db.observations)
        /\ Refers(db, manifests, row.ref, job[p].file.content)
        /\ fr \in db.frames /\ job[p].sensor \in Ids(db.sensors)
    <2>1. row.ref = job[p].ref
      BY DEF ObservationOf
    <2> QED
      BY <1>1, <1>2, <2>1 DEF Filed
  <1>6. CanInsertObservation(db, row)
    BY <1>2, <1>4, <1>5 DEF CanInsertObservation, Ids
  <1>7. db' = InsertObservation(db, row) /\ Go(p, "obsPayload") /\ UNCHANGED <<job, lock>>
    BY <1>6 DEF ImportObservation
  <1>8. db'.observations = db.observations \cup {row} /\ Keeps({"observations"})
    BY <1>2, <1>7 DEF InsertObservation, Keeps, Tables
  <1>9. /\ db'.sessions = db.sessions /\ db'.scenes = db.scenes /\ db'.frames = db.frames
        /\ db'.payloads = db.payloads /\ db'.rejections = db.rejections
        /\ db'.features = db.features /\ db'.trajectories = db.trajectories
        /\ db'.sensors = db.sensors /\ db'.artifacts = db.artifacts
    BY <1>8 DEF Keeps, Tables
  <1>10. /\ Moving(p) /\ pc'[p] = "obsPayload" /\ job'[p] = job[p] /\ ~job'[p].begun
         /\ GrowingStore
         /\ TypedAt(p)' /\ AloneAt(p)' /\ MigratedAt(p)' /\ CourseAt(p)'
         /\ Placed(p)' /\ Extracting(p)' /\ Storing(p)' /\ InTransaction(p)'
    BY <1>1, <1>7, <1>9, NextInsert DEF Placing
  <1>11. ObservationOf(job'[p]) = row /\ ObservationId(job'[p]) = ObservationId(job[p])
    BY <1>10
  <1> HIDE DEF row, fr
  <1>12. Filed(p)'
    <2>1. ObservationId(job[p]) \notin db.payloads
      BY <1>5 DEF ImportInv, Recorded
    <2> QED
      BY <1>8, <1>9, <1>10, <1>11, <2>1 DEF Filed, Stores, Putting
  <1>13. Recorded'
    <2>1. \A o \in db'.observations : \E f \in db'.frames :
            /\ f.id = o.frame /\ f.scene = o.scene /\ f.session = o.session
            /\ f.time = o.time /\ f.sensor = o.sensor
      <3>1. \A o \in db.observations : \E f \in db.frames :
              /\ f.id = o.frame /\ f.scene = o.scene /\ f.session = o.session
              /\ f.time = o.time /\ f.sensor = o.sensor
        BY DEF ImportInv, Recorded
      <3> QED
        BY <1>4, <1>5, <1>8, <1>9, <3>1
    <2>2. db'.payloads \subseteq Ids(db'.observations)
      BY <1>8, <1>9 DEF ImportInv, Recorded, Ids
    <2> QED
      BY <1>9, <2>1, <2>2 DEF ImportInv, Recorded
  <1>14. Rooted' /\ Chained' /\ Calibrated' /\ Whole(db', manifests', cas')
    BY <1>2, <1>3, <1>8, <1>10, RootedKept, ChainedKept, CalibratedKept, WholeKept DEF ImportInv
  <1>15. Content(db', manifests', cas', ids')
    <2>1. cas' = cas /\ manifests' = manifests /\ ids' = ids
      BY <1>1 DEF store
    <2>2. \A o \in db'.observations : Refers(db', manifests', o.ref, o.id[4])
      BY <1>4, <1>5, <1>8, <1>9, <2>1 DEF ImportInv, Known, Content, Refers
    <2> QED
      BY <1>9, <2>1, <2>2 DEF ImportInv, Known, Content
  <1>16. Parted'
    <2> SUFFICES ASSUME NEW f \in db'.frames, f \in db.frames => Completed(f)
                 PROVE  \/ \E q \in Proc : /\ pc'[q] \in {"observation", "obsPayload"}
                                           /\ FrameOf(job'[q]).id = f.id
                        \/ \E o \in FindObservationsByFrame(db', f.id) : o.id \in db'.payloads
      BY <1>3, NoNewPartial DEF ImportInv, Typed
    <2>1. CASE \E q \in Proc : /\ pc[q] \in {"observation", "obsPayload"}
                               /\ FrameOf(job[q]).id = f.id
      BY <1>1, <1>10, <2>1 DEF Moving
    <2>2. CASE \E o \in FindObservationsByFrame(db, f.id) : o.id \in db.payloads
      BY <1>8, <1>9, <2>2 DEF FindObservationsByFrame
    <2> QED
      BY <1>3, <1>9, <2>1, <2>2 DEF Completed
  <1> QED
    BY <1>2, <1>8, <1>10, <1>12, <1>13, <1>14, <1>15, <1>16, HolderStep DEF Keeps, Held, Local

\* Nor its payload row.
LEMMA ImportPayloadKeeps ==
  ASSUME ImportInv, NEW p \in Proc, ImportPayload(p)
  PROVE  ImportInv'
  <1> DEFINE row == ObservationOf(job[p])
             fr  == FrameOf(job[p])
  <1>1. /\ pc[p] = "obsPayload" /\ UNCHANGED <<disk, schema, store, ids, counts>>
        /\ pc[p] \in Placing
    BY DEF ImportPayload, Placing
  <1>2. /\ Holds(p) /\ DOMAIN db = Tables /\ ids \in Nat /\ Typed /\ Filed(p)
    BY <1>1, AtFile DEF Local
  <1>3. ids' \in Nat /\ ids <= ids' /\ crashes' = crashes
    BY <1>1, <1>2 DEF counts
  <1>4. row \in db.observations /\ row.id \notin db.payloads /\ row.frame = fr.id
    BY <1>1, <1>2, RowsOfFile DEF Filed
  <1>5. CanInsertObservationPayload(db, row.id)
    BY <1>4 DEF CanInsertObservationPayload, Ids
  <1>6. db' = InsertObservationPayload(db, row.id) /\ Go(p, "file") /\ UNCHANGED <<job, lock>>
    BY <1>5 DEF ImportPayload
  <1>7. db'.payloads = db.payloads \cup {row.id} /\ Keeps({"payloads"})
    BY <1>2, <1>6 DEF InsertObservationPayload, Keeps, Tables
  <1>8. /\ db'.sessions = db.sessions /\ db'.scenes = db.scenes /\ db'.frames = db.frames
        /\ db'.observations = db.observations /\ db'.rejections = db.rejections
        /\ db'.features = db.features /\ db'.trajectories = db.trajectories
    BY <1>7 DEF Keeps, Tables
  <1>9. /\ Moving(p) /\ pc'[p] = "file" /\ job'[p] = job[p] /\ ~job'[p].begun
        /\ GrowingStore
        /\ TypedAt(p)' /\ AloneAt(p)' /\ MigratedAt(p)' /\ CourseAt(p)'
        /\ Placed(p)' /\ Extracting(p)' /\ Storing(p)' /\ InTransaction(p)'
    BY <1>1, <1>6, <1>8, NextInsert DEF Placing
  <1> HIDE DEF row
  <1>10. Filed(p)'
    BY <1>9 DEF Filed, Stores, Putting
  <1>11. Recorded'
    <2>1. db'.payloads \subseteq Ids(db'.observations)
      BY <1>4, <1>7, <1>8 DEF ImportInv, Recorded, Ids
    <2> QED
      BY <1>8, <2>1 DEF ImportInv, Recorded
  <1>12. Rooted' /\ Chained' /\ Calibrated'
    BY <1>2, <1>3, <1>7, RootedKept, ChainedKept, CalibratedKept DEF ImportInv
  <1>13. Content(db', manifests', cas', ids') /\ Whole(db', manifests', cas')
    BY <1>2, <1>7, <1>9, ContentKept, WholeKept DEF ImportInv, Known
  <1>14. Parted'
    <2> SUFFICES ASSUME NEW f \in db'.frames, f \in db.frames => Completed(f)
                 PROVE  \/ \E q \in Proc : /\ pc'[q] \in {"observation", "obsPayload"}
                                           /\ FrameOf(job'[q]).id = f.id
                        \/ \E o \in FindObservationsByFrame(db', f.id) : o.id \in db'.payloads
      BY <1>3, NoNewPartial DEF ImportInv, Typed
    <2>1. CASE f.id = fr.id
      BY <1>4, <1>7, <1>8, <2>1 DEF FindObservationsByFrame
    <2>2. CASE \E q \in Proc : /\ q # p /\ pc[q] \in {"observation", "obsPayload"}
                               /\ FrameOf(job[q]).id = f.id
      BY <1>9, <2>2 DEF Moving
    <2>3. CASE \E o \in FindObservationsByFrame(db, f.id) : o.id \in db.payloads
      BY <1>7, <1>8, <2>3 DEF FindObservationsByFrame
    <2> QED
      BY <1>3, <1>8, <2>1, <2>2, <2>3 DEF Completed
  <1> QED
    BY <1>2, <1>7, <1>9, <1>10, <1>11, <1>12, <1>13, <1>14, HolderStep DEF Keeps, Held, Local
-----------------------------------------------------------------------------
(* A trajectory, all or nothing. *)

LEMMA StartTrajectoryKeeps ==
  ASSUME ImportInv, NEW p \in Proc, StartTrajectory(p)
  PROVE  ImportInv'
  <1>1. /\ pc[p] = "open" /\ UNCHANGED <<disk, schema, db, store, counts>>
        /\ pc[p] \in Importing \cup Featuring \cup {"open"}
    BY DEF StartTrajectory
  <1>2. /\ Holds(p) /\ ~job[p].begun /\ DOMAIN job[p] = Fields /\ ids \in Nat /\ Typed
        /\ DOMAIN db = Tables
    BY <1>1, Writer
  <1>3. PICK session \in Ids(db.sessions) \cup {0}, s \in Sensor, tum \in Tums :
          LET scene  == SceneOf(db, session)
              nodes  == NodesOf(db, session, scene, s, tum)
              source == SourceOf(tum)
              config == ConfigOf(session, scene, s, tum, nodes)
              doc    == DocumentOf(ids, nodes)
              equal  == {r \in FindArtifactsByType(db, "trajectory") : r.config = config}
          IN  IF TrajectoryRefused(job[p], session, s, tum, source, config) \/ equal # {}
              THEN Leave(p) /\ UNCHANGED ids
              ELSE /\ Put(p, TrajectoryPuts(source, config, doc), FALSE, "commit",
                          [job[p] EXCEPT !.begun = TRUE, !.tx = db,
                                         !.row = [id |-> ids, session |-> session,
                                                  scene |-> scene, doc |-> doc]])
                   /\ ids' = ids + 1 /\ UNCHANGED lock
    BY DEF StartTrajectory
  <1>4. CASE Leave(p) /\ UNCHANGED ids
    <2>1. ids' \in Nat /\ ids <= ids' /\ crashes' = crashes /\ crashes' \in 0..MaxCrashes
      BY <1>1, <1>2, <1>4 DEF Typed, ImportTypeOK, counts
    <2> QED
      BY <1>1, <1>4, <2>1, LeaveStep DEF counts
  <1> DEFINE scene == SceneOf(db, session)
  <1>5. PICK nodes, source, config, doc :
          /\ nodes = NodesOf(db, session, scene, s, tum) /\ source = SourceOf(tum)
          /\ config = ConfigOf(session, scene, s, tum, nodes) /\ doc = DocumentOf(ids, nodes)
    OBVIOUS
  <1> DEFINE row == [id |-> ids, session |-> session, scene |-> scene, doc |-> doc]
             k   == [job[p] EXCEPT !.begun = TRUE, !.tx = db, !.row = row]
  <1>6. CASE /\ ~TrajectoryRefused(job[p], session, s, tum, source, config)
             /\ Put(p, TrajectoryPuts(source, config, doc), FALSE, "commit", k)
             /\ ids' = ids + 1 /\ UNCHANGED lock
    <2> DEFINE puts == TrajectoryPuts(source, config, doc)
               j    == [k EXCEPT !.puts = puts, !.instance = FALSE, !.after = "commit"]
    <2>1. Go(p, "payload") /\ Set(p, j)
      BY <1>6 DEF Put
    <2>2. row.id = ids /\ row.session = session /\ row.scene = scene /\ row.doc = doc
      OBVIOUS
    <2>3. \E x \in db.sessions, c \in db.scenes :
            x.id = session /\ c.id = scene /\ x.project = c.project
      <3> DEFINE r == CHOOSE y \in SessionScene(db, session) : TRUE
      <3>1. r \in SessionScene(db, session)
        BY <1>6 DEF TrajectoryRefused
      <3>2. PICK x \in db.sessions : x.id = session /\ r \in db.scenes /\ r.project = x.project
        BY <3>1 DEF SessionScene, FindCaptureSession, FindSceneByProject
      <3>3. scene = r.id
        BY DEF SceneOf
      <3> HIDE DEF r, scene
      <3> QED
        BY <3>2, <3>3
    <2>5. puts # <<>> /\ Queued(puts, db, source, config, doc)
      BY DEF Queued, TrajectoryPuts, PutSource, PutConfig, PutDocument
    <2> HIDE DEF row, puts
    <2>6. /\ DOMAIN k = Fields /\ k.uuid = job[p].uuid /\ k.begun = TRUE /\ k.tx = db /\ k.row = row
      BY <1>2 DEF Fields
    <2> HIDE DEF k
    <2>7. /\ DOMAIN j = Fields /\ j.uuid = job[p].uuid /\ j.begun = TRUE /\ j.tx = db /\ j.row = row
          /\ j.puts = puts /\ j.instance = FALSE /\ j.after = "commit"
      BY <2>6 DEF Fields
    <2> HIDE DEF j
    <2>8. ids' \in Nat /\ ids <= ids' /\ GrowingStore /\ "payload" \in Writing
      BY <1>1, <1>2, <1>6 DEF GrowingStore, store, Writing, Putting
    <2>9. /\ Moving(p) /\ pc'[p] = "payload" /\ job'[p] = j
          /\ TypedAt(p)' /\ AloneAt(p)' /\ MigratedAt(p)'
      BY <1>1, <1>2, <1>6, <2>1, <2>7, <2>8, GoesOn
    <2>10. Stores(p, "commit")' /\ ~Stores(p, "frame")' /\ ~Stores(p, "recordFeature")'
      BY <2>7, <2>9 DEF Stores, Putting
    <2>11. CourseAt(p)' /\ Placed(p)' /\ Filed(p)' /\ Extracting(p)' /\ Storing(p)'
      BY <2>7, <2>9, <2>10
         DEF CourseAt, Placed, Filed, Extracting, Storing, Putting, Importing, Placing, Featuring
    <2>12. WholeBut(db, manifests', cas', source, config, doc)
      BY <1>1 DEF ImportInv, Whole, WholeBut, store
    <2>13. InTransaction(p)'
      <3>1. Transacting(p, s, tum, nodes)'
        BY <1>5, <2>2, <2>5, <2>7, <2>9, <2>12 DEF Transacting
      <3>2. nodes = NodesOf(db', job'[p].row.session, job'[p].row.scene, s, tum)
        BY <1>1, <1>5, <2>2, <2>7, <2>9
      <3> QED
        BY <1>1, <1>2, <2>2, <2>3, <2>7, <2>9, <3>1, <3>2, Shapes DEF InTransaction
    <2>14. Content(job'[p].tx, manifests', cas', ids')
      BY <1>2, <2>7, <2>8, <2>9, ContentGrows DEF ImportInv, Known, GrowingStore
    <2> QED
      BY <1>1, <1>2, <2>8, <2>9, <2>11, <2>13, <2>14, HolderQuiet DEF Held, Local
  <1> HIDE DEF scene, k
  <1> QED
    BY <1>3, <1>4, <1>5, <1>6 DEF scene, k
\* The commit brings the artifacts and the trajectory together.
LEMMA CommitTrajectoryKeeps ==
  ASSUME ImportInv, NEW p \in Proc, CommitTrajectory(p)
  PROVE  ImportInv'
  <1> DEFINE tx  == job[p].tx
             row == job[p].row
  <1>1. /\ pc[p] = "commit" /\ Leave(p) /\ UNCHANGED <<disk, schema, store, ids, counts>>
        /\ db' = AddTrajectory(View(p), row)
    BY DEF CommitTrajectory
  <1>2. Held(p) /\ ids \in Nat /\ DOMAIN db = Tables /\ Holds(p)
    BY <1>1, Shapes DEF ImportInv, Typed, ImportTypeOK, Holds, Writing
  <1>3. job[p].begun /\ InTransaction(p)
    BY <1>1, <1>2 DEF Held, CourseAt, Local
  <1>4. /\ DOMAIN tx = Tables /\ \A t \in Tables \ {"artifacts"} : tx[t] = db[t]
        /\ Content(tx, manifests, cas, ids)
    BY <1>3, Shapes DEF InTransaction, ImportInv, Known
  <1>5. /\ db'.artifacts = tx.artifacts /\ db'.trajectories = db.trajectories \cup {row}
        /\ db'.observations = tx.observations /\ db'.features = tx.features
        /\ db'.sessions = db.sessions /\ db'.scenes = db.scenes
        /\ Keeps({"artifacts", "trajectories"})
    BY <1>1, <1>3, <1>4 DEF AddTrajectory, View, Keeps, Tables
  <1>6. /\ db'.frames = db.frames /\ db'.observations = db.observations
        /\ db'.payloads = db.payloads /\ db'.rejections = db.rejections
        /\ db'.features = db.features
    BY <1>5 DEF Keeps, Tables
  <1>7. ids' \in Nat /\ ids <= ids' /\ ids' = ids /\ GrowingStore /\ crashes' = crashes
        /\ cas' = cas /\ manifests' = manifests
    BY <1>1, <1>2 DEF GrowingStore, store, counts
  <1>8. Moving(p) /\ Held(p)' /\ ~job'[p].begun
    BY <1>1, <1>7, LeaveMoving
  <1>9. PICK s, tum, nodes : s \in Sensor /\ tum \in Tums /\ Transacting(p, s, tum, nodes)
    BY <1>3 DEF InTransaction
  <1>10. PICK source, config, doc :
            /\ source = SourceOf(tum) /\ config = ConfigOf(row.session, row.scene, s, tum, nodes)
            /\ doc = DocumentOf(row.id, nodes)
    OBVIOUS
  <1>11. /\ row.doc = doc /\ job[p].puts = <<>>
         /\ Queued(job[p].puts, tx, source, config, doc)
         /\ WholeBut(tx, manifests, cas, source, config, doc)
    BY <1>1, <1>9, <1>10 DEF Transacting
  <1>12. /\ FindArtifactByHash(tx, source) # {} /\ FindArtifactByHash(tx, config) # {}
         /\ FindArtifactByHash(tx, doc) # {}
    <2> DEFINE a == PutSource(source)
               b == PutConfig(source, config)
               c == PutDocument(source, config, doc)
    <2>1. <<a, b, c>> # <<>> /\ <<b, c>> # <<>> /\ <<c>> # <<>>
      OBVIOUS
    <2> QED
      BY <1>11, <2>1 DEF Queued
  <1>13. /\ config[2] = row.session /\ config[3] = row.scene /\ SourceOf(config[5]) = source
         /\ config[6] = nodes /\ doc[2] = row.id /\ doc[3] = nodes
    BY <1>10 DEF ConfigOf, DocumentOf
  <1>14. \A h : FindArtifactByHash(db', h) = FindArtifactByHash(tx, h)
    BY <1>5 DEF FindArtifactByHash
  <1>15. Whole(db', manifests', cas')
    <2>1. ASSUME NEW r \in db'.artifacts, r.type = "trajectory"
          PROVE  WholeRow(db', r, manifests', cas')
      <3>1. tx.trajectories \subseteq db'.trajectories
        BY <1>4, <1>5 DEF Tables
      <3>2. CASE WholeRow(tx, r, manifests, cas)
        BY <1>7, <1>14, <3>1, <3>2, WholeRowGrows
      <3>3. CASE Pending(r, manifests, source, config, doc)
        <4>1. r.hash = doc /\ r.config = config
          BY <3>3 DEF Pending
        <4>2. \E m \in manifests : m.id = r.id /\ m.config = r.config
                                   /\ m.inputs = <<SourceOf(r.config[5]), r.config>>
          BY <1>13, <3>3, <4>1 DEF Pending
        <4>3. r.hash \in cas /\ r.hash[3] = r.config[6]
          BY <1>4, <1>5, <1>13, <2>1, <4>1 DEF Content
        <4>4. \E t \in db'.trajectories : /\ t.session = r.config[2] /\ t.id = r.hash[2]
                                          /\ t.scene = r.config[3] /\ t.doc = r.hash
          BY <1>5, <1>11, <1>13, <4>1
        <4>5. /\ FindArtifactByHash(db', SourceOf(r.config[5])) # {}
              /\ FindArtifactByHash(db', r.config) # {}
          BY <1>12, <1>13, <1>14, <4>1
        <4> QED
          BY <1>7, <4>2, <4>3, <4>4, <4>5 DEF WholeRow
      <3> QED
        BY <1>5, <1>11, <2>1, <3>2, <3>3 DEF WholeBut
    <2>2. \A t \in db'.trajectories : FindArtifactByHash(db', t.doc) # {}
      <3>1. \A t \in tx.trajectories : FindArtifactByHash(tx, t.doc) # {}
        BY <1>11 DEF WholeBut
      <3>2. tx.trajectories = db.trajectories
        BY <1>4 DEF Tables
      <3> QED
        BY <1>5, <1>11, <1>12, <1>14, <3>1, <3>2
    <2> QED
      BY <2>1, <2>2 DEF Whole
  <1>16. Content(db', manifests', cas', ids')
    BY <1>2, <1>4, <1>5, <1>7, ContentGrows
  <1>17. Recorded'
    <2>1. \E x \in db.sessions, y \in db.scenes :
            x.id = row.session /\ y.id = row.scene /\ x.project = y.project
      BY <1>3 DEF InTransaction
    <2> HIDE DEF row
    <2>2. \A t \in db'.trajectories : \E x \in db'.sessions, y \in db'.scenes :
            x.id = t.session /\ y.id = t.scene /\ x.project = y.project
      BY <1>5, <2>1 DEF ImportInv, Recorded
    <2> QED
      BY <1>5, <1>6, <2>2 DEF ImportInv, Recorded
  <1>18. Rooted' /\ Chained' /\ Calibrated'
    BY <1>2, <1>5, <1>7, RootedKept, ChainedKept, CalibratedKept DEF ImportInv
  <1>19. Parted'
    BY <1>1, <1>5, <1>7, <1>8, CompleteKept DEF ImportInv, Typed, Moving
  <1> QED
    BY <1>2, <1>5, <1>7, <1>8, <1>15, <1>16, <1>17, <1>18, <1>19, HolderStep DEF Keeps

-----------------------------------------------------------------------------
(* Feature extraction, observation by observation. *)

\* Between two artifacts.
LEMMA FeatureAt ==
  ASSUME NEW p \in Proc, pc'[p] = "feature", ~job'[p].begun, job'[p].obs \subseteq db'.observations
  PROVE  CourseAt(p)' /\ Local(p)'
  BY DEF CourseAt, Local, Placed, Filed, Extracting, Storing, InTransaction, Stores, Putting,
         Importing, Placing, Featuring

LEMMA StartFeaturesKeeps ==
  ASSUME ImportInv, NEW p \in Proc, StartFeatures(p)
  PROVE  ImportInv'
  <1>1. /\ pc[p] = "open" /\ UNCHANGED <<disk, schema, db, store, ids, counts>>
        /\ pc[p] \in Importing \cup Featuring \cup {"open"}
    BY DEF StartFeatures
  <1>2. /\ Holds(p) /\ ~job[p].begun /\ DOMAIN job[p] = Fields /\ ids \in Nat /\ Typed
    BY <1>1, Writer
  <1>3. /\ ids' \in Nat /\ ids <= ids' /\ crashes' = crashes /\ crashes' \in 0..MaxCrashes
        /\ GrowingStore
    BY <1>1, <1>2 DEF Typed, ImportTypeOK, counts, GrowingStore, store
  <1>4. PICK session :
          \/ Leave(p)
          \/ /\ Go(p, "feature")
             /\ Set(p, [job[p] EXCEPT !.obs = FindObservationsBySession(db, session)])
             /\ UNCHANGED lock
    BY DEF StartFeatures
  <1>5. CASE Leave(p)
    BY <1>1, <1>3, <1>5, LeaveStep DEF counts
  <1>6. CASE /\ Go(p, "feature")
             /\ Set(p, [job[p] EXCEPT !.obs = FindObservationsBySession(db, session)])
             /\ UNCHANGED lock
    <2> DEFINE j == [job[p] EXCEPT !.obs = FindObservationsBySession(db, session)]
    <2>1. /\ j.begun = job[p].begun /\ j.uuid = job[p].uuid /\ DOMAIN j = Fields
          /\ j.obs = FindObservationsBySession(db, session)
      BY <1>2 DEF Fields
    <2>2. j.obs \subseteq db.observations
      BY <2>1 DEF FindObservationsBySession
    <2>3. Set(p, j) /\ "feature" \in Writing
      BY <1>6 DEF Writing, Featuring
    <2> HIDE DEF j
    <2>4. /\ Moving(p) /\ pc'[p] = "feature" /\ job'[p] = j
          /\ TypedAt(p)' /\ AloneAt(p)' /\ MigratedAt(p)'
      BY <1>1, <1>2, <1>3, <1>6, <2>1, <2>3, GoesOn
    <2>5. CourseAt(p)' /\ Local(p)'
      BY <1>1, <1>2, <2>1, <2>2, <2>4, FeatureAt
    <2> QED
      BY <1>1, <1>2, <1>3, <2>1, <2>4, <2>5, HolderQuiet DEF Held
  <1> QED
    BY <1>4, <1>5, <1>6

LEMMA FeatureNextKeeps ==
  ASSUME ImportInv, NEW p \in Proc, FeatureNext(p)
  PROVE  ImportInv'
  <1>1. /\ pc[p] = "feature" /\ UNCHANGED <<disk, schema, db, store, ids, counts>>
        /\ pc[p] \in Importing \cup Featuring \cup {"open"}
    BY DEF FeatureNext, Featuring
  <1>2. /\ Holds(p) /\ ~job[p].begun /\ DOMAIN job[p] = Fields /\ ids \in Nat /\ Typed
        /\ job[p].obs \subseteq db.observations
    BY <1>1, Writer DEF Local, Extracting, Featuring
  <1>3. /\ ids' \in Nat /\ ids <= ids' /\ crashes' = crashes /\ crashes' \in 0..MaxCrashes
        /\ GrowingStore
    BY <1>1, <1>2 DEF Typed, ImportTypeOK, counts, GrowingStore, store
  <1>4. CASE Leave(p)
    BY <1>1, <1>3, <1>4, LeaveStep DEF counts
  <1>5. ASSUME NEW o \in job[p].obs, NEW k, k = [job[p] EXCEPT !.obs = @ \ {o}, !.ob = o],
               UNCHANGED lock,
               \/ Set(p, k) /\ UNCHANGED pc
               \/ \E h : Put(p, <<[id |-> None, hash |-> <<"feature", h>>, type |-> "feature",
                                   config |-> None, inputs |-> <<h>>]>>,
                             FALSE, "recordFeature", k)
        PROVE  ImportInv'
    <2>1. /\ k.begun = job[p].begun /\ k.uuid = job[p].uuid /\ DOMAIN k = Fields
          /\ k.ob = o /\ k.obs \subseteq db.observations /\ o \in db.observations
      BY <1>2, <1>5 DEF Fields
    <2>2. CASE Set(p, k) /\ UNCHANGED pc
      <3>1. "feature" \in Writing /\ pc[p] = "feature" /\ UNCHANGED lock
        BY <1>1, <1>5 DEF Writing, Featuring
      <3>2. /\ Moving(p) /\ pc'[p] = "feature" /\ job'[p] = k
            /\ TypedAt(p)' /\ AloneAt(p)' /\ MigratedAt(p)'
        BY <1>1, <1>2, <1>3, <2>1, <2>2, <3>1, GoesOn
      <3>3. CourseAt(p)' /\ Local(p)'
        BY <1>1, <1>2, <2>1, <3>2, FeatureAt
      <3> QED
        BY <1>1, <1>2, <1>3, <2>1, <3>2, <3>3, HolderQuiet DEF Held
    <2>3. ASSUME NEW h, Put(p, <<[id |-> None, hash |-> <<"feature", h>>, type |-> "feature",
                                  config |-> None, inputs |-> <<h>>]>>,
                            FALSE, "recordFeature", k)
          PROVE  ImportInv'
      <3> DEFINE m == [id |-> None, hash |-> <<"feature", h>>, type |-> "feature",
                       config |-> None, inputs |-> <<h>>]
                 j == [k EXCEPT !.puts = <<m>>, !.instance = FALSE, !.after = "recordFeature"]
      <3>1. Go(p, "payload") /\ Set(p, j)
        BY <2>3 DEF Put
      <3>2. /\ DOMAIN m = {"id", "hash", "type", "config", "inputs"} /\ m.type = "feature"
            /\ m.hash[1] = "feature"
        OBVIOUS
      <3> HIDE DEF m
      <3>3. /\ DOMAIN j = Fields /\ j.uuid = job[p].uuid /\ j.begun = job[p].begun
            /\ j.obs = k.obs /\ j.ob = o /\ j.puts = <<m>> /\ j.instance = FALSE
            /\ j.after = "recordFeature"
        BY <2>1 DEF Fields
      <3> HIDE DEF j
      <3>4. "payload" \in Writing
        BY DEF Writing, Putting
      <3>5. /\ Moving(p) /\ pc'[p] = "payload" /\ job'[p] = j
            /\ TypedAt(p)' /\ AloneAt(p)' /\ MigratedAt(p)'
        BY <1>1, <1>2, <1>3, <1>5, <3>1, <3>3, <3>4, GoesOn
      <3>6. Stores(p, "recordFeature")' /\ ~Stores(p, "frame")' /\ ~Stores(p, "commit")'
        BY <3>3, <3>5 DEF Stores, Putting
      <3>7. CourseAt(p)' /\ Placed(p)' /\ Filed(p)' /\ Storing(p)' /\ InTransaction(p)'
        BY <1>2, <3>3, <3>5, <3>6
           DEF CourseAt, Placed, Filed, Storing, InTransaction, Putting, Importing, Placing
      <3>8. Extracting(p)'
        <4>1. job'[p].puts[1] = m
          BY <3>3, <3>5
        <4> QED
          BY <1>1, <2>1, <3>2, <3>3, <3>5, <4>1 DEF Extracting
      <3> QED
        BY <1>1, <1>2, <1>3, <3>3, <3>5, <3>7, <3>8, HolderQuiet DEF Held, Local
    <2> QED
      BY <1>5, <2>2, <2>3
  <1>6. \/ Leave(p)
        \/ \E o \in job[p].obs : \E k \in {[job[p] EXCEPT !.obs = @ \ {o}, !.ob = o]} :
             /\ UNCHANGED lock
             /\ \/ Set(p, k) /\ UNCHANGED pc
                \/ \E h : Put(p, <<[id |-> None, hash |-> <<"feature", h>>, type |-> "feature",
                                    config |-> None, inputs |-> <<h>>]>>,
                              FALSE, "recordFeature", k)
    BY DEF FeatureNext
  <1> QED
    BY <1>4, <1>5, <1>6

LEMMA RecordFeatureKeeps ==
  ASSUME ImportInv, NEW p \in Proc, RecordFeature(p)
  PROVE  ImportInv'
  <1> DEFINE o   == job[p].ob
             art == CHOOSE r \in FindArtifactById(db, job[p].ref) : TRUE
             row == [id |-> <<"features", o.frame, art.hash>>, frame |-> o.frame, ref |-> art.id]
  <1>1. /\ pc[p] = "recordFeature" /\ UNCHANGED <<disk, schema, store, lock, job, ids, counts>>
        /\ pc[p] \in Importing \cup Featuring \cup {"open"} /\ Go(p, "feature")
        /\ db' = db \/ db' = InsertFeatureSet(db, row)
    BY DEF RecordFeature, Featuring
  <1>2. /\ Holds(p) /\ ~job[p].begun /\ DOMAIN job[p] = Fields /\ ids \in Nat /\ Typed
        /\ DOMAIN db = Tables /\ job[p].obs \subseteq db.observations /\ o \in db.observations
        /\ \E r \in db.artifacts : r.id = job[p].ref /\ r.hash[1] = "feature"
    BY <1>1, Writer DEF Local, Extracting, Featuring
  <1>3. ids' \in Nat /\ ids <= ids' /\ ids' = ids /\ crashes' = crashes /\ GrowingStore
        /\ cas' = cas /\ manifests' = manifests
    BY <1>1, <1>2 DEF counts, GrowingStore, store
  <1>4. /\ Moving(p) /\ pc'[p] = "feature" /\ job'[p] = job[p]
        /\ TypedAt(p)' /\ AloneAt(p)' /\ MigratedAt(p)'
    <2>1. "feature" \in Writing
      BY DEF Writing, Featuring
    <2> QED
      BY <1>1, <1>2, <1>3, <2>1, GoesOn
  <1>5. CASE db' = db
    <2>1. CourseAt(p)' /\ Local(p)'
      BY <1>2, <1>4, <1>5, FeatureAt
    <2> QED
      BY <1>1, <1>2, <1>3, <1>4, <1>5, <2>1, HolderQuiet DEF Held
  <1>6. CASE db' = InsertFeatureSet(db, row)
    <2>1. db'.features = db.features \cup {row} /\ Keeps({"features"})
      BY <1>2, <1>6 DEF InsertFeatureSet, Keeps, Tables
    <2>2. /\ art \in db.artifacts /\ art.hash[1] = "feature"
      <3>1. PICK r \in db.artifacts : r.id = job[p].ref /\ r.hash[1] = "feature"
        BY <1>2
      <3>2. r \in FindArtifactById(db, job[p].ref)
        BY <3>1 DEF FindArtifactById
      <3>3. art \in FindArtifactById(db, job[p].ref)
        BY <3>2
      <3>4. art \in db.artifacts /\ art.id = job[p].ref
        BY <3>3 DEF FindArtifactById
      <3> HIDE DEF art
      <3>5. art = r
        BY <3>1, <3>4 DEF ImportInv, Known, Content
      <3> QED
        BY <3>1, <3>5
    <2>3. row.frame = o.frame /\ row.ref = art.id /\ row.id[3] = art.hash
      OBVIOUS
    <2> HIDE DEF row, art
    <2>4. /\ db'.sessions = db.sessions /\ db'.scenes = db.scenes /\ db'.frames = db.frames
          /\ db'.observations = db.observations /\ db'.payloads = db.payloads
          /\ db'.rejections = db.rejections /\ db'.trajectories = db.trajectories
          /\ db'.artifacts = db.artifacts
      BY <2>1 DEF Keeps, Tables
    <2>5. CourseAt(p)' /\ Local(p)'
      BY <1>2, <1>4, <2>4, FeatureAt
    <2>6. Recorded'
      <3>1. o.frame \in Ids(db.frames)
        BY <1>2 DEF ImportInv, Recorded, Ids
      <3> QED
        BY <2>1, <2>3, <2>4, <3>1 DEF ImportInv, Recorded
    <2>7. Content(db', manifests', cas', ids')
      <3>1. Content(db, manifests, cas, ids)
        BY DEF ImportInv, Known
      <3>2. \A x \in db'.features : \E r \in db'.artifacts :
              r.id = x.ref /\ r.hash = x.id[3] /\ r.hash[1] = "feature"
        BY <2>1, <2>2, <2>3, <2>4, <3>1 DEF Content
      <3> QED
        BY <1>3, <2>4, <3>1, <3>2 DEF Content, Refers
    <2>8. Rooted' /\ Chained' /\ Calibrated' /\ Whole(db', manifests', cas')
      BY <1>2, <1>3, <2>1, RootedKept, ChainedKept, CalibratedKept, WholeKept DEF ImportInv
    <2>9. Parted'
      BY <1>1, <1>3, <1>4, <2>1, CompleteKept DEF ImportInv, Typed, Moving
    <2> QED
      BY <1>2, <1>3, <1>4, <2>1, <2>5, <2>6, <2>7, <2>8, <2>9, HolderStep DEF Keeps, Held
  <1> QED
    BY <1>1, <1>5, <1>6
-----------------------------------------------------------------------------
(* The invariant. *)

\* Before the first command nothing is recorded but, perhaps, a project and a sensor.
LEMMA InitEstablishes ==
  ASSUME Init
  PROVE  ImportInv
  <1>1. /\ temp = None /\ cas = {} /\ manifests = {} /\ lock = None
        /\ pc = [p \in Proc |-> "idle"] /\ job = [p \in Proc |-> NoJob]
        /\ commands = 0 /\ crashes = 0 /\ DOMAIN EmptyTables = Tables
    BY Shapes DEF Init
  <1>2. Len(Migrations) = 7
    BY DEF Migrations
  <1>3. /\ DOMAIN db = Tables /\ IsFiniteSet(db.projects)
        /\ db.sessions = {} /\ db.scenes = {} /\ db.versions = {} /\ db.frames = {}
        /\ db.observations = {} /\ db.payloads = {} /\ db.rejections = {} /\ db.artifacts = {}
        /\ db.features = {} /\ db.trajectories = {} /\ db.calibrations = {}
        /\ \A s \in db.sensors : DOMAIN s = {"id", "project", "status", "calibration"}
        /\ ids \in Nat /\ ids >= 1 /\ dirs \subseteq Dirs /\ json \in 1..ids \cup {None}
        /\ schema \in 0..7 \cup {None} /\ (json # None => schema = 7)
    <2>1. CASE Blank
      <3>1. db = EmptyTables /\ ids = 1 /\ dirs = {} /\ json = None /\ schema = None
        BY <2>1 DEF Blank
      <3>2. IsFiniteSet({})
        BY FS_EmptySet
      <3> QED
        BY <1>1, <3>1, <3>2 DEF EmptyTables
    <2>2. CASE Prepared
      <3>1. PICK s \in Sensor :
              db = RegisterSensor(InsertProject(EmptyTables, 1),
                     [id |-> s, project |-> 1, status |-> "active", calibration |-> None])
        BY <2>2 DEF Prepared
      <3>2. dirs = Dirs /\ json = 1 /\ schema = 7 /\ ids = 2
        BY <1>2, <2>2 DEF Prepared
      <3> DEFINE row == [id |-> s, project |-> 1, status |-> "active", calibration |-> None]
      <3>3. DOMAIN row = {"id", "project", "status", "calibration"}
        OBVIOUS
      <3>4. /\ DOMAIN db = Tables /\ db.projects = {1} /\ db.sensors = {row}
            /\ db.sessions = {} /\ db.scenes = {} /\ db.versions = {} /\ db.frames = {}
            /\ db.observations = {} /\ db.payloads = {} /\ db.rejections = {}
            /\ db.artifacts = {} /\ db.features = {} /\ db.trajectories = {}
            /\ db.calibrations = {}
        <4> DEFINE a == InsertProject(EmptyTables, 1)
        <4>1. /\ DOMAIN a = Tables /\ a.projects = {1} /\ a.sensors = {}
              /\ a.sessions = {} /\ a.scenes = {} /\ a.versions = {} /\ a.frames = {}
              /\ a.observations = {} /\ a.payloads = {} /\ a.rejections = {}
              /\ a.artifacts = {} /\ a.features = {} /\ a.trajectories = {}
              /\ a.calibrations = {}
          BY DEF InsertProject, EmptyTables, Tables
        <4> HIDE DEF a, row
        <4>2. db = [a EXCEPT !.sensors = @ \cup {row}]
          BY <3>1 DEF RegisterSensor, a, row
        <4> QED
          BY <4>1, <4>2 DEF Tables
      <3>5. IsFiniteSet({1})
        BY FS_Singleton
      <3> HIDE DEF row
      <3> QED
        BY <3>2, <3>3, <3>4, <3>5
    <2> QED
      BY <2>1, <2>2 DEF Init
  <1>4. Typed
    BY <1>1, <1>2, <1>3, ImportConstants DEF Typed, ImportTypeOK, Labels
  <1>5. Migrated /\ Rooted /\ Chained
    BY <1>1, <1>3, Apart DEF Migrated, Rooted, Chained
  <1>6. Recorded /\ Whole(db, manifests, cas)
    BY <1>3 DEF Recorded, Whole
  <1>10. Parted
    <2>1. Partial = {} /\ crashes \in Nat
      BY <1>3, <1>4, ImportConstants DEF Partial, Typed, ImportTypeOK
    <2> QED
      BY <2>1, FS_EmptySet DEF Parted
  <1>7. Known
    BY <1>1, <1>3, Resting DEF Known, Content
  <1>8. Calibrated
    BY <1>3, FS_EmptySet DEF Calibrated
  <1>9. \A p \in Proc : Held(p)
    <2> SUFFICES ASSUME NEW p \in Proc
                 PROVE  Held(p)
      OBVIOUS
    <2>1. pc[p] = "idle" /\ job[p] = NoJob
      BY <1>1
    <2>2. Local(p)
      BY <2>1, Resting DEF Local, Placed, Filed, Extracting, Storing, InTransaction, Stores,
                           Putting, Importing, Placing, Featuring
    <2> QED
      BY <2>1, <2>2, Resting DEF Held, TypedAt, AloneAt, CourseAt, MigratedAt, Holds, Stores,
                                 Writing, Putting, Importing, Featuring
  <1> QED
    BY <1>4, <1>5, <1>6, <1>7, <1>8, <1>9, <1>10 DEF ImportInv

LEMMA StepKeeps ==
  ASSUME ImportInv, NEW p \in Proc, Step(p)
  PROVE  ImportInv'
  <1>1. CASE MakeRoot(p) \/ MakeLayout(p) \/ CreateDb(p) \/ Migrate(p) \/ WriteTemp(p)
             \/ Rename(p) \/ InsertProjectRow(p) \/ OpenLock(p) \/ EndReading(p) \/ Save(p)
    BY <1>1, MakeRootKeeps, MakeLayoutKeeps, CreateDbKeeps, MigrateKeeps, WriteTempKeeps,
       RenameKeeps, InsertProjectRowKeeps, OpenLockKeeps, EndReadingKeeps, SaveKeeps
  <1>2. CASE RegisterSensorCall(p) \/ UpdateSensorCall(p) \/ AddCalibrationCall(p)
             \/ PutPayload(p) \/ PutManifest(p) \/ PutRow(p)
    BY <1>2, RegisterSensorCallKeeps, UpdateSensorCallKeeps, AddCalibrationCallKeeps,
       PutPayloadKeeps, PutManifestKeeps, PutRowKeeps
  <1>3. CASE StartImport(p) \/ ImportSession(p) \/ ImportFindScene(p) \/ ImportCreateScene(p)
             \/ ImportVersion(p) \/ ImportFile(p)
    BY <1>3, StartImportKeeps, ImportSessionKeeps, ImportFindSceneKeeps, ImportCreateSceneKeeps,
       ImportVersionKeeps, ImportFileKeeps
  <1>4. CASE ImportFrame(p) \/ ImportObservation(p) \/ ImportPayload(p)
    BY <1>4, ImportFrameKeeps, ImportObservationKeeps, ImportPayloadKeeps
  <1>5. CASE StartTrajectory(p) \/ CommitTrajectory(p) \/ StartFeatures(p) \/ FeatureNext(p)
             \/ RecordFeature(p)
    BY <1>5, StartTrajectoryKeeps, CommitTrajectoryKeeps, StartFeaturesKeeps, FeatureNextKeeps,
       RecordFeatureKeeps
  <1> QED
    BY <1>1, <1>2, <1>3, <1>4, <1>5 DEF Step

LEMMA StutterKeeps ==
  ASSUME ImportInv, UNCHANGED vars
  PROVE  ImportInv'
  <1>1. /\ dirs' = dirs /\ temp' = temp /\ json' = json /\ schema' = schema /\ db' = db
        /\ cas' = cas /\ manifests' = manifests /\ lock' = lock /\ pc' = pc /\ job' = job
        /\ ids' = ids /\ commands' = commands /\ crashes' = crashes
    BY DEF vars, disk, store, counts
  <1>2. SameTables /\ GrowingStore /\ Advancing /\ Typed' /\ Migrated'
    BY <1>1, SameWhenUnchanged
       DEF ImportInv, GrowingStore, Advancing, Typed, ImportTypeOK, Migrated
  <1>3. /\ Rooted' /\ Chained' /\ Recorded' /\ Content(db', manifests', cas', ids')
        /\ Whole(db', manifests', cas') /\ Calibrated'
    BY <1>2, RecordsKept DEF ImportInv, Known
  <1>4. \A q \in Proc : Held(q)'
    <2> SUFFICES ASSUME NEW q \in Proc
                 PROVE  Held(q)'
      OBVIOUS
    <2>1. Local(q)'
      BY <1>1, <1>2, LocalKept DEF ImportInv, Held
    <2> QED
      BY <1>1, <1>2, <2>1, OtherHeld DEF ImportInv, Held, GrowingStore
  <1>5. Known' /\ Parted'
    BY <1>1 DEF ImportInv, Known, Parted, Partial, Completed
  <1> QED
    BY <1>2, <1>3, <1>4, <1>5 DEF ImportInv

\* Every step of every process keeps the invariant: commands that create, open and
\* fill a project, one writer at a time, and kills between any two of their writes
\* (project.cpp:60-110, image_importer_main.cpp:118-315, trajectory_importer.cpp).
THEOREM ImportInvariance == Spec => []ImportInv
  <1>1. Init => ImportInv
    BY InitEstablishes
  <1>2. ImportInv /\ [Next]_vars => ImportInv'
    <2> SUFFICES ASSUME ImportInv, [Next]_vars
                 PROVE  ImportInv'
      OBVIOUS
    <2>1. CASE UNCHANGED vars
      BY <2>1, StutterKeeps
    <2>2. CASE Next
      <3>1. PICK p \in Proc : InitCheck(p) \/ OpenCheck(p) \/ Step(p) \/ Crash(p)
        BY <2>2 DEF Next
      <3> QED
        BY <3>1, InitCheckKeeps, OpenCheckKeeps, StepKeeps, CrashKeeps
    <2> QED
      BY <2>1, <2>2
  <1> QED
    BY <1>1, <1>2, PTL DEF Spec

-----------------------------------------------------------------------------
(* What it means. *)

LEMMA OneMember ==
  ASSUME NEW S, NEW x \in S, \A y \in S : y = x
  PROVE  Cardinality(S) = 1
  <1>1. S = {x}
    OBVIOUS
  <1> QED
    BY <1>1, FS_Singleton

LEMMA MigratedWhenOpen ==
  ASSUME ImportInv
  PROVE  OpenMeansMigrated
  <1>1. ImportTypeOK /\ Len(Migrations) = 7
    BY DEF ImportInv, Typed, Migrations
  <1>2. ASSUME NEW p \in Proc, pc[p] \in {"reading", "open", "file", "feature"}
        PROVE  schema = 7
    <2>1. pc[p] = "reading" \/ Holds(p)
      BY <1>2 DEF Holds, Writing, Importing, Featuring
    <2>2. json # None
      BY <2>1 DEF ImportInv, Held, MigratedAt
    <2> QED
      BY <2>2 DEF ImportInv, Migrated
  <1> QED
    BY <1>1, <1>2 DEF OpenMeansMigrated

LEMMA LinearHistory ==
  ASSUME ImportInv
  PROVE  SceneHistoryLinear
  <1>1. \A a, b \in db.scenes : a.project = b.project => a = b
    BY DEF ImportInv, Rooted
  <1>2. ASSUME NEW s \in db.scenes
        PROVE  LET vs == FindSceneVersionsByScene(db, s.id)
               IN  /\ Cardinality({v \in vs : v.parent = None}) = 1
                   /\ FindSceneVersion(db, s.current) \subseteq vs
                   /\ \A v \in vs :
                       Cardinality({w \in vs : w.parent = v.id})
                         = IF v.id = s.current THEN 0 ELSE 1
    <2> DEFINE vs == FindSceneVersionsByScene(db, s.id)
    <2>1. vs = Versions(s.id)
      BY DEF FindSceneVersionsByScene, Versions
    <2> HIDE DEF vs
    <2>2. /\ \E v \in vs : v.parent = None /\ \A w \in vs : w.parent = None => w = v
          /\ \A v \in db.versions : v.id = s.current => v.scene = s.id
          /\ \A v \in vs : v.id = s.current => \A w \in vs : w.parent # v.id
          /\ \A v \in vs : v.id # s.current =>
                 \E w \in vs : w.parent = v.id /\ \A u \in vs : u.parent = v.id => u = w
      BY <2>1 DEF ImportInv, Chained
    <2>3. Cardinality({v \in vs : v.parent = None}) = 1
      <3>1. PICK v \in {x \in vs : x.parent = None} : \A w \in {x \in vs : x.parent = None} : w = v
        BY <2>2
      <3> QED
        BY <3>1, OneMember
    <2>4. FindSceneVersion(db, s.current) \subseteq vs
      BY <2>1, <2>2 DEF FindSceneVersion, Versions
    <2>5. ASSUME NEW v \in vs
          PROVE  Cardinality({w \in vs : w.parent = v.id}) = IF v.id = s.current THEN 0 ELSE 1
      <3>1. CASE v.id = s.current
        <4>1. {w \in vs : w.parent = v.id} = {}
          BY <2>2, <3>1
        <4> QED
          BY <3>1, <4>1, FS_EmptySet
      <3>2. CASE v.id # s.current
        <4>1. PICK w \in {x \in vs : x.parent = v.id} : \A u \in {x \in vs : x.parent = v.id} : u = w
          BY <2>2, <3>2
        <4> QED
          BY <3>2, <4>1, OneMember
      <3> QED
        BY <3>1, <3>2
    <2> QED
      BY <2>3, <2>4, <2>5 DEF vs
  <1> QED
    BY <1>1, <1>2 DEF SceneHistoryLinear

LEMMA AgreeingViews ==
  ASSUME ImportInv
  PROVE  ViewsAgree
  <1>1. Recorded /\ Rooted
    BY DEF ImportInv
  <1>2. \A o \in db.observations : \E f \in db.frames :
          /\ f.id = o.frame /\ f.scene = o.scene /\ f.session = o.session
          /\ f.time = o.time /\ f.sensor = o.sensor
    BY <1>1 DEF Recorded
  <1>3. \A f, g \in db.frames : f.id = g.id => f = g
    BY <1>1 DEF Recorded
  \* An observation is found by its frame, and by nothing else.
  <1>4. ASSUME NEW o \in db.observations, NEW f \in db.frames, f.id = o.frame
        PROVE  /\ f.scene = o.scene /\ f.session = o.session /\ f.time = o.time
               /\ f.sensor = o.sensor
    BY <1>2, <1>3, <1>4
  <1>5. ASSUME NEW s \in db.scenes
        PROVE  LET sessions == {x.id : x \in {y \in db.sessions : y.project = s.project}}
                   frames   == FindFramesByScene(db, s.id)
               IN  /\ Cardinality(db.projects) = 1 =>
                       /\ frames = UNION {FindFramesBySession(db, x) : x \in sessions}
                       /\ FindObservationsByScene(db, s.id)
                            = UNION {FindObservationsBySession(db, x) : x \in sessions}
                   /\ FindTrajectoriesByScene(db, s.id)
                        = UNION {FindTrajectoriesBySession(db, x) : x \in sessions}
                   /\ FindObservationsByScene(db, s.id)
                        = UNION {FindObservationsByFrame(db, f.id) : f \in frames}
                   /\ FindFeatureSetsByScene(db, s.id)
                        = UNION {FindFeatureSetsByFrame(db, f.id) : f \in frames}
    <2> DEFINE sessions == {x.id : x \in {y \in db.sessions : y.project = s.project}}
               frames   == FindFramesByScene(db, s.id)
    <2>1. ASSUME Cardinality(db.projects) = 1
          PROVE  /\ frames = UNION {FindFramesBySession(db, x) : x \in sessions}
                 /\ FindObservationsByScene(db, s.id)
                      = UNION {FindObservationsBySession(db, x) : x \in sessions}
      <3>1. PICK u : db.projects = {u}
        BY <1>1, <2>1, FS_Singleton DEF Rooted
      <3>2. sessions = Ids(db.sessions)
        BY <1>1, <3>1 DEF Rooted, Ids
      <3>3. \A c \in db.scenes : c = s
        BY <1>1, <3>1 DEF Rooted
      <3>4. \A f \in db.frames : f.scene = s.id /\ f.session \in sessions
        <4> SUFFICES ASSUME NEW f \in db.frames
                     PROVE  f.scene = s.id /\ f.session \in sessions
          OBVIOUS
        <4>1. f.session \in Ids(db.sessions) /\ f.scene \in Ids(db.scenes)
          BY <1>1 DEF Recorded
        <4>2. PICK c \in db.scenes : c.id = f.scene
          BY <4>1 DEF Ids
        <4> HIDE DEF sessions
        <4> QED
          BY <3>2, <3>3, <4>1, <4>2
      <3>5. \A o \in db.observations : o.scene = s.id /\ o.session \in sessions
        BY <1>2, <3>4
      <3> HIDE DEF sessions
      <3> QED
        BY <3>4, <3>5 DEF FindFramesByScene, FindFramesBySession, FindObservationsByScene,
                          FindObservationsBySession
    <2>2. FindTrajectoriesByScene(db, s.id)
            = UNION {FindTrajectoriesBySession(db, x) : x \in sessions}
      <3>1. \A t \in db.trajectories : t.scene = s.id <=> t.session \in sessions
        <4> SUFFICES ASSUME NEW t \in db.trajectories
                     PROVE  t.scene = s.id <=> t.session \in sessions
          OBVIOUS
        <4>1. PICK x \in db.sessions, c \in db.scenes :
                x.id = t.session /\ c.id = t.scene /\ x.project = c.project
          BY <1>1 DEF Recorded
        <4>2. t.session \in sessions <=> x.project = s.project
          BY <1>1, <4>1 DEF Rooted
        <4>3. t.scene = s.id <=> c = s
          BY <1>1, <4>1 DEF Rooted
        <4> QED
          BY <1>1, <4>1, <4>2, <4>3 DEF Rooted
      <3> HIDE DEF sessions
      <3> QED
        BY <3>1 DEF FindTrajectoriesByScene, FindTrajectoriesBySession
    <2>3. FindObservationsByScene(db, s.id)
            = UNION {FindObservationsByFrame(db, f.id) : f \in frames}
      <3>1. \A o \in db.observations :
              o.scene = s.id <=> \E f \in db.frames : f.scene = s.id /\ f.id = o.frame
        BY <1>2, <1>4
      <3> QED
        BY <3>1 DEF FindObservationsByScene, FindObservationsByFrame, FindFramesByScene
    <2>4. FindFeatureSetsByScene(db, s.id)
            = UNION {FindFeatureSetsByFrame(db, f.id) : f \in frames}
      BY DEF FindFeatureSetsByScene, FindFeatureSetsByFrame
    <2> QED
      BY <2>1, <2>2, <2>3, <2>4
  <1>6. ASSUME NEW s
        PROVE  FindObservationsBySensor(db, s)
                 = UNION {FindObservationsByFrame(db, f.id) : f \in FindFramesBySensor(db, s)}
    <2>1. \A o \in db.observations :
            o.sensor = s <=> \E f \in db.frames : f.sensor = s /\ f.id = o.frame
      BY <1>2, <1>4
    <2> QED
      BY <2>1 DEF FindObservationsBySensor, FindObservationsByFrame, FindFramesBySensor
  <1>7. ASSUME NEW t
        PROVE  FindObservationsInTimeRange(db, 0, t)
                 = UNION {FindObservationsByFrame(db, f.id) : f \in FindFramesInTimeRange(db, 0, t)}
    <2>1. \A o \in db.observations :
            o.time >= 0 /\ o.time < t
              <=> \E f \in db.frames : f.time >= 0 /\ f.time < t /\ f.id = o.frame
      <3> SUFFICES ASSUME NEW o \in db.observations
                   PROVE  o.time >= 0 /\ o.time < t
                            <=> \E f \in db.frames : f.time >= 0 /\ f.time < t /\ f.id = o.frame
        OBVIOUS
      <3>1. PICK f \in db.frames : f.id = o.frame /\ f.time = o.time
        BY <1>2
      <3>2. \A g \in db.frames : g.id = o.frame => g = f
        BY <1>3, <3>1
      <3> QED
        BY <3>1, <3>2
    <2> QED
      BY <2>1 DEF FindObservationsInTimeRange, FindObservationsByFrame, FindFramesInTimeRange
  <1>8. FindObservations(db) = UNION {FindObservationsByFrame(db, f.id) : f \in FindFrames(db)}
    BY <1>2 DEF FindObservations, FindObservationsByFrame, FindFrames
  <1>9. db.rejections = UNION {FindImportRejectionsBySession(db, x) : x \in Ids(db.sessions)}
    BY <1>1 DEF Recorded, FindImportRejectionsBySession
  <1>10. db.features = UNION {FindFeatureSetsByFrame(db, f.id) : f \in FindFrames(db)}
    <2>1. \A x \in db.features : \E f \in db.frames : f.id = x.frame
      BY <1>1 DEF Recorded, Ids
    <2> QED
      BY <2>1 DEF FindFeatureSetsByFrame, FindFrames
  <1> QED
    BY <1>5, <1>6, <1>7, <1>8, <1>9, <1>10 DEF ViewsAgree

\* The newest calibration valid at a time is the only one.
LEMMA UniqueCalibration ==
  ASSUME ImportInv
  PROVE  CalibrationUnique
  <1>1. Calibrated
    BY DEF ImportInv
  <1>2. ASSUME NEW s, NEW t \in 0..(Infinity - 1), NEW c \in db.calibrations,
               c.sensor = s, c.from <= t, t < End(c)
        PROVE  ResolveCalibrationAt(db, s, t) = c
    <2> DEFINE valid == {x \in db.calibrations : /\ x.sensor = s /\ x.from <= t
                                                 /\ x.to = None \/ x.to > t}
    <2>1. t \in Nat /\ t < Infinity /\ Infinity \in Nat /\ None \notin Nat
      BY Apart
    <2>2. \A x \in db.calibrations : x.from \in Nat /\ x.to \in Nat \cup {None} /\ End(x) \in Nat
      BY <1>1, <2>1 DEF Calibrated, End
    <2>3. \A x \in db.calibrations : t < End(x) <=> (x.to = None \/ x.to > t)
      BY <2>1, <2>2 DEF End
    <2>4. c \in valid
      BY <1>2, <2>3
    <2>5. \A x \in valid : x = c
      <3> SUFFICES ASSUME NEW x \in valid, x # c
                   PROVE  FALSE
        OBVIOUS
      <3>1. ~(x.from < End(c) /\ c.from < End(x))
        BY <1>1, <1>2 DEF Calibrated
      <3>2. t < End(x) /\ x.from <= t
        BY <2>3
      <3> QED
        BY <1>2, <2>1, <2>2, <3>1, <3>2
    <2>6. valid = {c}
      BY <2>4, <2>5
    <2>7. ResolveCalibrationAt(db, s, t)
            = IF valid = {} THEN None ELSE CHOOSE x \in valid : \A d \in valid : d.from <= x.from
      BY DEF ResolveCalibrationAt
    <2> HIDE DEF valid
    <2>8. (CHOOSE x \in {c} : \A d \in {c} : d.from <= x.from) = c
      BY <2>2
    <2> QED
      BY <2>6, <2>7, <2>8
  <1> QED
    BY <1>1, <1>2 DEF CalibrationUnique, Calibrated

LEMMA ReachableContent ==
  ASSUME ImportInv
  PROVE  ContentReachable /\ TrajectoryWhole
  <1>1. ContentReachable
    <2>1. Content(db, manifests, cas, ids)
      BY DEF ImportInv, Known
    <2> QED
      BY <2>1 DEF Content, Refers, ContentReachable, FindArtifactById, FindArtifactByHash
  <1>2. ASSUME NEW r \in FindArtifactsByType(db, "trajectory"), NEW c, c = r.config
        PROVE  Consistent(db, r, c, c[2], c[3], c[6], <<SourceOf(c[5]), c>>)
    <2>1. WholeRow(db, r, manifests, cas)
      BY DEF ImportInv, Whole, FindArtifactsByType
    <2>2. \E t \in FindTrajectoriesBySession(db, c[2]) :
            t.id = r.hash[2] /\ t.scene = c[3] /\ t.doc = r.hash
      BY <1>2, <2>1 DEF WholeRow, FindTrajectoriesBySession
    <2>3. ToSet(<<SourceOf(c[5]), c>>) = {SourceOf(c[5]), c}
      BY DEF ToSet
    <2>4. \A x \in ToSet(<<SourceOf(c[5]), c>>) : FindArtifactByHash(db, x) # {}
      BY <1>2, <2>1, <2>3 DEF WholeRow
    <2> QED
      BY <1>2, <2>1, <2>2, <2>4 DEF Consistent, WholeRow
  <1>3. \A t \in db.trajectories : FindArtifactByHash(db, t.doc) # {}
    BY DEF ImportInv, Whole
  <1> QED
    BY <1>1, <1>2, <1>3 DEF TrajectoryWhole

\* Whoever opens a project finds every table, one scene with one history, and the
\* same records whichever query asks for them, whatever races and kills came before
\* (project.cpp:66-68, metadata_db.cpp:1298-1375, scene_query.cpp:148-221).
THEOREM SceneStaysConsistent == Spec => []SceneConsistent
  <1>1. ImportInv => SceneConsistent
    BY MigratedWhenOpen, LinearHistory, AgreeingViews DEF SceneConsistent
  <1> QED
    BY <1>1, ImportInvariance, PTL

\* Every row leads to its content, and an observation to the manifest of its image and
\* to its row or that of a later copy; a trajectory is recorded with its artifacts or not at all, a
\* time has one calibration, and only a kill parts a frame from its observation
\* (artifact_store.cpp:50-92, trajectory_importer.cpp:297-372,
\* metadata_db.cpp:838-945, image_importer_main.cpp:285-315).
THEOREM RecordsStayWhole == Spec => []RecordsWhole
  <1>1. ImportInv => RecordsWhole
    BY ReachableContent, UniqueCalibration
       DEF RecordsWhole, ImportInv, RecordsComplete, Parted, Partial
  <1> QED
    BY <1>1, ImportInvariance, PTL

=============================================================================
