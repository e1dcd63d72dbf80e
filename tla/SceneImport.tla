----------------------------- MODULE SceneImport -----------------------------
(***************************************************************************)
(* A project on disk and the commands that fill its scene:                  *)
(*   - Project::Create, Open, Save and Close (core/project/project.cpp),     *)
(*     with the migrations of MetadataDb and the writer lock;                *)
(*   - ImageImporter::Import (importers/images/image_importer_main.cpp);     *)
(*   - ImportTumCameraTrajectory (importers/trajectory);                     *)
(*   - the session command of feature extraction (cli/main.cpp);             *)
(*   - the sensor and calibration calls of a host application.               *)
(*                                                                           *)
(* Every command runs in a process of its own, one write at a time: a step   *)
(* is one file written or one database transaction.  A process may be killed *)
(* between any two steps; the operating system then frees its lock and       *)
(* SQLite forgets its open transaction, and files and rows stay.             *)
(*                                                                           *)
(* A content stands for its own hash.  Identifiers drawn at random are       *)
(* numbers never used before; those derived from their fields (v5) are the   *)
(* tuple of these fields.                                                    *)
(***************************************************************************)
EXTENDS MetadataTables, SequencesExt

CONSTANTS
    Proc,          \* the processes of the command line
    Sensor,        \* identifiers of sensors
    Imports,       \* what an import is given: a set of files and their capture
                   \* time, where 0 is the unknown time
    Tums,          \* trajectory files: the time stamps of their poses
    Validity,      \* the intervals of the calibrations
    MaxCommands, MaxCrashes   \* bounds on commands and kills

VARIABLES
    dirs,          \* the directories of the project that exist
    temp,          \* the uuid in project.json.tmp, None without the file
    json,          \* the uuid in project.json
    schema,        \* migrations applied to project.db, None without the file
    db,            \* its scene tables
    cas,           \* the contents that have a payload file
    manifests,     \* the artifact manifests on disk
    lock,          \* the process that holds the writer lock
    pc, job,       \* the next step of a process, and its local variables
    ids,           \* the next random identifier
    commands, crashes

disk   == <<dirs, temp, json>>
store  == <<cas, manifests>>
counts == <<commands, crashes>>
vars   == <<disk, schema, db, store, lock, pc, job, ids, counts>>

\* An image is no document of the importers, and None is no number, no process
\* and no kind of file.
ASSUME ImportConstants ==
    /\ MaxCommands \in Nat /\ MaxCrashes \in Nat /\ Infinity \in Nat
    /\ None \notin Nat /\ None \notin Proc
    /\ \A i \in Imports :
        /\ i.time \in 0..Infinity
        /\ \A f \in i.files : f.kind # None /\ (f.kind = "image" => f.content[1] = "image")
    /\ \A v \in Validity : v.from \in Nat /\ v.to \in Nat \cup {None}

Dirs == {"root", "artifacts", "cache", "logs", "temp"}

NoJob == [uuid |-> None, applied |-> {}, then |-> "idle", files |-> {}, index |-> 0,
          session |-> None, scene |-> None, sensor |-> None, time |-> 0, file |-> None,
          puts |-> <<>>, instance |-> FALSE, ref |-> None, after |-> "idle",
          begun |-> FALSE, tx |-> EmptyTables, row |-> None, obs |-> {}, ob |-> None]

Blank ==
    /\ dirs = {} /\ json = None /\ schema = None /\ db = EmptyTables /\ ids = 1

\* What init and one call that registers a sensor leave behind.
Prepared ==
    /\ dirs = Dirs /\ json = 1 /\ schema = Len(Migrations) /\ ids = 2
    /\ \E s \in Sensor :
        db = RegisterSensor(InsertProject(EmptyTables, 1),
                            [id |-> s, project |-> 1, status |-> "active", calibration |-> None])

Init ==
    /\ Blank \/ Prepared
    /\ temp = None /\ cas = {} /\ manifests = {} /\ lock = None
    /\ pc = [p \in Proc |-> "idle"] /\ job = [p \in Proc |-> NoJob]
    /\ commands = 0 /\ crashes = 0

-----------------------------------------------------------------------------
(* Ways a step ends. *)

Go(p, label) == pc' = [pc EXCEPT ![p] = label]

Set(p, j) == job' = [job EXCEPT ![p] = j]

\* The tables as p sees them: inside a transaction, with its own writes.
View(p) == IF job[p].begun THEN job[p].tx ELSE db

\* Faulty variant: a write is committed at once, inside a transaction too.
WriteAtOnce(p, d, j) == db' = d /\ Set(p, IF j.begun THEN [j EXCEPT !.tx = d] ELSE j)

\* p writes the tables d and keeps j.
Write(p, d, j) ==
    /\ db' = IF j.begun THEN db ELSE d
    /\ Set(p, IF j.begun THEN [j EXCEPT !.tx = d] ELSE j)

\* Faulty variant: the lock outlives a command that fails.
LeaveLocked(p) == Go(p, "idle") /\ Set(p, NoJob) /\ UNCHANGED lock

\* The command returns or throws: Close frees the lock, an open transaction is
\* rolled back.
Leave(p) == Go(p, "idle") /\ Set(p, NoJob) /\ lock' = IF lock = p THEN None ELSE lock

-----------------------------------------------------------------------------
(* Project::Create, which takes no lock.  A command that is refused at once    *)
(* changes nothing and is no step.                                            *)

InitCheck(p) ==
    /\ pc[p] = "idle" /\ commands < MaxCommands /\ "root" \notin dirs
    /\ commands' = commands + 1 /\ ids' = ids + 1
    /\ Go(p, "root") /\ Set(p, [NoJob EXCEPT !.uuid = ids, !.then = "temp"])
    /\ UNCHANGED <<disk, schema, db, store, lock, crashes>>

MakeRoot(p) ==
    /\ pc[p] = "root" /\ Go(p, "layout")
    /\ dirs' = dirs \cup {"root"}
    /\ UNCHANGED <<temp, json, schema, db, store, lock, job, ids, counts>>

MakeLayout(p) ==
    /\ pc[p] = "layout" /\ Go(p, "createDb")
    /\ dirs' = Dirs
    /\ UNCHANGED <<temp, json, schema, db, store, lock, job, ids, counts>>

CreateDb(p) ==
    /\ pc[p] = "createDb" /\ Go(p, "migrate")
    /\ schema' = IF schema = None THEN 0 ELSE schema
    /\ Set(p, [job[p] EXCEPT !.applied = AppliedMigrationIds(schema')])
    /\ UNCHANGED <<disk, db, store, lock, ids, counts>>

\* The next migration of p, or the step after them; one that another process
\* has applied in the meantime throws.
Migrate(p) ==
    LET i == NextMigration(job[p].applied) IN
    /\ pc[p] = "migrate"
    /\ \/ /\ i = None
          /\ Go(p, job[p].then) /\ UNCHANGED <<schema, job, lock>>
       \/ /\ i # None /\ MigrationApplies(schema, i)
          /\ schema' = i
          /\ Set(p, [job[p] EXCEPT !.applied = @ \cup {Migrations[i]}])
          /\ UNCHANGED <<pc, lock>>
       \/ /\ i # None /\ ~MigrationApplies(schema, i)
          /\ Leave(p) /\ UNCHANGED schema
    /\ UNCHANGED <<disk, db, store, ids, counts>>

\* AtomicWrite of project.json: the temporary file has the same name in every
\* process, and a rename that does not find it throws.
WriteTemp(p) ==
    /\ pc[p] = "temp" /\ Go(p, "rename")
    /\ temp' = job[p].uuid
    /\ UNCHANGED <<dirs, json, schema, db, store, lock, job, ids, counts>>

Rename(p) ==
    /\ pc[p] = "rename"
    /\ IF temp = None
       THEN Leave(p) /\ UNCHANGED <<temp, json>>
       ELSE /\ json' = temp /\ temp' = None
            /\ IF job[p].after = "saved" THEN Leave(p)
               ELSE Go(p, "insertProject") /\ UNCHANGED <<job, lock>>
    /\ UNCHANGED <<dirs, schema, db, store, ids, counts>>

\* SQLite refuses the row at once while another process is inside a transaction.
InsertProjectRow(p) ==
    /\ pc[p] = "insertProject" /\ Leave(p)
    /\ db' = IF CanInsertProject(db, job[p].uuid) /\ \A q \in Proc : ~job[q].begun
             THEN InsertProject(db, job[p].uuid) ELSE db
    /\ UNCHANGED <<disk, schema, store, ids, counts>>

-----------------------------------------------------------------------------
(* Project::Open: the manifest and the layout are read, then the lock is taken *)
(* or refused at once, then the missing migrations are applied.                *)

OpenCheck(p) ==
    /\ pc[p] = "idle" /\ commands < MaxCommands
    /\ json # None /\ dirs = Dirs
    /\ commands' = commands + 1
    /\ \E mode \in {"lock", "reading"} :
            Go(p, mode) /\ Set(p, [NoJob EXCEPT !.uuid = json, !.then = "open"])
    /\ UNCHANGED <<disk, schema, db, store, lock, ids, crashes>>

\* Faulty variant: a second writer is let in.
OpenUnlocked(p) ==
    /\ pc[p] = "lock" /\ Go(p, "migrate")
    /\ lock' = p
    /\ Set(p, [job[p] EXCEPT !.applied = AppliedMigrationIds(schema)])
    /\ UNCHANGED <<disk, schema, db, store, ids, counts>>

OpenLock(p) ==
    /\ pc[p] = "lock"
    /\ IF lock # None \/ schema = None
       THEN Leave(p)
       ELSE /\ lock' = p /\ Go(p, "migrate")
            /\ Set(p, [job[p] EXCEPT !.applied = AppliedMigrationIds(schema)])
    /\ UNCHANGED <<disk, schema, db, store, ids, counts>>

\* OpenReadOnly applies no migration and takes no lock; the reader just ends.
EndReading(p) ==
    /\ pc[p] = "reading" /\ Leave(p)
    /\ UNCHANGED <<disk, schema, db, store, ids, counts>>

Save(p) ==
    /\ pc[p] = "open" /\ Go(p, "temp")
    /\ Set(p, [job[p] EXCEPT !.after = "saved"])
    /\ UNCHANGED <<disk, schema, db, store, lock, ids, counts>>

-----------------------------------------------------------------------------
(* Sensors and calibrations, one transaction each. *)

RegisterSensorCall(p) ==
    /\ pc[p] = "open" /\ Leave(p)
    /\ \E s \in Sensor :
        LET row == [id |-> s, project |-> job[p].uuid, status |-> "active",
                    calibration |-> None]
        IN  db' = IF CanRegisterSensor(db, row) THEN RegisterSensor(db, row) ELSE db
    /\ UNCHANGED <<disk, schema, store, ids, counts>>

UpdateSensorCall(p) ==
    /\ pc[p] = "open" /\ Leave(p)
    /\ \E s \in Ids(db.sensors) : db' = UpdateSensorMetadata(db, s, "retired")
    /\ UNCHANGED <<disk, schema, store, ids, counts>>

AddCalibrationCall(p) ==
    /\ pc[p] = "open" /\ Leave(p)
    /\ \E s \in Sensor, v \in Validity :
        LET row == [id |-> None, sensor |-> s, from |-> v.from, to |-> v.to, version |-> 0]
        IN  db' = IF CanAddCalibration(db, row) THEN AddCalibration(db, row) ELSE db
    /\ UNCHANGED <<disk, schema, store, ids, counts>>

-----------------------------------------------------------------------------
(* ArtifactStore::Put and PutInstance, the head of the queue "puts" at a time: *)
(* the payload, the manifest, then the row.                                    *)

Put(p, puts, instance, after, j) ==
    /\ Go(p, "payload")
    /\ Set(p, [j EXCEPT !.puts = puts, !.instance = instance, !.after = after])

PutNext(p, j) ==
    /\ Set(p, [j EXCEPT !.puts = Tail(@)])
    /\ Go(p, IF Len(j.puts) = 1 THEN j.after ELSE "payload")

\* Put returns the artifact that has the content already; PutInstance needs
\* its payload.
PutPayload(p) ==
    LET c   == Head(job[p].puts).hash
        old == FindArtifactByHash(View(p), c)
    IN  /\ pc[p] = "payload"
        /\ \/ /\ ~job[p].instance /\ old # {}
              /\ PutNext(p, [job[p] EXCEPT !.ref = (CHOOSE r \in old : TRUE).id])
              /\ UNCHANGED <<cas, lock>>
           \/ /\ ~job[p].instance /\ old = {}
              /\ cas' = cas \cup {c} /\ Go(p, "manifest") /\ UNCHANGED <<job, lock>>
           \/ /\ job[p].instance
              /\ IF c \in cas THEN Go(p, "manifest") /\ UNCHANGED <<job, lock>> ELSE Leave(p)
              /\ UNCHANGED cas
        /\ UNCHANGED <<disk, schema, db, manifests, ids, counts>>

\* The manifest of the head of the queue, with its identifier.
Stamped(j, i) == [Head(j.puts) EXCEPT !.id = i]

PutManifest(p) ==
    /\ pc[p] = "manifest" /\ Go(p, "row")
    /\ manifests' = manifests \cup {Stamped(job[p], ids)}
    /\ Set(p, [job[p] EXCEPT !.ref = ids]) /\ ids' = ids + 1
    /\ UNCHANGED <<disk, schema, db, cas, lock, counts>>

PutRow(p) ==
    /\ pc[p] = "row"
    /\ Go(p, IF Len(job[p].puts) = 1 THEN job[p].after ELSE "payload")
    /\ Write(p, UpsertArtifact(View(p), Stamped(job[p], job[p].ref)),
             [job[p] EXCEPT !.puts = Tail(@)])
    /\ UNCHANGED <<disk, schema, store, lock, ids, counts>>

-----------------------------------------------------------------------------
(* ImageImporter::Import. *)

\* An empty batch and an unknown session throw.
StartImport(p) ==
    /\ pc[p] = "open"
    /\ \E i \in Imports, s \in Sensor, session \in {None, 0} \cup Ids(db.sessions) :
        IF i.files = {} \/ (session # None /\ ~FindSession(db, session))
        THEN Leave(p)
        ELSE /\ Go(p, IF session = None THEN "session" ELSE "findScene")
             /\ Set(p, [job[p] EXCEPT
                          !.files = i.files, !.sensor = s, !.time = i.time, !.session = session])
             /\ UNCHANGED lock
    /\ UNCHANGED <<disk, schema, db, store, ids, counts>>

ImportSession(p) ==
    LET row == [id |-> ids, project |-> job[p].uuid] IN
    /\ pc[p] = "session" /\ ids' = ids + 1
    /\ IF CanInsertCaptureSession(db, row)
       THEN /\ db' = InsertCaptureSession(db, row) /\ Go(p, "findScene")
            /\ Set(p, [job[p] EXCEPT !.session = ids]) /\ UNCHANGED lock
       ELSE Leave(p) /\ UNCHANGED db
    /\ UNCHANGED <<disk, schema, store, counts>>

\* FindOrCreateScene looks first and creates in a transaction of its own.
ImportFindScene(p) ==
    LET found == FindSceneByProject(db, job[p].uuid) IN
    /\ pc[p] = "findScene"
    /\ IF found = {}
       THEN Go(p, "createScene") /\ UNCHANGED job
       ELSE /\ Go(p, "version")
            /\ \E r \in found : Set(p, [job[p] EXCEPT !.scene = r.id])
    /\ UNCHANGED <<disk, schema, db, store, lock, ids, counts>>

ImportCreateScene(p) ==
    /\ pc[p] = "createScene" /\ ids' = ids + 2
    /\ IF CanCreateScene(db, job[p].uuid)
       THEN /\ db' = CreateScene(db, ids, job[p].uuid, ids + 1) /\ Go(p, "version")
            /\ Set(p, [job[p] EXCEPT !.scene = ids]) /\ UNCHANGED lock
       ELSE Leave(p) /\ UNCHANGED db
    /\ UNCHANGED <<disk, schema, store, counts>>

ImportVersion(p) ==
    /\ pc[p] = "version" /\ Go(p, "file")
    /\ db' = CreateSceneVersion(db, job[p].scene, "imported", ids) /\ ids' = ids + 1
    /\ UNCHANGED <<disk, schema, store, lock, job, counts>>

\* Why a file is rejected, None if it is not: the checks in their order.
Rejection(d, f, s, t) ==
    IF f.kind # "image" THEN f.kind
    ELSE IF FindSensor(d, s) = {} THEN "sensor"
    ELSE IF t = 0 THEN "time" ELSE None

DeriveId(kind, s, t, content) == <<kind, s, t, content>>

\* The files are processed in the order of their uris.
FirstFile(files) == {f \in files : \A g \in files : f.uri <= g.uri}

\* The checks of ProcessFile up to its first write.
ProcessFile(p, f) ==
    LET j     == job[p]
        why   == Rejection(db, f, j.sensor, j.time)
        known == ObservationExists(db, DeriveId("observation", j.sensor, j.time, f.content))
        later == [j EXCEPT !.files = @ \ {f}, !.index = @ + 1]
    IN  \/ /\ why # None
           /\ db' = InsertImportRejection(db, [id |-> ids, session |-> j.session,
                                               index |-> j.index, code |-> why])
           /\ ids' = ids + 1 /\ Set(p, later) /\ UNCHANGED pc
        \/ /\ why = None /\ known
           /\ Set(p, later) /\ UNCHANGED <<db, ids, pc>>
        \/ /\ why = None /\ ~known
           /\ Put(p, <<[id |-> None, hash |-> f.content, type |-> "image",
                        config |-> None, inputs |-> <<>>]>>,
                  FindArtifactByHash(db, f.content) # {}, "frame", [later EXCEPT !.file = f])
           /\ UNCHANGED <<db, ids>>

ImportFile(p) ==
    /\ pc[p] = "file"
    /\ \/ job[p].files = {} /\ Leave(p) /\ UNCHANGED <<db, ids>>
       \/ \E f \in FirstFile(job[p].files) : ProcessFile(p, f) /\ UNCHANGED lock
    /\ UNCHANGED <<disk, schema, store, counts>>

FrameOf(j) ==
    [id |-> DeriveId("frame", j.sensor, j.time, j.file.content), scene |-> j.scene,
     session |-> j.session, time |-> j.time, sensor |-> j.sensor]

ObservationOf(j) ==
    [id |-> DeriveId("observation", j.sensor, j.time, j.file.content), scene |-> j.scene,
     session |-> j.session, time |-> j.time, sensor |-> j.sensor,
     frame |-> FrameOf(j).id, ref |-> j.ref]

ImportFrame(p) ==
    /\ pc[p] = "frame"
    /\ IF CanInsertFrame(db, FrameOf(job[p]))
       THEN db' = InsertFrame(db, FrameOf(job[p])) /\ Go(p, "observation") /\ UNCHANGED <<job, lock>>
       ELSE Leave(p) /\ UNCHANGED db
    /\ UNCHANGED <<disk, schema, store, ids, counts>>

ImportObservation(p) ==
    /\ pc[p] = "observation"
    /\ IF CanInsertObservation(db, ObservationOf(job[p]))
       THEN /\ db' = InsertObservation(db, ObservationOf(job[p])) /\ Go(p, "obsPayload")
            /\ UNCHANGED <<job, lock>>
       ELSE Leave(p) /\ UNCHANGED db
    /\ UNCHANGED <<disk, schema, store, ids, counts>>

ImportPayload(p) ==
    LET o == ObservationOf(job[p]).id IN
    /\ pc[p] = "obsPayload"
    /\ IF CanInsertObservationPayload(db, o)
       THEN db' = InsertObservationPayload(db, o) /\ Go(p, "file") /\ UNCHANGED <<job, lock>>
       ELSE Leave(p) /\ UNCHANGED db
    /\ UNCHANGED <<disk, schema, store, ids, counts>>

-----------------------------------------------------------------------------
(* ImportTumCameraTrajectory. *)

\* Strictly increasing time stamps, at least one.
ParseTum(tum) == tum # <<>> /\ \A i, k \in DOMAIN tum : i < k => tum[i] < tum[k]

MatchingFrames(d, session, scene, s, t) ==
    {f \in FindFramesBySession(d, session) : f.sensor = s /\ f.scene = scene /\ f.time = t}

\* Every pose belongs to exactly one frame of the session and the sensor.
FramesMatch(d, session, scene, s, tum) ==
    \A i \in DOMAIN tum : Cardinality(MatchingFrames(d, session, scene, s, tum[i])) = 1

NodesOf(d, session, scene, s, tum) ==
    [i \in DOMAIN tum |->
        [time |-> tum[i],
         frame |-> (CHOOSE f \in MatchingFrames(d, session, scene, s, tum[i]) : TRUE).id]]

\* The checks on an existing trajectory of the same configuration.
Consistent(d, row, config, session, scene, nodes, inputs) ==
    /\ \E m \in manifests : m.id = row.id /\ m.config = config /\ m.inputs = inputs
    /\ row.hash \in cas /\ row.hash[3] = nodes
    /\ \E t \in FindTrajectoriesBySession(d, session) :
            t.id = row.hash[2] /\ t.scene = scene /\ t.doc = row.hash
    /\ \A c \in ToSet(inputs) : FindArtifactByHash(d, c) # {}

\* The three artifacts of a trajectory, each with what it is made from.
SourceOf(tum) == <<"source", tum>>
ConfigOf(session, scene, s, tum, nodes) == <<"config", session, scene, s, tum, nodes>>
DocumentOf(i, nodes) == <<"trajectory", i, nodes>>

TrajectoryPuts(source, config, doc) ==
    <<[id |-> None, hash |-> source, type |-> "trajectory_source",
       config |-> None, inputs |-> <<>>],
      [id |-> None, hash |-> config, type |-> "trajectory_configuration",
       config |-> None, inputs |-> <<source>>],
      [id |-> None, hash |-> doc, type |-> "trajectory",
       config |-> config, inputs |-> <<source, config>>]>>

SceneOf(d, session) == (CHOOSE r \in SessionScene(d, session) : TRUE).id

\* What a trajectory needs before anything is stored.
TrajectoryRefused(j, session, s, tum, source, config) ==
    \/ SessionScene(db, session) = {} \/ FindSensor(db, s) = {} \/ ~ParseTum(tum)
    \/ \E r \in FindCaptureSession(db, session) : r.project # j.uuid
    \/ \E r \in FindSensor(db, s) : r.sensor.project # j.uuid
    \/ ~FramesMatch(db, session, SceneOf(db, session), s, tum)
    \/ \E c \in {source, config} : FindArtifactByHash(db, c) # {} /\ c \notin cas

\* All that is read before the transaction: the import is refused, an equal
\* one is found (and checked), or the three artifacts are queued.
StartTrajectory(p) ==
    /\ pc[p] = "open"
    /\ \E session \in Ids(db.sessions) \cup {0}, s \in Sensor, tum \in Tums :
        LET scene  == SceneOf(db, session)
            nodes  == NodesOf(db, session, scene, s, tum)
            source == SourceOf(tum)
            config == ConfigOf(session, scene, s, tum, nodes)
            doc    == DocumentOf(ids, nodes)
            equal  == {r \in FindArtifactsByType(db, "trajectory") : r.config = config}
        IN  IF TrajectoryRefused(job[p], session, s, tum, source, config) \/ equal # {}
            THEN Leave(p) /\ UNCHANGED ids
            ELSE /\ Put(p, TrajectoryPuts(source, config, doc), FALSE, "commit",
                        [job[p] EXCEPT !.begun = TRUE, !.tx = db,
                                       !.row = [id |-> ids, session |-> session,
                                                scene |-> scene, doc |-> doc]])
                 /\ ids' = ids + 1 /\ UNCHANGED lock
    /\ UNCHANGED <<disk, schema, db, store, counts>>

CommitTrajectory(p) ==
    /\ pc[p] = "commit" /\ Leave(p)
    /\ db' = AddTrajectory(View(p), job[p].row)
    /\ UNCHANGED <<disk, schema, store, ids, counts>>

-----------------------------------------------------------------------------
(* The session command of feature extraction.  The pipeline that computes the *)
(* features is external here: it stores the features of an image, or fails.   *)

StartFeatures(p) ==
    /\ pc[p] = "open"
    /\ \E session \in Ids(db.sessions) \cup {0} :
        IF FindCaptureSession(db, session) = {}
        THEN Leave(p)
        ELSE /\ Go(p, "feature")
             /\ Set(p, [job[p] EXCEPT !.obs = FindObservationsBySession(db, session)])
             /\ UNCHANGED lock
    /\ UNCHANGED <<disk, schema, db, store, ids, counts>>

FeatureNext(p) ==
    /\ pc[p] = "feature"
    /\ \/ job[p].obs = {} /\ Leave(p)
       \/ \E o \in job[p].obs :
            LET later == [job[p] EXCEPT !.obs = @ \ {o}, !.ob = o]
            IN  \/ Set(p, later) /\ UNCHANGED <<pc, lock>>
                \/ \E h \in ArtifactHash(db, o.ref) :
                    /\ Put(p, <<[id |-> None, hash |-> <<"feature", h>>, type |-> "feature",
                                 config |-> None, inputs |-> <<h>>]>>,
                           FALSE, "recordFeature", later)
                    /\ UNCHANGED lock
    /\ UNCHANGED <<disk, schema, db, store, ids, counts>>

\* WriteFeatureArtifact: the row of this frame and content, unless it exists.
RecordFeature(p) ==
    LET o   == job[p].ob
        art == CHOOSE r \in FindArtifactById(db, job[p].ref) : TRUE
        row == [id |-> <<"features", o.frame, art.hash>>, frame |-> o.frame,
                ref |-> art.id]
    IN  /\ pc[p] = "recordFeature" /\ Go(p, "feature")
        /\ db' = IF row.id \in Ids(FindFeatureSetsByFrame(db, o.frame)) THEN db
                 ELSE InsertFeatureSet(db, row)
        /\ UNCHANGED <<disk, schema, store, lock, job, ids, counts>>

-----------------------------------------------------------------------------

Crash(p) ==
    /\ pc[p] # "idle" /\ crashes < MaxCrashes
    /\ crashes' = crashes + 1 /\ Leave(p)
    /\ UNCHANGED <<disk, schema, db, store, ids, commands>>

Step(p) ==
    \/ MakeRoot(p) \/ MakeLayout(p) \/ CreateDb(p) \/ Migrate(p)
    \/ WriteTemp(p) \/ Rename(p) \/ InsertProjectRow(p)
    \/ OpenLock(p) \/ EndReading(p) \/ Save(p)
    \/ RegisterSensorCall(p) \/ UpdateSensorCall(p) \/ AddCalibrationCall(p)
    \/ PutPayload(p) \/ PutManifest(p) \/ PutRow(p)
    \/ StartImport(p) \/ ImportSession(p) \/ ImportFindScene(p) \/ ImportCreateScene(p)
    \/ ImportVersion(p) \/ ImportFile(p)
    \/ ImportFrame(p) \/ ImportObservation(p) \/ ImportPayload(p)
    \/ StartTrajectory(p) \/ CommitTrajectory(p)
    \/ StartFeatures(p) \/ FeatureNext(p) \/ RecordFeature(p)

Next == \E p \in Proc : InitCheck(p) \/ OpenCheck(p) \/ Step(p) \/ Crash(p)

\* A process that runs keeps running; nobody is forced to start a command.
Spec == Init /\ [][Next]_vars /\ \A p \in Proc : WF_vars(Step(p))

-----------------------------------------------------------------------------
(* Properties. *)

Labels ==
    {"idle", "root", "layout", "createDb", "migrate", "temp", "rename", "insertProject",
     "lock", "reading", "open", "payload", "manifest", "row", "session", "findScene",
     "createScene", "version", "file", "frame", "observation", "obsPayload", "commit",
     "feature", "recordFeature"}

ImportTypeOK ==
    /\ dirs \subseteq Dirs /\ temp \in 1..ids \cup {None} /\ json \in 1..ids \cup {None}
    /\ schema \in 0..Len(Migrations) \cup {None}
    /\ lock \in Proc \cup {None} /\ pc \in [Proc -> Labels]
    /\ DOMAIN job = Proc /\ ids \in Nat
    /\ commands \in 0..MaxCommands /\ crashes \in 0..MaxCrashes

\* Whoever has the project open, a reader that migrates nothing included, finds
\* every table: project.json appears only after the last migration, however
\* racing inits and kills are interleaved (project.cpp:66-68).
OpenMeansMigrated ==
    /\ ImportTypeOK
    /\ \A p \in Proc : pc[p] \in {"reading", "open", "file", "feature"}
                            => schema = Len(Migrations)

\* A project has one scene, and its versions are one chain from the first to the
\* current one: the look-up and the insert of FindOrCreateScene are two
\* statements, which only the writer lock keeps together (metadata_db.cpp:1298).
SceneHistoryLinear ==
    /\ \A a, b \in db.scenes : a.project = b.project => a = b
    /\ \A s \in db.scenes :
        LET vs == FindSceneVersionsByScene(db, s.id)
        IN  /\ Cardinality({v \in vs : v.parent = None}) = 1
            /\ FindSceneVersion(db, s.current) \subseteq vs
            /\ \A v \in vs :
                Cardinality({w \in vs : w.parent = v.id}) = IF v.id = s.current THEN 0 ELSE 1

\* What one query finds the others find.  The trajectories and rejections of a scene
\* are those of its sessions; its observations and feature sets are those of its
\* frames, whether they are looked up by scene, sensor or time
\* (scene_query.cpp:148-221, trajectory_importer.cpp:243-248).  So are its frames and
\* observations by session, where one Create came to its end: an importer accepts
\* a session of another project (image_importer_main.cpp:118-127), which two racing
\* Creates leave in one database.
ViewsAgree ==
    /\ \A s \in db.scenes :
        LET sessions == {x.id : x \in {y \in db.sessions : y.project = s.project}}
            frames   == FindFramesByScene(db, s.id)
        IN  /\ Cardinality(db.projects) = 1 =>
                /\ frames = UNION {FindFramesBySession(db, x) : x \in sessions}
                /\ FindObservationsByScene(db, s.id)
                     = UNION {FindObservationsBySession(db, x) : x \in sessions}
            /\ FindTrajectoriesByScene(db, s.id)
                 = UNION {FindTrajectoriesBySession(db, x) : x \in sessions}
            /\ FindObservationsByScene(db, s.id)
                 = UNION {FindObservationsByFrame(db, f.id) : f \in frames}
            /\ FindFeatureSetsByScene(db, s.id)
                 = UNION {FindFeatureSetsByFrame(db, f.id) : f \in frames}
    /\ \A s \in Sensor :
        FindObservationsBySensor(db, s)
          = UNION {FindObservationsByFrame(db, f.id) : f \in FindFramesBySensor(db, s)}
    /\ \A t \in 0..Infinity :
        FindObservationsInTimeRange(db, 0, t)
          = UNION {FindObservationsByFrame(db, f.id) : f \in FindFramesInTimeRange(db, 0, t)}
    /\ FindObservations(db) = UNION {FindObservationsByFrame(db, f.id) : f \in FindFrames(db)}
    /\ db.rejections = UNION {FindImportRejectionsBySession(db, x) : x \in Ids(db.sessions)}
    /\ db.features = UNION {FindFeatureSetsByFrame(db, f.id) : f \in FindFrames(db)}

\* Wherever a command was killed, a row of an artifact has its payload and a
\* manifest (artifact_store.cpp:50-92), and a feature set the artifact it refers to.
\* The artifact_ref of an observation leads to the manifest of its image, but to a row
\* only until the same image is stored again: the row of a content gives way to the
\* next one (metadata_db.cpp:336), and what then is found by the content is newer.
ContentReachable ==
    /\ \A r \in db.artifacts : r.hash \in cas /\ \E m \in manifests : m.id = r.id /\ m.hash = r.hash
    /\ \A o \in db.observations :
        /\ \E m \in manifests : m.id = o.ref /\ m.hash = o.id[4]
        /\ \E r \in FindArtifactByHash(db, o.id[4]) : o.ref <= r.id
    /\ \A x \in db.features : \E r \in FindArtifactById(db, x.ref) : r.hash = x.id[3]

\* Artifacts and row of a trajectory appear together or not at all: repeating an
\* import never meets a record its own checks call inconsistent, and no
\* trajectory is without its document (trajectory_importer.cpp:297-332, 367-372).
TrajectoryWhole ==
    /\ \A r \in FindArtifactsByType(db, "trajectory") :
        LET c == r.config
        IN  Consistent(db, r, c, c[2], c[3], c[6], <<SourceOf(c[5]), c>>)
    /\ \A t \in db.trajectories : FindArtifactByHash(db, t.doc) # {}

\* At every time before the end of time at most one calibration of a sensor is
\* valid, and the sensor points at its newest one, whatever is updated in between
\* (metadata_db.cpp:838-945).
CalibrationUnique ==
    /\ \A s \in Sensor, t \in 0..(Infinity - 1) :
        \A c \in db.calibrations :
            c.sensor = s /\ c.from <= t /\ t < End(c) => ResolveCalibrationAt(db, s, t) = c
    /\ \A s \in db.sensors, c \in db.calibrations :
        c.sensor = s.id => \E d \in db.calibrations :
            d.id = s.calibration /\ d.sensor = s.id /\ c.version <= d.version

\* The frame has its observation and the observation its payload row, or its import
\* is on the way to them.
Completed(f) ==
    \/ \E p \in Proc : pc[p] \in {"observation", "obsPayload"} /\ FrameOf(job[p]).id = f.id
    \/ \E o \in FindObservationsByFrame(db, f.id) : o.id \in db.payloads

\* A kill leaves at most one frame without its observation or its payload row, and
\* nothing else leaves any: no error path of ProcessFile lies between the three
\* inserts (image_importer_main.cpp:285-315), also where the batch of the killed
\* command is imported again and meets the frame it left.
RecordsComplete == Cardinality({f \in db.frames : ~Completed(f)}) <= crashes

\* Every command ends, and the writer lock does not outlive it: a project is
\* never locked for good by a command that failed (fs.cpp:316, project.cpp:219).
LockReleased ==
    /\ \A p \in Proc : pc[p] # "idle" ~> pc[p] = "idle"
    /\ \A p \in Proc : lock = p ~> lock # p

\* Processes that create, open and read one project at a time of their own find one
\* scene with one history, and the same one whichever way they look it up.
SceneConsistent == OpenMeansMigrated /\ SceneHistoryLinear /\ ViewsAgree

\* What the importers record is whole: every row leads to its content, if not to the
\* row it names (ContentReachable); no trajectory is half written, and of the frames at
\* most one for each kill; and a time has one calibration.
RecordsWhole ==
    /\ ContentReachable
    /\ TrajectoryWhole
    /\ CalibrationUnique
    /\ RecordsComplete
=============================================================================
