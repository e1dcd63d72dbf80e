--------------------------- MODULE MetadataTables ---------------------------
(***************************************************************************)
(* The scene tables of project.db (core/storage/metadata_db.cpp), as        *)
(* operators on a database value: a record with one set of rows per table.  *)
(* A write is a transaction of its own, so it is one operator from database *)
(* to database, with the constraints (primary keys, foreign keys, checks)   *)
(* that make SQLite refuse it as a predicate beside it.  A query is the set *)
(* of rows its WHERE clause selects.  Columns that no query selects on      *)
(* (names, JSON texts, sizes) are left out; ordering is kept where a caller *)
(* depends on it.                                                           *)
(***************************************************************************)
EXTENDS Integers, FiniteSets, FiniteSetsExt

CONSTANTS
    None,        \* SQL NULL, and an empty optional
    Infinity     \* the largest timestamp, numeric_limits<int64_t>::max()

Migrations == <<1, 3, 4, 5, 6, 7, 8>>

EmptyTables ==
    [projects |-> {}, sessions |-> {}, sensors |-> {}, calibrations |-> {},
     scenes |-> {}, versions |-> {}, frames |-> {}, observations |-> {},
     payloads |-> {}, rejections |-> {}, artifacts |-> {}, features |-> {},
     trajectories |-> {}]

Ids(rows) == {r.id : r \in rows}

-----------------------------------------------------------------------------
(* Migrations: the ids already applied are read once, the others are applied *)
(* in order, one transaction each.  A script creates tables, so it fails     *)
(* when another connection has applied it in the meantime.                   *)

AppliedMigrationIds(schema) == {Migrations[i] : i \in 1..schema}

NextMigration(applied) ==
    LET open == {i \in DOMAIN Migrations : Migrations[i] \notin applied}
    IN  IF open = {} THEN None ELSE Min(open)

MigrationApplies(schema, i) == i = schema + 1

-----------------------------------------------------------------------------
(* Projects, sessions, sensors and calibrations. *)

CanInsertProject(db, p) == p \notin db.projects

InsertProject(db, p) == [db EXCEPT !.projects = @ \cup {p}]

CanInsertCaptureSession(db, row) == row.project \in db.projects /\ row.id \notin Ids(db.sessions)

InsertCaptureSession(db, row) == [db EXCEPT !.sessions = @ \cup {row}]

FindCaptureSession(db, s) == {r \in db.sessions : r.id = s}

FindSession(db, s) == s \in Ids(db.sessions)

CanRegisterSensor(db, row) == row.project \in db.projects /\ row.id \notin Ids(db.sensors)

RegisterSensor(db, row) == [db EXCEPT !.sensors = @ \cup {row}]

\* FindSensor also tells whether the sensor has a calibration at all.
FindSensor(db, s) ==
    {[sensor |-> r, hasCalibration |-> \E c \in db.calibrations : c.sensor = s]
        : r \in {x \in db.sensors : x.id = s}}

UpdateSensorMetadata(db, s, status) ==
    [db EXCEPT !.sensors = {IF r.id = s THEN [r EXCEPT !.status = status] ELSE r : r \in @}]

End(c) == IF c.to = None THEN Infinity ELSE c.to

\* The overlap test on half-open intervals, an open end counting as Infinity.
Overlaps(db, row) ==
    \E c \in db.calibrations : /\ c.sensor = row.sensor
                               /\ c.from < End(row)
                               /\ End(c) > row.from

CanAddCalibration(db, row) ==
    /\ row.to # None => row.to > row.from
    /\ ~Overlaps(db, row)
    /\ row.sensor \in Ids(db.sensors)

\* The row gets the next version of its sensor, and the sensor points at it.
AddCalibration(db, row) ==
    LET version == Cardinality({c \in db.calibrations : c.sensor = row.sensor}) + 1
        id      == <<row.sensor, version>>
    IN  [db EXCEPT !.calibrations = @ \cup {[row EXCEPT !.id = id, !.version = version]},
                   !.sensors = {IF r.id = row.sensor THEN [r EXCEPT !.calibration = id] ELSE r
                                   : r \in @}]

\* The newest of the calibrations valid at t, None if there is none.
ResolveCalibrationAt(db, s, t) ==
    LET valid == {c \in db.calibrations : /\ c.sensor = s /\ c.from <= t
                                          /\ c.to = None \/ c.to > t}
    IN  IF valid = {} THEN None ELSE CHOOSE c \in valid : \A d \in valid : d.from <= c.from

-----------------------------------------------------------------------------
(* Scenes and their versions. *)

FindSceneByProject(db, p) == {r \in db.scenes : r.project = p}

CanCreateScene(db, project) == project \in db.projects

\* One transaction: the scene and its first version.
CreateScene(db, scene, project, version) ==
    [db EXCEPT !.scenes = @ \cup {[id |-> scene, project |-> project, current |-> version]},
               !.versions = @ \cup {[id |-> version, scene |-> scene, parent |-> None,
                                     stage |-> "created"]}]

\* One transaction: a version below the current one, which it replaces.
CreateSceneVersion(db, scene, stage, version) ==
    LET row == CHOOSE r \in db.scenes : r.id = scene
    IN  [db EXCEPT !.versions = @ \cup {[id |-> version, scene |-> scene,
                                         parent |-> row.current, stage |-> stage]},
                   !.scenes = {IF r.id = scene THEN [r EXCEPT !.current = version] ELSE r
                                  : r \in @}]

FindSceneVersion(db, v) == {r \in db.versions : r.id = v}

FindSceneVersionsByScene(db, s) == {r \in db.versions : r.scene = s}

-----------------------------------------------------------------------------
(* Frames, observations and what is recorded about them. *)

CanInsertFrame(db, row) ==
    /\ row.id \notin Ids(db.frames)
    /\ row.scene \in Ids(db.scenes)
    /\ row.sensor \in Ids(db.sensors)

InsertFrame(db, row) == [db EXCEPT !.frames = @ \cup {row}]

CanInsertObservation(db, row) ==
    /\ row.id \notin Ids(db.observations)
    /\ row.scene \in Ids(db.scenes)
    /\ row.sensor \in Ids(db.sensors)
    /\ row.frame \in Ids(db.frames)

InsertObservation(db, row) == [db EXCEPT !.observations = @ \cup {row}]

CanInsertObservationPayload(db, o) == o \in Ids(db.observations) /\ o \notin db.payloads

InsertObservationPayload(db, o) == [db EXCEPT !.payloads = @ \cup {o}]

ObservationExists(db, o) == o \in Ids(db.observations)

InsertImportRejection(db, row) == [db EXCEPT !.rejections = @ \cup {row}]

FindImportRejectionsBySession(db, s) == {r \in db.rejections : r.session = s}

FindFrames(db) == db.frames

FindFramesByScene(db, s) == {r \in db.frames : r.scene = s}

FindFramesBySession(db, s) == {r \in db.frames : r.session = s}

FindFramesBySensor(db, s) == {r \in db.frames : r.sensor = s}

FindFramesInTimeRange(db, from, to) == {r \in db.frames : r.time >= from /\ r.time < to}

FindObservations(db) == db.observations

FindObservationsByScene(db, s) == {r \in db.observations : r.scene = s}

FindObservationsByFrame(db, f) == {r \in db.observations : r.frame = f}

FindObservationsBySession(db, s) == {r \in db.observations : r.session = s}

FindObservationsBySensor(db, s) == {r \in db.observations : r.sensor = s}

FindObservationsInTimeRange(db, from, to) ==
    {r \in db.observations : r.time >= from /\ r.time < to}

-----------------------------------------------------------------------------
(* Artifacts, feature sets and trajectories. *)

FindArtifactByHash(db, h) == {r \in db.artifacts : r.hash = h}

FindArtifactById(db, i) == {r \in db.artifacts : r.id = i}

FindArtifactsByType(db, t) == {r \in db.artifacts : r.type = t}

\* INSERT OR REPLACE: a row of the same id or of the same content gives way.
UpsertArtifact(db, row) ==
    [db EXCEPT !.artifacts = {r \in @ : r.id # row.id /\ r.hash # row.hash} \cup {row}]

InsertFeatureSet(db, row) == [db EXCEPT !.features = @ \cup {row}]

FindFeatureSetsByFrame(db, f) == {r \in db.features : r.frame = f}

\* The join with frames leaves out a feature set whose frame is gone.
FindFeatureSetsByScene(db, s) ==
    {r \in db.features : \E f \in FindFramesByScene(db, s) : f.id = r.frame}

AddTrajectory(db, row) == [db EXCEPT !.trajectories = @ \cup {row}]

FindTrajectoriesBySession(db, s) == {r \in db.trajectories : r.session = s}

FindTrajectoriesByScene(db, s) == {r \in db.trajectories : r.scene = s}

\* SceneQuery adds the project's open scene of a session.
SessionScene(db, s) == UNION {FindSceneByProject(db, r.project) : r \in FindCaptureSession(db, s)}

ArtifactHash(db, i) == {r.hash : r \in FindArtifactById(db, i)}

=============================================================================
