-------------------------- MODULE PhotoCloudProofs --------------------------
(***************************************************************************)
(* What the photo-to-cloud application promises, for every camera model,   *)
(* candidate GLB and set of installations and any number of commands: jobs *)
(* and installations are kept apart and cleaned up after, what a worker    *)
(* hands over is what it says it is, and what is not the program's own is  *)
(* left alone.  The last part is about its viewer windows (CloudSave).     *)
(***************************************************************************)
EXTENDS PhotoCloud, CloudSave, FiniteSetTheorems, SequenceTheorems,
        NaturalsInduction, WellFoundedInduction, TLAPS

-----------------------------------------------------------------------------
(* The inductive invariant. *)

Tasks == {"reconstruction", "mesh", "texture"}
Matching == {"cl_match", "cl_verify", "cl_restore", "cpu_match"}
Mapping == {"pairs", "map"}
Dense == {"undistort", "dense1", "dense2"}
Ending == {"finish", "succeeding"}
PcsOf(t) ==
    CASE t = "reconstruction" -> {"checks", "prepare", "extract", "match", "raising"}
                                 \cup Matching \cup Mapping \cup Dense \cup Ending
      [] t = "mesh" -> {"checks", "poisson", "metadata", "inspect", "report",
                        "publish_report", "publish_mesh", "leaving", "raising"}
      [] t = "texture" -> {"checks", "interface", "texturer", "embed", "inspect_glb",
                           "publish_glb", "leaving", "raising"}
      [] OTHER -> {}

Pcs == {"exited"} \cup PcsOf("reconstruction") \cup PcsOf("mesh") \cup PcsOf("texture")
Glbs == {NoGlb} \cup {Embedded(c) : c \in Candidates}
WorkerRecord ==
    [task : Tasks \cup {"none"}, mode : Modes, pc : Pcs, code : {0, 1, 130, 143},
     error : {"none", "cancelled", "failed"}, told : BOOLEAN,
     model : CameraModels \cup {NoModel}, glb : Glbs]

Paths == [openmvs : {"", "user", "default", "legacy"}, colmap : {"", "user", "default"}]
Profiles == [openmvs : {"", "user", "default", "legacy"}, colmap : {"", "user", "default"}, mode : Modes]
Event ==
    [kind : {"done"}, value : {0, 1, 130, 143}]
    \cup [kind : {"installed", "install_failed"}, value : Engines]
    \cup [kind : {"configured"}, value : Profiles]
    \cup [kind : {"config_failed"}, value : {0}]

\* What the two type invariants leave out.
Typed ==
    /\ WindowTypeOK /\ WorkerTypeOK
    /\ worker \in WorkerRecord /\ cancelFile \in BOOLEAN
    /\ events \in Seq(Event) /\ detecting \in {NoFields} \cup Paths

\* The window holds the one worker there is, under its task; no job begins while an
\* installation is under way, a file dialog is open or the window is gone.
Held ==
    /\ process => task = worker.task /\ worker.task # "none"
    /\ ~process => worker = NoWorker
    /\ window = "destroyed" => ~process
    /\ process => installing = "none"
    /\ dialog \in {"mesh", "texture"} => ~process /\ installing = "none"
    /\ installer # "idle" => installing # "none"

\* An event says what still holds when the window reads it.
EventHolds(e) ==
    /\ e.kind = "done" => process /\ ~Alive /\ e.value = worker.code
    /\ e.kind \in {"installed", "install_failed"} => installing = e.value /\ installer = "idle"
    /\ e.kind = "installed" => engine[e.value] = "whole"
    /\ e.kind = "configured" =>
          /\ \A x \in Engines : e.value[x] = "default" => engine[x] = "whole"
          /\ e.value.mode = "dense-opencl" => e.value.colmap # ""
          /\ e.value.mode = "dense-cpu" => e.value.openmvs # ""
          /\ e.value.mode # "dense-amd"
SameKind(d, e) ==
    \/ d.kind = "done" /\ e.kind = "done"
    \/ d.kind \in {"installed", "install_failed"} /\ e.kind \in {"installed", "install_failed"}
Announced ==
    /\ \A i \in DOMAIN events : EventHolds(events[i])
    /\ \A i, j \in DOMAIN events : SameKind(events[i], events[j]) => i = j

\* Where a worker is in the function of its task, and where its external program is.
Placed ==
    /\ worker.pc \in {"exited"} \cup PcsOf(worker.task)
    /\ program # "none" => worker.pc \in ExternalStages
    /\ worker.pc = "raising" => worker.error # "none"
    /\ worker.error = "cancelled" \/ worker.told => cancelFile

\* Temporary files have an owner that will remove them.
Owned ==
    /\ temporary \cap {"partial", "reportPartial"} # {} => worker.task = "mesh"
    /\ "workspace" \in temporary =>
          worker.task = "texture" /\ worker.pc \notin {"exited", "checks"}
    /\ At("mesh", "publish_mesh") => outputs["meshReport"] = "ours"

\* The copy of the database is an empty one and there only while COLMAP-CL may have to
\* be undone; until then nobody else has written matches.
Copied ==
    /\ saved # {"none"} =>
          /\ saved = {} /\ worker.task = "reconstruction"
          /\ worker.pc \in Matching \cup {"raising"}
    /\ worker.task = "reconstruction" =>
          /\ worker.pc \in Matching => saved = {}
          /\ worker.pc \in {"checks", "prepare", "extract", "match", "cpu_match"} => matches = {}
          /\ worker.pc \in {"cl_match", "cl_verify"} => matches \subseteq {"gpu"}
          /\ worker.pc \in Mapping \cup Dense \cup Ending => matches # {"cpu", "gpu"}

\* What the report and the clouds are by where the reconstruction is.
Accepted(m) == m.registered >= 3 /\ 2 * m.registered >= m.inputs /\ m.error <= 8
Delivered ==
    IF worker.mode = "sparse-cpu" THEN "sparse" \in clouds
    ELSE "dense" \in clouds /\ Accepted(worker.model)
Reported ==
    worker.task = "reconstruction" =>
        /\ worker.pc = "checks" => report = "none"
        /\ worker.pc \notin {"checks", "raising", "exited"} => report = "running"
        /\ worker.pc = "raising" => report = "running" \/ (report = "torn" /\ saved = {"none"})
        /\ worker.pc \in Dense => worker.mode # "sparse-cpu" /\ Accepted(worker.model)
        /\ worker.pc \in Ending => Delivered
        /\ worker.pc = "exited" =>
              \/ worker.code = 0 /\ report = "succeeded" /\ Delivered
              \/ worker.code = 130 /\ cancelFile /\ report \in {"none", "cancelled"}
              \/ /\ worker.code = 1
                 /\ report \in {"none", "torn"} \/ (report = "failed" /\ ~worker.told)

\* inspect_glb is given what embed_external_glb_images packed.
Packed ==
    At("texture", "inspect_glb") =>
        \E c \in Candidates : Embeddable(c) /\ worker.glb = Embedded(c)

\* No half installation, and none that is named before it is whole.
Whole ==
    \A e \in Engines : engine[e] # "partial" /\ (fields[e] = "default" => engine[e] = "whole")

PhotoInv == Typed /\ Held /\ Announced /\ Placed /\ Owned /\ Copied /\ Reported /\ Packed /\ Whole

-----------------------------------------------------------------------------
(* What a step of a worker does to its record. *)

\* What no step of a worker touches.
Same == worker'.task = worker.task /\ worker'.mode = worker.mode

\* A worker goes to its next stage.
LEMMA GotoEffect ==
    ASSUME worker \in WorkerRecord, NEW pc \in Pcs, Goto(pc)
    PROVE  /\ worker' \in WorkerRecord /\ Same /\ worker'.pc = pc
           /\ worker'.error = worker.error /\ worker'.told = worker.told
           /\ worker'.code = worker.code /\ worker'.model = worker.model
           /\ worker'.glb = worker.glb
  BY DEF Goto, WorkerRecord, Same

\* A worker leaves.
LEMMA ExitEffect ==
    ASSUME worker \in WorkerRecord, NEW code \in {0, 1, 130, 143}, Exit(code)
    PROVE  /\ worker' \in WorkerRecord /\ Same /\ worker'.pc = "exited" /\ worker'.code = code
           /\ worker'.error = worker.error /\ worker'.told = worker.told
           /\ worker'.model = worker.model
  <1>1. worker' \in WorkerRecord
    BY DEF Exit, WorkerRecord, Pcs
  <1> QED
    BY <1>1 DEF Exit, WorkerRecord, Same

\* An exception is raised.
LEMMA RaiseEffect ==
    ASSUME worker \in WorkerRecord, cancelFile \in BOOLEAN,
           NEW error \in {"cancelled", "failed"}, Raise(error)
    PROVE  /\ worker' \in WorkerRecord /\ Same /\ worker'.pc = "raising"
           /\ worker'.error = error /\ worker'.told = cancelFile
           /\ worker'.code = worker.code /\ worker'.model = worker.model
  <1>1. worker' \in WorkerRecord
    BY DEF Raise, WorkerRecord, Pcs, PcsOf
  <1> QED
    BY <1>1 DEF Raise, WorkerRecord, Same

\* The parts of the invariant that are about the worker and its files.
AtWork == /\ WorkerTypeOK /\ worker \in WorkerRecord /\ cancelFile \in BOOLEAN
          /\ Placed /\ Owned /\ Copied /\ Reported /\ Packed

\* What the window relies on while the worker is at work.
Worked == AtWork' /\ Alive /\ worker'.task = worker.task /\ cancelFile' = cancelFile

\* Effects of the three moves, and the names of places, for the steps below.
LEMMA PlaceNames ==
    /\ PcsOf("reconstruction") \subseteq Pcs /\ PcsOf("mesh") \subseteq Pcs
    /\ PcsOf("texture") \subseteq Pcs /\ "exited" \in Pcs
    /\ PcsOf("reconstruction") = {"checks", "prepare", "extract", "match", "raising"}
                                 \cup Matching \cup Mapping \cup Dense \cup Ending
    /\ PcsOf("mesh") = {"checks", "poisson", "metadata", "inspect", "report",
                        "publish_report", "publish_mesh", "leaving", "raising"}
    /\ PcsOf("texture") = {"checks", "interface", "texturer", "embed", "inspect_glb",
                           "publish_glb", "leaving", "raising"}
    /\ PcsOf("none") = {}
  BY DEF Pcs, PcsOf

-----------------------------------------------------------------------------
(* Steps of the workers. *)


\* The steps of the mesher.
LEMMA MeshWorks == ASSUME AtWork, MeshStep PROVE Worked
  <1> USE DEF AtWork, Worked, At, Alive
  <1>1. CASE BuildMesh
    BY <1>1, GotoEffect, ExitEffect, RaiseEffect, PlaceNames
    DEF BuildMesh, Absent, Publish, Without, resultVars, outputVars, WorkerTypeOK, Placed, Owned, Copied, Reported, Packed, ExternalStages, Same, WorkerRecord
  <1>2. CASE Poisson
    BY <1>2, GotoEffect, ExitEffect, RaiseEffect, PlaceNames
    DEF Poisson, resultVars, outputVars, WorkerTypeOK, Placed, Owned, Copied, Reported, Packed, ExternalStages, Same, WorkerRecord
  <1>3. CASE PreserveMetadata
    <2>1. Goto("inspect") /\ temporary' \in {temporary, temporary \cup {"metadata"}}
      BY <1>3 DEF PreserveMetadata
    <2> QED
      BY <1>3, <2>1, GotoEffect, PlaceNames
      DEF PreserveMetadata, resultVars, outputVars, WorkerTypeOK, Placed, Owned, Copied, Reported, Packed,
          ExternalStages, Same, WorkerRecord
  <1>4. CASE InspectMesh
    BY <1>4, GotoEffect, ExitEffect, RaiseEffect, PlaceNames
    DEF InspectMesh, resultVars, outputVars, WorkerTypeOK, Placed, Owned, Copied, Reported, Packed, ExternalStages, Same, WorkerRecord
  <1>5. CASE WriteReport
    BY <1>5, GotoEffect, ExitEffect, RaiseEffect, PlaceNames
    DEF WriteReport, resultVars, outputVars, WorkerTypeOK, Placed, Owned, Copied, Reported, Packed, ExternalStages, Same, WorkerRecord
  <1>6. CASE PublishReport
    BY <1>6, GotoEffect, ExitEffect, RaiseEffect, PlaceNames
    DEF PublishReport, Absent, Publish, Without, resultVars, outputVars, WorkerTypeOK, Placed, Owned, Copied, Reported, Packed, ExternalStages, Same, WorkerRecord
  <1>7. CASE PublishMesh
    BY <1>7, GotoEffect, ExitEffect, RaiseEffect, PlaceNames
    DEF PublishMesh, Absent, Publish, Without, resultVars, outputVars, WorkerTypeOK, Placed, Owned, Copied, Reported, Packed, ExternalStages, Same, WorkerRecord
  <1>8. CASE LeaveMesh
    BY <1>8, GotoEffect, ExitEffect, RaiseEffect, PlaceNames
    DEF LeaveMesh, resultVars, outputVars, WorkerTypeOK, Placed, Owned, Copied, Reported, Packed, ExternalStages, Same, WorkerRecord
  <1> QED
    BY <1>1, <1>2, <1>3, <1>4, <1>5, <1>6, <1>7, <1>8 DEF MeshStep

\* The steps of the texturer.
LEMMA TextureWorks == ASSUME AtWork, TextureStep PROVE Worked
  <1> USE DEF AtWork, Worked, At, Alive
  <1>1. CASE BuildTexturedModel
    <2>1. CASE /\ ~cancelFile /\ Absent("glb")
               /\ temporary' = temporary \cup {"workspace"} /\ Goto("interface")
      BY <1>1, <2>1, GotoEffect, PlaceNames
      DEF BuildTexturedModel, resultVars, outputVars, WorkerTypeOK, Placed, Owned, Copied, Reported, Packed,
          ExternalStages, Same, WorkerRecord
    <2>2. CASE Exit(IF cancelFile THEN 130 ELSE 1) /\ UNCHANGED temporary
      BY <1>1, <2>2, ExitEffect, PlaceNames
      DEF BuildTexturedModel, resultVars, outputVars, WorkerTypeOK, Placed, Owned, Copied, Reported, Packed,
          ExternalStages, Same, WorkerRecord
    <2> QED
      BY <1>1, <2>1, <2>2 DEF BuildTexturedModel
  <1>2. CASE EmbedImages
    <2>0. /\ At("texture", "embed")
          /\ UNCHANGED <<cancelFile, program, resultVars, outputVars>>
      BY <1>2 DEF EmbedImages
    <2>1. ASSUME NEW c \in Candidates, Embeddable(c),
                 worker' = [worker EXCEPT !.pc = "inspect_glb", !.glb = Embedded(c)]
          PROVE  Worked
      <3>1. /\ worker'.pc = "inspect_glb" /\ Same
            /\ worker'.glb = Embedded(c) /\ worker'.error = worker.error
            /\ worker'.told = worker.told /\ worker'.code = worker.code
        BY <2>1 DEF WorkerRecord, Same
      <3>2. Embedded(c) \in Glbs /\ "inspect_glb" \in Pcs
        BY PlaceNames DEF Glbs
      <3>3. worker' \in WorkerRecord
        <4> HIDE DEF Glbs, Pcs
        <4> QED
          BY <2>1, <3>2 DEF WorkerRecord
      <3>4. Packed'
        BY <2>1, <3>1 DEF Packed
      <3> QED
        BY <2>0, <2>1, <3>1, <3>3, <3>4, PlaceNames
        DEF resultVars, outputVars, WorkerTypeOK, Placed, Owned, Copied, Reported,
            ExternalStages, Same
    <2>2. CASE Raise("failed")
      BY <2>0, <2>2, RaiseEffect, PlaceNames
      DEF resultVars, outputVars, WorkerTypeOK, Placed, Owned, Copied, Reported, Packed,
          ExternalStages, Same, WorkerRecord
    <2> QED
      BY <1>2, <2>1, <2>2 DEF EmbedImages
  <1>3. CASE InspectGlb
    BY <1>3, GotoEffect, ExitEffect, RaiseEffect, PlaceNames
    DEF InspectGlb, resultVars, outputVars, WorkerTypeOK, Placed, Owned, Copied, Reported, Packed, ExternalStages, Same, WorkerRecord
  <1>4. CASE PublishGlb
    BY <1>4, GotoEffect, ExitEffect, RaiseEffect, PlaceNames
    DEF PublishGlb, Absent, Publish, resultVars, outputVars, WorkerTypeOK, Placed, Owned, Copied, Reported, Packed, ExternalStages, Same, WorkerRecord
  <1>5. CASE LeaveTexture
    BY <1>5, GotoEffect, ExitEffect, RaiseEffect, PlaceNames
    DEF LeaveTexture, resultVars, outputVars, WorkerTypeOK, Placed, Owned, Copied, Reported, Packed, ExternalStages, Same, WorkerRecord
  <1> QED
    BY <1>1, <1>2, <1>3, <1>4, <1>5 DEF TextureStep

\* The steps of the reconstruction.
LEMMA ReconstructionWorks == ASSUME AtWork, ReconstructionStep PROVE Worked
  <1> USE DEF AtWork, Worked, At, Alive
  <1>1. CASE Reconstruct
    BY <1>1, GotoEffect, ExitEffect, RaiseEffect, PlaceNames
    DEF Reconstruct, Stage, Matching, Mapping, Dense, Ending, resultVars, outputVars, WorkerTypeOK, Placed, Owned, Copied, Reported, Packed, ExternalStages, Same, WorkerRecord
  <1>2. CASE PrepareImages
    BY <1>2, GotoEffect, ExitEffect, RaiseEffect, PlaceNames
    DEF PrepareImages, Stage, Matching, Mapping, Dense, Ending, resultVars, outputVars, WorkerTypeOK, Placed, Owned, Copied, Reported, Packed, ExternalStages, Same, WorkerRecord
  <1>3. CASE ExtractFeatures
    BY <1>3, GotoEffect, ExitEffect, RaiseEffect, PlaceNames
    DEF ExtractFeatures, Stage, Matching, Mapping, Dense, Ending, resultVars, outputVars, WorkerTypeOK, Placed, Owned, Copied, Reported, Packed, ExternalStages, Same, WorkerRecord
  <1>4. CASE MatchOnCpu
    BY <1>4, GotoEffect, ExitEffect, RaiseEffect, PlaceNames
    DEF MatchOnCpu, Stage, Matching, Mapping, Dense, Ending, resultVars, outputVars, WorkerTypeOK, Placed, Owned, Copied, Reported, Packed, ExternalStages, Same, WorkerRecord
  <1>5. CASE CopyDatabase
    <2>1. CASE saved' = matches /\ Goto("cl_match")
      BY <1>5, <2>1, GotoEffect, PlaceNames
      DEF CopyDatabase, Matching, Mapping, Dense, Ending, resultVars, outputVars, WorkerTypeOK, Placed, Owned, Copied, Reported, Packed,
          ExternalStages, Same, WorkerRecord
    <2>2. CASE Raise("failed") /\ UNCHANGED saved
      BY <1>5, <2>2, RaiseEffect, PlaceNames
      DEF CopyDatabase, Matching, Mapping, Dense, Ending, resultVars, outputVars, WorkerTypeOK, Placed, Owned, Copied, Reported, Packed,
          ExternalStages, Same, WorkerRecord
    <2> QED
      BY <1>5, <2>1, <2>2 DEF CopyDatabase
  <1>6. CASE VerifyOpencl
    <2>1. CASE Goto("pairs") /\ saved' = {"none"} /\ UNCHANGED matches
      BY <1>6, <2>1, GotoEffect, PlaceNames
      DEF VerifyOpencl, Matching, Mapping, Dense, Ending, resultVars, outputVars, WorkerTypeOK, Placed, Owned, Copied, Reported, Packed,
          ExternalStages, Same, WorkerRecord
    <2>2. CASE Goto("cl_restore") /\ UNCHANGED <<matches, saved>>
      BY <1>6, <2>2, GotoEffect, PlaceNames
      DEF VerifyOpencl, Matching, Mapping, Dense, Ending, resultVars, outputVars, WorkerTypeOK, Placed, Owned, Copied, Reported, Packed,
          ExternalStages, Same, WorkerRecord
    <2> QED
      BY <1>6, <2>1, <2>2 DEF VerifyOpencl
  <1>7. CASE FallBack
    <2>1. /\ worker' \in WorkerRecord /\ Same /\ worker'.pc = "cpu_match"
          /\ worker'.error = "none" /\ worker'.told = worker.told /\ worker'.code = worker.code
          /\ worker'.glb = worker.glb
      BY <1>7 DEF FallBack, WorkerRecord, Same, Pcs, PcsOf, Matching
    <2>3. /\ worker.task = "reconstruction"
          /\ UNCHANGED <<cancelFile, program, report, clouds, outputVars>>
      BY <1>7 DEF FallBack
    <2>2. saved = {} /\ matches' = {} /\ saved' = {} /\ worker.pc \in {"cl_restore", "raising"}
      BY <1>7 DEF FallBack, RestoreDatabase, OpenclFails, Copied, Matching
    <2> QED
      BY <2>1, <2>2, <2>3, PlaceNames
      DEF Matching, Mapping, Dense, Ending, resultVars, outputVars, WorkerTypeOK, Placed, Owned, Copied, Reported, Packed,
          ExternalStages, Same, WorkerRecord
  <1>8. CASE CancelOpencl
    BY <1>8, GotoEffect, ExitEffect, RaiseEffect, PlaceNames
    DEF CancelOpencl, Matching, Mapping, Dense, Ending, OpenclFails, resultVars, outputVars, WorkerTypeOK, Placed, Owned, Copied, Reported, Packed, ExternalStages, Same, WorkerRecord
  <1>9. CASE MatchAfterOpencl
    BY <1>9, GotoEffect, ExitEffect, RaiseEffect, PlaceNames
    DEF MatchAfterOpencl, Stage, Matching, Mapping, Dense, Ending, resultVars, outputVars, WorkerTypeOK, Placed, Owned, Copied, Reported, Packed, ExternalStages, Same, WorkerRecord
  <1>10. CASE CountPairs
    BY <1>10, GotoEffect, ExitEffect, RaiseEffect, PlaceNames
    DEF CountPairs, Stage, Matching, Mapping, Dense, Ending, resultVars, outputVars, WorkerTypeOK, Placed, Owned, Copied, Reported, Packed, ExternalStages, Same, WorkerRecord
  <1>11. CASE MapCameras
    <2>0. /\ worker.task = "reconstruction" /\ worker.pc = "map" /\ saved = {"none"}
          /\ matches # {"cpu", "gpu"} /\ report = "running"
          /\ UNCHANGED <<cancelFile, program, report, matches, saved, outputVars>>
      BY <1>11 DEF MapCameras, Copied, Matching, Mapping, Reported
    <2>1. ASSUME NEW m \in CameraModels, ~cancelFile,
                 clouds' = IF m.points < 1 THEN clouds ELSE clouds \cup {"sparse"},
                 worker' = [worker EXCEPT !.model = m,
                  !.pc = IF m.points < 1 \/ (worker.mode # "sparse-cpu" /\ Rejected(m))
                         THEN "raising"
                         ELSE IF worker.mode = "sparse-cpu" THEN "finish" ELSE "undistort",
                  !.error = "failed"]
          PROVE  Worked
      <3>1. /\ worker' \in WorkerRecord /\ Same /\ worker'.model = m
            /\ worker'.error = "failed" /\ worker'.told = worker.told
            /\ worker'.code = worker.code /\ worker'.glb = worker.glb
            /\ worker'.pc \in {"raising", "finish", "undistort"}
        <4> DEFINE pc == IF m.points < 1 \/ (worker.mode # "sparse-cpu" /\ Rejected(m))
                         THEN "raising"
                         ELSE IF worker.mode = "sparse-cpu" THEN "finish" ELSE "undistort"
        <4>1. {"raising", "finish", "undistort"} \subseteq Pcs
          BY PlaceNames DEF Dense, Ending
        <4>2. pc \in {"raising", "finish", "undistort"} /\ pc \in Pcs
          BY <4>1
        <4>3. worker' = [worker EXCEPT !.model = m, !.pc = pc, !.error = "failed"]
          BY <2>1
        <4> HIDE DEF pc, Pcs
        <4> QED
          BY <4>2, <4>3 DEF WorkerRecord, Same
      <3>2. worker'.pc = "finish" => worker.mode = "sparse-cpu" /\ "sparse" \in clouds'
        BY <2>1 DEF WorkerRecord
      <3>3. worker'.pc = "undistort" => worker.mode # "sparse-cpu" /\ ~Rejected(m)
        BY <2>1 DEF WorkerRecord
      <3>4. ~Rejected(m) => Accepted(m)
        BY WorkerAssumption DEF Rejected, Accepted
      <3> HIDE DEF Rejected, Accepted
      <3> QED
        BY <2>0, <2>1, <3>1, <3>2, <3>3, <3>4, PlaceNames
        DEF Matching, Mapping, Dense, Ending, Delivered, resultVars, outputVars, WorkerTypeOK, Placed, Owned, Copied, Reported, Packed,
          ExternalStages, Same, WorkerRecord
    <2>2. CASE Raise("cancelled") /\ UNCHANGED clouds /\ cancelFile
      <3>1. /\ worker' \in WorkerRecord /\ Same /\ worker'.pc = "raising"
            /\ worker'.error = "cancelled" /\ worker'.told = cancelFile
            /\ worker'.code = worker.code
        BY <2>2, RaiseEffect
      <3> QED
        BY <2>0, <2>2, <3>1, PlaceNames
        DEF Matching, Mapping, Dense, Ending, resultVars, outputVars, WorkerTypeOK, Placed, Owned, Copied, Reported, Packed,
          ExternalStages, Same, WorkerRecord
    <2>3. CASE Raise("failed") /\ UNCHANGED clouds
      BY <2>0, <2>3, RaiseEffect, PlaceNames
      DEF Matching, Mapping, Dense, Ending, resultVars, outputVars, WorkerTypeOK, Placed, Owned, Copied, Reported, Packed,
          ExternalStages, Same, WorkerRecord
    <2> QED
      BY <1>11, <2>1, <2>2, <2>3 DEF MapCameras
  <1>12. CASE Undistort
    BY <1>12, GotoEffect, ExitEffect, RaiseEffect, PlaceNames
    DEF Undistort, Stage, Matching, Mapping, Dense, Ending, resultVars, outputVars, WorkerTypeOK, Placed, Owned, Copied, Reported, Packed, ExternalStages, Same, WorkerRecord
  <1>13. CASE Finish
    BY <1>13, GotoEffect, ExitEffect, RaiseEffect, PlaceNames
    DEF Finish, Stage, Matching, Mapping, Dense, Ending, Delivered, resultVars, outputVars, WorkerTypeOK, Placed, Owned, Copied, Reported, Packed, ExternalStages, Same, WorkerRecord
  <1>14. CASE Succeed
    BY <1>14, GotoEffect, ExitEffect, RaiseEffect, PlaceNames
    DEF Succeed, Matching, Mapping, Dense, Ending, Delivered, resultVars, outputVars, WorkerTypeOK, Placed, Owned, Copied, Reported, Packed, ExternalStages, Same, WorkerRecord
  <1>15. CASE Fail
    BY <1>15, GotoEffect, ExitEffect, RaiseEffect, PlaceNames
    DEF Fail, Matching, Mapping, Dense, Ending, Outcome, Delivered, resultVars, outputVars, WorkerTypeOK, Placed, Owned, Copied, Reported, Packed, ExternalStages, Same, WorkerRecord
  <1> QED
    BY <1>1, <1>2, <1>3, <1>4, <1>5, <1>6, <1>7, <1>8, <1>9, <1>10, <1>11, <1>12, <1>13, <1>14, <1>15 DEF ReconstructionStep

\* An external program: its launch, what it writes, its end, and the poll that stops it.
LEMMA ProgramWorks ==
    ASSUME AtWork, Launch \/ StopProgram \/ Reap \/ ProgramExits \/ ProgramWrites PROVE Worked
  <1> USE DEF AtWork, Worked, At, Alive
  <1>1. CASE Launch
    BY <1>1, RaiseEffect, PlaceNames
    DEF Launch, Matching, Mapping, Dense, Ending, resultVars, outputVars, WorkerTypeOK, Placed,
        Owned, Copied, Reported, Packed, ExternalStages, Same, WorkerRecord
  <1>2. CASE StopProgram
    <2>1. /\ worker.pc \in ExternalStages /\ program' = "none" /\ cancelFile /\ Raise("cancelled")
          /\ UNCHANGED <<cancelFile, resultVars, outputVars>>
      BY <1>2 DEF StopProgram, Placed
    <2> QED
      BY <2>1, RaiseEffect, PlaceNames
      DEF Matching, Mapping, Dense, Ending, resultVars, outputVars, WorkerTypeOK, Placed, Owned,
          Copied, Reported, Packed, ExternalStages, Same
  <1>3. CASE Reap
    <2>1. /\ worker.pc \in ExternalStages /\ program' = "none"
          /\ UNCHANGED <<cancelFile, report, matches, saved, outputVars>>
      BY <1>3 DEF Reap, Placed
    <2>2. CASE cancelFile /\ Raise("cancelled") /\ UNCHANGED clouds
      BY <2>1, <2>2, RaiseEffect, PlaceNames
      DEF Matching, Mapping, Dense, Ending, outputVars, WorkerTypeOK, Placed, Owned, Copied,
          Reported, Packed, ExternalStages, Same
    <2>3. CASE ~cancelFile /\ Raise("failed") /\ UNCHANGED clouds
      BY <2>1, <2>3, RaiseEffect, PlaceNames
      DEF Matching, Mapping, Dense, Ending, outputVars, WorkerTypeOK, Placed, Owned, Copied,
          Reported, Packed, ExternalStages, Same
    <2>4. CASE /\ Goto(NextStage[worker.pc])
               /\ clouds' = clouds \cup (IF worker.pc = "dense2" THEN {"dense"} ELSE {})
      <3>1. /\ NextStage["cl_match"] = "cl_verify" /\ NextStage["dense1"] = "dense2"
            /\ NextStage["dense2"] = "finish" /\ NextStage["interface"] = "texturer"
            /\ NextStage["texturer"] = "embed"
        BY DEF NextStage
      <3>2. NextStage[worker.pc] \in Pcs
        BY <2>1, <3>1, PlaceNames DEF ExternalStages, Matching, Dense, Ending
      <3>3. /\ worker' \in WorkerRecord /\ Same /\ worker'.pc = NextStage[worker.pc]
            /\ worker'.error = worker.error /\ worker'.told = worker.told
            /\ worker'.code = worker.code /\ worker'.model = worker.model
            /\ worker'.glb = worker.glb
        BY <2>4, <3>2, GotoEffect
      <3> QED
        BY <2>1, <2>4, <3>1, <3>3, PlaceNames
        DEF Matching, Mapping, Dense, Ending, outputVars, WorkerTypeOK, Placed, Owned, Copied,
            Reported, Packed, ExternalStages, Same, Delivered
    <2> QED
      BY <1>3, <2>2, <2>3, <2>4 DEF Reap
  <1>4. CASE ProgramExits
    BY <1>4
    DEF ProgramExits, resultVars, outputVars, WorkerTypeOK, Placed,
        Owned, Copied, Reported, Packed, ExternalStages, Delivered
  <1>5. CASE ProgramWrites
    BY <1>5
    DEF ProgramWrites, Matching, Mapping, Dense, Ending, outputVars, WorkerTypeOK, Placed,
        Owned, Copied, Reported, Packed, ExternalStages, Delivered
  <1> QED
    BY <1>1, <1>2, <1>3, <1>4, <1>5

\* Whatever a worker or its program does keeps the invariant; the window sees none of it.
LEMMA WorkKeeps == ASSUME PhotoInv, Work PROVE PhotoInv'
  <1>1. Worked
    <2>1. AtWork
      BY DEF PhotoInv, Typed, AtWork
    <2> QED
      BY <2>1, MeshWorks, TextureWorks, ReconstructionWorks, ProgramWorks DEF Work, WorkerStep
  <1>2. /\ UNCHANGED <<process, task, closing, installing, installer, detecting, timer>>
        /\ UNCHANGED <<events, dialog, enabled, fields, engine, window, commands>>
    BY DEF Work, appVars
  <1>3. Typed'
    <2> USE DEF PhotoInv, Typed, WindowTypeOK
    <2>1. WindowTypeOK'
      <3>1. (process \in BOOLEAN /\ closing \in BOOLEAN /\ timer \in BOOLEAN)'
        BY <1>2
      <3>2. (task \in {"none", "reconstruction", "mesh", "texture"})'
        BY <1>2
      <3>3. (installing \in Engines \cup {"none"})'
        BY <1>2
      <3>4. (installer \in {"idle", "checking", "staging", "renaming"})'
        BY <1>2
      <3>5. (dialog \in {"none", "mesh", "texture", "close"})'
        BY <1>2
      <3>6. (enabled \subseteq {"start", "mesh", "preview", "cancel", "install", "auto"})'
        BY <1>2
      <3>7. (fields \in [openmvs : {"", "user", "default", "legacy"}, colmap : {"", "user", "default"},
                  mode : Modes])'
        BY <1>2
      <3>8. (engine \in [Engines -> {"absent", "partial", "whole"}])'
        BY <1>2
      <3>9. (window \in {"open", "destroyed"} /\ commands \in 0..MaxCommands)'
        BY <1>2
      <3> QED
        BY <3>1, <3>2, <3>3, <3>4, <3>5, <3>6, <3>7, <3>8, <3>9
    <2>2. (events \in Seq(Event) /\ detecting \in {NoFields} \cup Paths)'
      BY <1>2 DEF PhotoInv, Typed
    <2> QED
      BY <1>1, <2>1, <2>2 DEF Typed, Worked, AtWork
  <1>4. process
    BY <1>1 DEF PhotoInv, Held, Worked, Alive, NoWorker
  <1>5. Held'
    BY <1>1, <1>2, <1>4 DEF PhotoInv, Held, Worked
  <1>6. Announced'
    BY <1>1, <1>2 DEF PhotoInv, Announced, EventHolds, Worked
  <1>7. Whole'
    BY <1>2 DEF PhotoInv, Whole
  <1> QED
    BY <1>1, <1>3, <1>5, <1>6, <1>7 DEF PhotoInv, Worked, AtWork

-----------------------------------------------------------------------------
(* The queue of events. *)

\* The queue stays as it is.
LEMMA QueueKept ==
    ASSUME Typed, Announced, events' = events,
           \A x \in Event : EventHolds(x) => EventHolds(x)'
    PROVE  Announced'
  <1>1. \A i \in DOMAIN events : events[i] \in Event
    BY DEF Typed
  <1> QED
    BY <1>1 DEF Announced

\* A thread appends an event the queue holds no other of.
LEMMA QueueGrows ==
    ASSUME Typed, Announced, NEW e \in Event, events' = Append(events, e), EventHolds(e)',
           \A x \in Event : EventHolds(x) => EventHolds(x)',
           \A i \in DOMAIN events : ~SameKind(events[i], e)
    PROVE  Announced' /\ events' \in Seq(Event)
  <1>1. \A i \in DOMAIN events : events[i] \in Event
    BY DEF Typed
  <1>2. /\ events' \in Seq(Event) /\ Len(events') = Len(events) + 1
        /\ \A i \in DOMAIN events : events'[i] = events[i]
        /\ events'[Len(events) + 1] = e
    BY DEF Typed
  <1>3. /\ DOMAIN events' = DOMAIN events \cup {Len(events) + 1}
        /\ Len(events) + 1 \notin DOMAIN events
    BY <1>2 DEF Typed
  <1>4. \A x \in Event : (\E i \in DOMAIN events' : x = events'[i]) => EventHolds(x)'
    BY <1>2, <1>3 DEF Announced
  <1>5. \A i, j \in DOMAIN events' : SameKind(events'[i], events'[j]) => i = j
    <2> SUFFICES ASSUME NEW i \in DOMAIN events', NEW j \in DOMAIN events',
                        SameKind(events'[i], events'[j])
                 PROVE  i = j
      OBVIOUS
    <2>1. SameKind(events'[j], events'[i])
      BY DEF SameKind
    <2>2. CASE i \in DOMAIN events /\ j \in DOMAIN events
      BY <1>2, <2>2 DEF Announced
    <2>3. CASE i \in DOMAIN events /\ j \notin DOMAIN events
      BY <1>2, <1>3, <2>3
    <2>4. CASE i \notin DOMAIN events /\ j \in DOMAIN events
      BY <1>2, <1>3, <2>1, <2>4
    <2>5. CASE i \notin DOMAIN events /\ j \notin DOMAIN events
      BY <1>3, <2>5
    <2> QED
      BY <2>2, <2>3, <2>4, <2>5
  <1>6. (\A i \in DOMAIN events : EventHolds(events[i]))'
    <2>1. \A i \in DOMAIN events' : events'[i] \in Event
      BY <1>2
    <2> QED
      BY <1>4, <2>1 DEF EventHolds
  <1> QED
    BY <1>2, <1>5, <1>6 DEF Announced

\* read_events takes the first event off the queue.
LEMMA QueueShrinks ==
    ASSUME Typed, Announced, events # <<>>, events' = Tail(events),
           \A x \in Event : EventHolds(x) /\ ~SameKind(Head(events), x) => EventHolds(x)'
    PROVE  Announced' /\ events' \in Seq(Event)
  <1>1. \A i \in DOMAIN events : events[i] \in Event
    BY DEF Typed
  <1>2. /\ events' \in Seq(Event) /\ DOMAIN events' = 1..Len(events) - 1
        /\ Len(events) \in Nat /\ DOMAIN events = 1..Len(events)
        /\ \A i \in DOMAIN events' : events'[i] = events[i + 1]
        /\ Head(events) = events[1] /\ Len(events) >= 1
    BY DEF Typed
  <1>3. \A i \in DOMAIN events' : i + 1 \in DOMAIN events /\ 1 \in DOMAIN events /\ i + 1 # 1
    BY <1>2
  <1>4. \A x \in Event : (\E i \in DOMAIN events' : x = events'[i]) => EventHolds(x)'
    <2> SUFFICES ASSUME NEW i \in DOMAIN events', NEW x \in Event, x = events'[i]
                 PROVE  EventHolds(x)'
      OBVIOUS
    <2>1. ~SameKind(Head(events), events[i + 1])
      BY <1>2, <1>3 DEF Announced
    <2>2. EventHolds(x)
      BY <1>2, <1>3 DEF Announced
    <2> QED
      BY <1>2, <2>1, <2>2
  <1>5. \A i, j \in DOMAIN events' : SameKind(events'[i], events'[j]) => i = j
    BY <1>2, <1>3 DEF Announced
  <1>6. (\A i \in DOMAIN events : EventHolds(events[i]))'
    <2>1. \A i \in DOMAIN events' : events'[i] \in Event
      BY <1>2
    <2> QED
      BY <1>4, <2>1 DEF EventHolds
  <1> QED
    BY <1>2, <1>5, <1>6 DEF Announced

-----------------------------------------------------------------------------
(* The window: jobs. *)

\* Nothing changes for a worker that is left alone.
LEMMA LeftAlone == ASSUME AtWork, UNCHANGED workVars PROVE AtWork'
  BY DEF AtWork, workVars, WorkerTypeOK, Placed, Owned, Copied, Reported, Packed, Delivered, At

\* With no job there is no program, no copy and nothing temporary of a job.
LEMMA NoJob ==
    ASSUME PhotoInv, ~process
    PROVE  /\ worker = NoWorker /\ program = "none" /\ saved = {"none"} /\ ~Alive
           /\ temporary \cap {"partial", "reportPartial"} = {} /\ "workspace" \notin temporary
           /\ \A i \in DOMAIN events : events[i].kind # "done"
  <1>1. worker = NoWorker /\ worker.task = "none" /\ worker.pc = "exited" /\ ~Alive
    BY DEF PhotoInv, Held, NoWorker, Alive
  <1>2. program = "none" /\ saved = {"none"}
    BY <1>1 DEF PhotoInv, Placed, Copied, ExternalStages
  <1>3. temporary \cap {"partial", "reportPartial"} = {} /\ "workspace" \notin temporary
    BY <1>1 DEF PhotoInv, Owned
  <1>4. \A i \in DOMAIN events : events[i].kind # "done"
    BY DEF PhotoInv, Announced, EventHolds
  <1> QED
    BY <1>1, <1>2, <1>3, <1>4

\* A command is counted.
LEMMA CommandCounted == ASSUME Typed, Command PROVE commands' \in 0..MaxCommands
  <1>1. commands \in 0..MaxCommands
    BY DEF Typed, WindowTypeOK
  <1>2. commands < MaxCommands /\ commands' = commands + 1
    BY DEF Command
  <1> QED
    BY <1>1, <1>2, CommandsAssumption

\* A new worker of a task.
LEMMA StartedWorker ==
    ASSUME NEW t \in Tasks, NEW mode \in Modes
    PROVE  /\ Started(t, mode) \in WorkerRecord
           /\ Started(t, mode).task = t /\ Started(t, mode).pc = "checks"
           /\ Started(t, mode).error = "none" /\ ~Started(t, mode).told
           /\ Started(t, mode).code = 0 /\ Started(t, mode).mode = mode
  BY PlaceNames DEF Started, NoWorker, WorkerRecord, Modes, Tasks, Glbs

\* A worker starts where nothing of an earlier job is left.
LEMMA StartWorks ==
    ASSUME PhotoInv, ~process, NEW t \in Tasks, NEW mode \in Modes, StartJob(t, mode),
           UNCHANGED <<program, outputVars>>,
           \/ UNCHANGED resultVars /\ t # "reconstruction"
           \/ report' = "none" /\ clouds' = {} /\ matches' = {} /\ saved' = {"none"}
    PROVE  AtWork'
  <1>1. worker' = Started(t, mode) /\ cancelFile' = FALSE
    BY DEF StartJob
  <1>2. /\ program' = "none" /\ saved' = {"none"}
        /\ temporary' \cap {"partial", "reportPartial"} = {} /\ "workspace" \notin temporary'
    BY NoJob DEF outputVars, resultVars
  <1>3. /\ worker' \in WorkerRecord /\ worker'.task = t /\ worker'.pc = "checks"
        /\ worker'.error = "none" /\ ~worker'.told /\ worker'.code = 0
        /\ worker'.mode = mode
    <2> DEFINE new == Started(t, mode)
    <2>1. /\ new \in WorkerRecord /\ new.task = t /\ new.pc = "checks"
          /\ new.error = "none" /\ ~new.told /\ new.code = 0 /\ new.mode = mode
      BY StartedWorker
    <2>2. worker' = new
      BY <1>1
    <2> HIDE DEF new
    <2> QED
      BY <2>1, <2>2
  <1>4. t = "reconstruction" => report' = "none" /\ matches' = {}
    OBVIOUS
  <1>5. /\ report' \in {"none", "running", "succeeded", "failed", "cancelled", "torn"}
        /\ clouds' \subseteq {"sparse", "dense"} /\ matches' \subseteq {"cpu", "gpu"}
    BY DEF PhotoInv, Typed, WorkerTypeOK, resultVars
  <1>6. (worker \in WorkerRecord /\ WorkerTypeOK /\ cancelFile \in BOOLEAN)'
    <2>1. outputs' = outputs /\ temporary' = temporary
      BY DEF outputVars
    <2>2. cancelFile' \in BOOLEAN
      BY <1>1
    <2> QED
      BY <1>2, <1>3, <1>5, <2>1, <2>2 DEF PhotoInv, Typed, WorkerTypeOK, Tasks
  <1>7. Placed'
    BY <1>2, <1>3, PlaceNames DEF Placed, Tasks
  <1>8. (Owned /\ Packed)'
    BY <1>2, <1>3 DEF Owned, Packed, At
  <1>9. (Copied /\ Reported)'
    BY <1>2, <1>3, <1>4 DEF Copied, Reported, Matching, Mapping, Dense, Ending
  <1> QED
    BY <1>6, <1>7, <1>8, <1>9 DEF AtWork

\* The parts about the worker, the parts about the window, and back.
LEMMA Halves == PhotoInv <=> Typed /\ Held /\ Announced /\ AtWork /\ Whole
  BY DEF PhotoInv, Typed, AtWork

\* The types of the window's variables, one by one.
LEMMA TypesHold ==
    ASSUME AtWork', process' \in BOOLEAN, closing' \in BOOLEAN, timer' \in BOOLEAN,
           task' \in Tasks \cup {"none"}, installing' \in Engines \cup {"none"},
           installer' \in {"idle", "checking", "staging", "renaming"},
           dialog' \in {"none", "mesh", "texture", "close"},
           enabled' \subseteq {"start", "mesh", "preview", "cancel", "install", "auto"},
           fields' \in Profiles, engine' \in [Engines -> {"absent", "partial", "whole"}],
           window' \in {"open", "destroyed"}, commands' \in 0..MaxCommands,
           events' \in Seq(Event), detecting' \in {NoFields} \cup Paths
    PROVE  Typed'
  BY DEF Typed, WindowTypeOK, AtWork, Tasks, Profiles

\* And the same for the state a step begins in.
LEMMA TypesHeld ==
    ASSUME PhotoInv
    PROVE  /\ AtWork /\ process \in BOOLEAN /\ closing \in BOOLEAN /\ timer \in BOOLEAN
           /\ task \in Tasks \cup {"none"} /\ installing \in Engines \cup {"none"}
           /\ installer \in {"idle", "checking", "staging", "renaming"}
           /\ dialog \in {"none", "mesh", "texture", "close"}
           /\ enabled \subseteq {"start", "mesh", "preview", "cancel", "install", "auto"}
           /\ fields \in Profiles /\ engine \in [Engines -> {"absent", "partial", "whole"}]
           /\ window \in {"open", "destroyed"} /\ commands \in 0..MaxCommands
           /\ events \in Seq(Event) /\ detecting \in {NoFields} \cup Paths
  BY Halves DEF PhotoInv, Typed, WindowTypeOK, Tasks, Profiles

\* start.
LEMMA StartKeeps == ASSUME PhotoInv, Start PROVE PhotoInv'
  <1>1. /\ ~process /\ installing = "none" /\ dialog = "none" /\ window = "open"
        /\ UNCHANGED <<program, outputVars>>
        /\ report' = "none" /\ clouds' = {} /\ matches' = {} /\ saved' = {"none"}
    BY DEF Start, Command, Busy
  <1>2. UNCHANGED <<installing, installer, detecting, timer, events, dialog, fields, engine, window>>
    BY DEF Start, threadVars
  <1>3. commands' \in 0..MaxCommands
    BY CommandCounted DEF Start, PhotoInv
  <1>4. fields.mode \in Modes
    BY DEF PhotoInv, Typed, WindowTypeOK
  <1>5. AtWork'
    <2>1. CASE StartJob("reconstruction", fields.mode)
      BY <1>1, <1>4, <2>1, StartWorks DEF Tasks
    <2>2. CASE UNCHANGED <<worker, cancelFile>>
      BY <1>1, <2>2, NoJob, Halves
      DEF AtWork, WorkerTypeOK, Placed, Owned, Copied, Reported, Packed, At, NoWorker, outputVars
    <2> QED
      BY <2>1, <2>2 DEF Start
  <1>6. Typed'
    BY <1>2, <1>3, <1>5, TypesHeld, TypesHold DEF Start, StartJob, Tasks
  <1>7. Held'
    <2>1. CASE StartJob("reconstruction", fields.mode)
      <3>1. worker'.task = "reconstruction" /\ task' = "reconstruction" /\ process'
        BY <1>4, <2>1, StartedWorker DEF StartJob, Tasks
      <3> QED
        BY <1>1, <1>2, <3>1 DEF PhotoInv, Held
    <2>2. CASE UNCHANGED <<worker, process>>
      BY <1>1, <1>2, <2>2 DEF PhotoInv, Held
    <2> QED
      BY <2>1, <2>2 DEF Start
  <1>8. Announced'
    <2>1. \A x \in Event : x.kind # "done" /\ EventHolds(x) => EventHolds(x)'
      BY <1>2 DEF EventHolds
    <2> QED
      BY <1>1, <1>2, <2>1, NoJob DEF PhotoInv, Typed, Announced
  <1>9. Whole'
    BY <1>2 DEF PhotoInv, Whole
  <1> QED
    BY <1>5, <1>6, <1>7, <1>8, <1>9, Halves DEF Typed, AtWork, PhotoInv

\* What the value of an event is by its kind.
LEMMA EventTypes ==
    /\ \A x \in Event : x.kind \in {"installed", "install_failed"} => x.value \in Engines
    /\ \A x \in Event : x.kind = "configured" => x.value \in Profiles
  BY DEF Event

\* An event that says the same of other states still holds.
LEMMA EventsHold ==
    ASSUME process' = process, worker' = worker, installing' = installing,
           installer' = installer, engine' = engine
    PROVE  \A x \in Event : EventHolds(x) => EventHolds(x)'
  BY DEF EventHolds, Alive

\* build_mesh, texture_mesh ask for file names.
LEMMA AskKeeps == ASSUME PhotoInv, NEW t \in {"mesh", "texture"}, AskFiles(t) PROVE PhotoInv'
  <1>1. /\ ~process /\ installing = "none" /\ window = "open" /\ dialog' = t
        /\ UNCHANGED workVars
        /\ UNCHANGED <<process, task, closing, installing, installer, detecting, timer>>
        /\ UNCHANGED <<events, enabled, fields, engine, window>>
    BY DEF AskFiles, Command, Busy, jobVars, threadVars
  <1>2. commands' \in 0..MaxCommands
    BY CommandCounted DEF AskFiles, PhotoInv
  <1>3. AtWork'
    BY <1>1, LeftAlone, Halves
  <1>4. Typed'
    BY <1>1, <1>2, <1>3, TypesHeld, TypesHold
  <1>5. Held'
    BY <1>1 DEF PhotoInv, Held, workVars
  <1>6. Announced'
    BY <1>1, EventsHold, QueueKept DEF PhotoInv, workVars
  <1>7. Whole'
    BY <1>1 DEF PhotoInv, Whole
  <1> QED
    BY <1>3, <1>4, <1>5, <1>6, <1>7 DEF PhotoInv, AtWork

\* The dialogs return; whatever ran meanwhile, no job and no installation began.
LEMMA ChosenKeeps == ASSUME PhotoInv, FilesChosen PROVE PhotoInv'
  <1>1. /\ ~process /\ installing = "none" /\ window = "open" /\ dialog' = "none"
        /\ dialog \in {"mesh", "texture"}
    BY DEF FilesChosen, PhotoInv, Held
  <1>2. /\ UNCHANGED <<program, resultVars, outputVars>>
        /\ UNCHANGED <<installing, installer, detecting, timer>>
        /\ UNCHANGED <<events, fields, engine, window, commands>>
    BY DEF FilesChosen, threadVars
  <1>3. AtWork'
    <2>1. CASE StartJob(dialog, "sparse-cpu")
      <3>1. "sparse-cpu" \in Modes /\ dialog \in Tasks /\ dialog # "reconstruction"
        BY <1>1 DEF Modes, Tasks
      <3> QED
        BY <1>1, <1>2, <2>1, <3>1, StartWorks
    <2>2. CASE UNCHANGED <<worker, cancelFile>>
      BY <1>2, <2>2, LeftAlone, Halves DEF workVars, resultVars, outputVars
    <2> QED
      BY <2>1, <2>2 DEF FilesChosen
  <1>4. Typed'
    BY <1>1, <1>2, <1>3, TypesHeld, TypesHold DEF FilesChosen, StartJob, jobVars, Tasks
  <1>5. Held'
    <2>1. CASE StartJob(dialog, "sparse-cpu")
      <3>1. worker'.task = dialog /\ task' = dialog /\ process' /\ dialog # "none"
        <4>1. "sparse-cpu" \in Modes /\ dialog \in Tasks
          BY <1>1 DEF Modes, Tasks
        <4> QED
          BY <1>1, <2>1, <4>1, StartedWorker DEF StartJob
      <3> QED
        BY <1>1, <1>2, <3>1 DEF PhotoInv, Held
    <2>2. CASE UNCHANGED <<worker, jobVars>>
      BY <1>1, <1>2, <2>2 DEF PhotoInv, Held, jobVars
    <2> QED
      BY <2>1, <2>2 DEF FilesChosen
  <1>6. Announced'
    <2>1. \A x \in Event : x.kind # "done" /\ EventHolds(x) => EventHolds(x)'
      BY <1>2 DEF EventHolds
    <2> QED
      BY <1>1, <1>2, <2>1, NoJob DEF PhotoInv, Typed, Announced
  <1>7. Whole'
    BY <1>2 DEF PhotoInv, Whole
  <1> QED
    BY <1>3, <1>4, <1>5, <1>6, <1>7 DEF PhotoInv, AtWork

\* What a request to stop changes: the mesher is gone, or the cancel file is there.
LEMMA StopWorks ==
    ASSUME PhotoInv, process, RequestStop, UNCHANGED <<program, resultVars, outputVars>>
    PROVE  /\ AtWork' /\ worker'.task = worker.task /\ (~Alive => worker' = worker)
           /\ enabled' \subseteq enabled
  <1>1. AtWork /\ task = worker.task
    BY Halves DEF PhotoInv, Held
  <1>2. CASE worker.task = "mesh"
    <2>1. UNCHANGED cancelFile /\ enabled' \subseteq enabled
      BY <1>1, <1>2 DEF RequestStop
    <2>2. CASE Alive
      <3>1. worker' = [worker EXCEPT !.pc = "exited", !.code = 143]
        BY <1>1, <1>2, <2>2 DEF RequestStop
      <3>2. /\ worker' \in WorkerRecord /\ Same /\ worker'.pc = "exited" /\ worker'.code = 143
            /\ worker'.error = worker.error /\ worker'.told = worker.told
        BY <1>1, <3>1, PlaceNames DEF AtWork, WorkerRecord, Same
      <3>3. program = "none" /\ saved = {"none"} /\ "workspace" \notin temporary
        BY <1>1, <1>2, PlaceNames DEF AtWork, Placed, Owned, Copied, ExternalStages
      <3> QED
        BY <1>1, <1>2, <2>1, <2>2, <3>2, <3>3
        DEF AtWork, WorkerTypeOK, Placed, Owned, Copied, Reported, Packed, At, Same,
            resultVars, outputVars
    <2>3. CASE ~Alive
      <3>1. UNCHANGED workVars
        BY <1>1, <1>2, <2>1, <2>3 DEF RequestStop, workVars, resultVars, outputVars
      <3> QED
        BY <1>1, <2>1, <3>1, LeftAlone DEF workVars
    <2> QED
      BY <2>2, <2>3
  <1>3. CASE worker.task # "mesh"
    <2>1. worker' = worker /\ enabled' \subseteq enabled /\ (cancelFile' = TRUE \/ cancelFile' = cancelFile)
      BY <1>1, <1>3 DEF RequestStop
    <2>2. cancelFile' \in BOOLEAN /\ (cancelFile => cancelFile')
      <3>1. cancelFile \in BOOLEAN
        BY <1>1 DEF AtWork
      <3>2. CASE cancelFile' = TRUE
        BY <3>2
      <3>3. CASE cancelFile' = cancelFile
        BY <3>1, <3>3
      <3> QED
        BY <2>1, <3>2, <3>3
    <2>3. /\ UNCHANGED <<worker, program, report, clouds, matches, saved>>
          /\ UNCHANGED <<outputs, temporary>>
      BY <2>1 DEF resultVars, outputVars
    <2>4. (WorkerTypeOK /\ worker \in WorkerRecord /\ Owned /\ Copied /\ Packed)'
      BY <1>1, <2>3 DEF AtWork, WorkerTypeOK, Owned, Copied, Packed, At
    <2>5. (Placed /\ Reported)'
      BY <1>1, <2>2, <2>3 DEF AtWork, Placed, Reported, Delivered
    <2> QED
      BY <1>3, <2>1, <2>2, <2>4, <2>5 DEF AtWork
  <1> QED
    BY <1>2, <1>3

\* What a request to stop leaves as it was, from the cancel button or the close dialog.
LEMMA StopKeeps ==
    ASSUME PhotoInv, process, RequestStop, UNCHANGED <<program, resultVars, outputVars>>,
           UNCHANGED <<process, task, installing, installer, detecting, timer>>,
           UNCHANGED <<events, fields, engine, window>>,
           closing' \in BOOLEAN, dialog' \in {"none", "close"}, commands' \in 0..MaxCommands
    PROVE  PhotoInv'
  <1>1. AtWork' /\ worker'.task = worker.task /\ enabled' \subseteq enabled
    BY StopWorks
  <1>2. Typed'
    BY <1>1, TypesHeld, TypesHold
  <1>3. Held'
    BY <1>1 DEF PhotoInv, Held
  <1>4. Announced'
    <2>1. \A x \in Event : EventHolds(x) => EventHolds(x)'
      BY StopWorks DEF EventHolds, Alive
    <2> QED
      BY <2>1, QueueKept DEF PhotoInv
  <1>5. Whole'
    BY DEF PhotoInv, Whole
  <1> QED
    BY <1>1, <1>2, <1>3, <1>4, <1>5 DEF PhotoInv, AtWork

\* cancel.
LEMMA CancelKeeps == ASSUME PhotoInv, Cancel PROVE PhotoInv'
  <1>1. /\ process /\ RequestStop /\ UNCHANGED <<program, resultVars, outputVars>>
        /\ UNCHANGED <<process, task, closing, installing, installer, detecting, timer>>
        /\ UNCHANGED <<events, dialog, fields, engine, window>> /\ dialog = "none"
    BY DEF Cancel, Command, threadVars
  <1>2. commands' \in 0..MaxCommands
    BY CommandCounted DEF Cancel, PhotoInv
  <1>3. closing' \in BOOLEAN /\ dialog' \in {"none", "close"}
    BY <1>1, TypesHeld
  <1> QED
    BY <1>1, <1>2, <1>3, StopKeeps

\* The answer to the question of close.
LEMMA CloseAnsweredKeeps == ASSUME PhotoInv, CloseAnswered PROVE PhotoInv'
  <1>1. /\ UNCHANGED <<program, resultVars, outputVars>> /\ dialog' = "none"
        /\ UNCHANGED <<process, task, installing, installer, detecting, timer>>
        /\ UNCHANGED <<events, fields, engine, window, commands>>
    BY DEF CloseAnswered, threadVars
  <1>2. closing' \in BOOLEAN /\ commands' \in 0..MaxCommands
    BY <1>1, TypesHeld DEF CloseAnswered
  <1>3. CASE process /\ RequestStop
    BY <1>1, <1>2, <1>3, StopKeeps
  <1>4. CASE UNCHANGED <<enabled, worker, cancelFile>>
    <2>1. AtWork'
      BY <1>1, <1>4, LeftAlone, Halves DEF workVars, resultVars, outputVars
    <2>2. Typed'
      BY <1>1, <1>2, <1>4, <2>1, TypesHeld, TypesHold
    <2>3. Held'
      BY <1>1, <1>4 DEF PhotoInv, Held
    <2>4. Announced'
      BY <1>1, <1>4, EventsHold, QueueKept DEF PhotoInv
    <2>5. Whole'
      BY <1>1 DEF PhotoInv, Whole
    <2> QED
      BY <2>1, <2>2, <2>3, <2>4, <2>5 DEF PhotoInv, AtWork
  <1> QED
    BY <1>3, <1>4 DEF CloseAnswered

\* consume tells of the end of the worker, once.
LEMMA ConsumeKeeps == ASSUME PhotoInv, Consume PROVE PhotoInv'
  <1> PICK e : e = [kind |-> "done", value |-> worker.code]
    OBVIOUS
  <1>1. /\ process /\ ~Alive /\ events' = Append(events, e)
        /\ UNCHANGED workVars
        /\ UNCHANGED <<process, task, closing, installing, installer, detecting, timer>>
        /\ UNCHANGED <<dialog, enabled, fields, engine, window, commands>>
        /\ \A i \in DOMAIN events : events[i].kind # "done"
    BY DEF Consume, jobVars, threadVars
  <1>2. e \in Event /\ e.kind = "done" /\ e.value = worker.code
    BY TypesHeld DEF AtWork, WorkerTypeOK, Event
  <1>3. UNCHANGED worker
    BY <1>1 DEF workVars
  <1>4. EventHolds(e)'
    BY <1>1, <1>2, <1>3 DEF EventHolds, Alive
  <1>5. \A i \in DOMAIN events : ~SameKind(events[i], e)
    BY <1>1, <1>2 DEF SameKind
  <1>6. Announced' /\ events' \in Seq(Event)
    BY <1>1, <1>2, <1>3, <1>4, <1>5, EventsHold, QueueGrows DEF PhotoInv
  <1>7. AtWork'
    BY <1>1, LeftAlone, Halves
  <1>8. Typed'
    BY <1>1, <1>6, <1>7, TypesHeld, TypesHold
  <1>9. Held' /\ Whole'
    BY <1>1, <1>3 DEF PhotoInv, Held, Whole
  <1> QED
    BY <1>6, <1>7, <1>8, <1>9 DEF PhotoInv, AtWork

\* read_events on the end of a job.
LEMMA DoneKeeps ==
    ASSUME PhotoInv, events # <<>>, window = "open", events' = Tail(events), commands' = commands,
           Head(events).kind = "done", NEW code, Done(code)
    PROVE  PhotoInv'
  <1>1. process /\ ~Alive /\ task = worker.task
    <2>1. 1 \in DOMAIN events /\ Head(events) = events[1]
      BY TypesHeld
    <2> QED
      BY <2>1 DEF PhotoInv, Held, Announced, EventHolds
  <1>2. /\ CleanPartials /\ process' = FALSE /\ task' = "none" /\ worker' = NoWorker
        /\ cancelFile' = FALSE /\ window' \in {window, "destroyed"}
        /\ UNCHANGED <<program, report, clouds, matches, saved, outputs>>
        /\ UNCHANGED <<closing, installing, installer, detecting, timer>>
        /\ UNCHANGED <<dialog, fields, engine>>
        /\ enabled' \subseteq {"start", "mesh", "preview", "cancel", "install", "auto"}
    BY DEF Done, threadVars, resultVars
  <1>3. /\ temporary' \subseteq temporary /\ temporary' \cap {"partial", "reportPartial"} = {}
        /\ program = "none" /\ saved = {"none"} /\ "workspace" \notin temporary
    BY <1>1, <1>2 DEF PhotoInv, Placed, Owned, Copied, CleanPartials, Alive, ExternalStages, Matching
  <1>4. /\ NoWorker \in WorkerRecord /\ NoWorker.task = "none" /\ NoWorker.pc = "exited"
        /\ NoWorker.error = "none" /\ ~NoWorker.told /\ NoWorker.code = 0
        /\ NoWorker.mode \in Modes
    BY PlaceNames DEF NoWorker, WorkerRecord, Modes, Glbs
  <1>5. AtWork'
    <2>1. (WorkerTypeOK /\ worker \in WorkerRecord /\ cancelFile \in BOOLEAN)'
      BY <1>2, <1>3, <1>4, TypesHeld DEF AtWork, WorkerTypeOK
    <2>2. (Placed /\ Owned /\ Copied /\ Reported /\ Packed)'
      BY <1>2, <1>3, <1>4 DEF Placed, Owned, Copied, Reported, Packed, At
    <2> QED
      BY <2>1, <2>2 DEF AtWork
  <1>6. Announced' /\ events' \in Seq(Event)
    <2>1. \A x \in Event : EventHolds(x) /\ ~SameKind(Head(events), x) => EventHolds(x)'
      BY <1>2 DEF EventHolds, SameKind
    <2> QED
      BY <2>1, QueueShrinks DEF PhotoInv
  <1>7. Typed'
    BY <1>2, <1>5, <1>6, TypesHeld, TypesHold
  <1>8. Held' /\ Whole'
    BY <1>1, <1>2 DEF PhotoInv, Held, Whole
  <1> QED
    BY <1>5, <1>6, <1>7, <1>8 DEF PhotoInv, AtWork

-----------------------------------------------------------------------------
(* The window: installation, detection, fields and other programs. *)

\* The button that installs an engine.
LEMMA InstallKeeps == ASSUME PhotoInv, NEW e \in Engines, Install(e) PROVE PhotoInv'
  <1>1. /\ ~process /\ installing = "none" /\ dialog = "none"
        /\ installing' = e /\ installer' = "checking" /\ enabled' \subseteq enabled
        /\ UNCHANGED workVars
        /\ UNCHANGED <<process, task, closing, detecting, timer>>
        /\ UNCHANGED <<events, dialog, fields, engine, window>>
    BY DEF Install, Command, Busy, jobVars
  <1>2. commands' \in 0..MaxCommands
    BY CommandCounted DEF Install, PhotoInv
  <1>3. AtWork' /\ worker' = worker
    BY <1>1, LeftAlone, Halves DEF workVars
  <1>4. Typed'
    BY <1>1, <1>2, <1>3, TypesHeld, TypesHold
  <1>5. Held' /\ Whole'
    BY <1>1, <1>3 DEF PhotoInv, Held, Whole, Engines
  <1>6. Announced'
    <2>1. \A i \in DOMAIN events : events[i].kind \notin {"installed", "install_failed"}
      <3>1. \A i \in DOMAIN events : events[i] \in Event /\ EventHolds(events[i])
        BY TypesHeld DEF PhotoInv, Announced
      <3>2. "none" \notin Engines
        BY DEF Engines
      <3> QED
        BY <1>1, <3>1, <3>2, EventTypes DEF EventHolds
    <2>2. \A x \in Event : x.kind \notin {"installed", "install_failed"} /\ EventHolds(x)
                             => EventHolds(x)'
      BY <1>1, <1>3 DEF EventHolds, Alive
    <2> QED
      BY <1>1, <2>1, <2>2, TypesHeld DEF PhotoInv, Announced
  <1> QED
    BY <1>3, <1>4, <1>5, <1>6 DEF PhotoInv, AtWork

\* What every step of the install thread leaves alone.
LEMMA ThreadKeeps ==
    ASSUME PhotoInv, InstallStep, installing # "none", Announced',
           installer' \in {"idle", "checking", "staging", "renaming"},
           installing' = installing, events' \in Seq(Event),
           engine' \in [Engines -> {"absent", "partial", "whole"}],
           \A e \in Engines : engine'[e] \in {engine[e], "whole"}
    PROVE  PhotoInv'
  <1>1. /\ UNCHANGED workVars /\ UNCHANGED <<process, task, closing, detecting, timer>>
        /\ UNCHANGED <<dialog, enabled, fields, window, commands>>
    BY DEF InstallStep, jobVars
  <1>2. AtWork' /\ worker' = worker
    BY <1>1, LeftAlone, Halves DEF workVars
  <1>3. Typed'
    BY <1>1, <1>2, TypesHeld, TypesHold
  <1>4. Held'
    BY <1>1, <1>2 DEF PhotoInv, Held
  <1>5. Whole'
    BY <1>1 DEF PhotoInv, Whole
  <1> QED
    BY <1>2, <1>3, <1>4, <1>5 DEF PhotoInv, AtWork

\* The end of an installation is announced once, and a good one names a whole engine.
LEMMA InstalledAnnounced ==
    ASSUME PhotoInv, NEW ok \in BOOLEAN, Installed(ok), installer # "idle",
           ok => engine'[installing] = "whole", installing' = installing,
           \A x \in Engines : engine'[x] \in {engine[x], "whole"},
           worker' = worker, process' = process
    PROVE  Announced' /\ events' \in Seq(Event) /\ installer' = "idle"
  <1> PICK e : e = [kind |-> IF ok THEN "installed" ELSE "install_failed", value |-> installing]
    OBVIOUS
  <1>1. installing \in Engines
    BY TypesHeld DEF PhotoInv, Held, Engines
  <1>2. /\ e \in Event /\ e.kind \in {"installed", "install_failed"} /\ e.value = installing
        /\ e.kind = "installed" => ok
    BY <1>1 DEF Event
  <1>3. events' = Append(events, e) /\ installer' = "idle"
    BY DEF Installed
  <1>4. \A i \in DOMAIN events : ~SameKind(events[i], e)
    BY <1>2 DEF PhotoInv, Announced, EventHolds, SameKind
  <1>5. EventHolds(e)'
    BY <1>2, <1>3 DEF EventHolds
  <1>6. \A x \in Event : EventHolds(x) => EventHolds(x)'
    <2>1. \A x \in Event : EventHolds(x) => x.kind \notin {"installed", "install_failed"}
      BY DEF EventHolds
    <2> QED
      BY <2>1, TypesHeld DEF EventHolds, Alive, Engines
  <1> QED
    BY <1>2, <1>3, <1>4, <1>5, <1>6, QueueGrows DEF PhotoInv

\* The install thread.
LEMMA InstallStepKeeps == ASSUME PhotoInv, InstallStep PROVE PhotoInv'
  <1>1. UNCHANGED <<process, worker>> /\ installing' = installing
    BY DEF InstallStep, jobVars, workVars, Download, Unpack, Rename
  <1>2. installer # "idle" /\ installing # "none" /\ installing \in Engines
    BY TypesHeld DEF InstallStep, Download, Unpack, Rename, PhotoInv, Held, Engines
  <1>3. ASSUME engine' = engine, NEW ok \in BOOLEAN, Installed(ok),
               ok => engine[installing] = "whole"
        PROVE  PhotoInv'
    <2>1. Announced' /\ events' \in Seq(Event) /\ installer' = "idle"
      BY <1>1, <1>2, <1>3, InstalledAnnounced
    <2> QED
      BY <1>1, <1>2, <1>3, <2>1, TypesHeld, ThreadKeeps
  <1>4. ASSUME engine' = engine, events' = events, installer' \in {"staging", "renaming"},
               installer \in {"checking", "staging"}
        PROVE  PhotoInv'
    <2>1. \A x \in Event : EventHolds(x) => EventHolds(x)'
      BY <1>1, <1>4 DEF EventHolds, Alive
    <2>2. Announced' /\ events' \in Seq(Event)
      BY <1>4, <2>1, QueueKept, TypesHeld DEF PhotoInv
    <2> QED
      BY <1>1, <1>2, <1>4, <2>2, TypesHeld, ThreadKeeps
  <1>5. CASE Download
    <2>1. engine' = engine
      BY <1>5 DEF Download
    <2>2. CASE Installed(engine[installing] = "whole")
      BY <1>3, <2>1, <2>2
    <2>3. CASE Installed(FALSE)
      BY <1>3, <2>1, <2>3
    <2>4. CASE installer' = "staging" /\ UNCHANGED events
      BY <1>4, <1>5, <2>1, <2>4 DEF Download
    <2> QED
      BY <1>5, <2>2, <2>3, <2>4 DEF Download
  <1>6. CASE Unpack
    <2>1. CASE installer' = "renaming" /\ UNCHANGED events
      BY <1>4, <1>6, <2>1 DEF Unpack
    <2>2. CASE Installed(FALSE)
      BY <1>3, <1>6, <2>2 DEF Unpack
    <2> QED
      BY <1>6, <2>1, <2>2 DEF Unpack
  <1>7. CASE Rename
    <2>1. CASE engine' = [engine EXCEPT ![installing] = "whole"] /\ Installed(TRUE)
      <3>1. /\ engine' \in [Engines -> {"absent", "partial", "whole"}]
            /\ engine'[installing] = "whole"
            /\ \A x \in Engines : engine'[x] \in {engine[x], "whole"}
        BY <1>2, <2>1, TypesHeld
      <3>2. Announced' /\ events' \in Seq(Event) /\ installer' = "idle"
        BY <1>1, <1>2, <2>1, <3>1, InstalledAnnounced
      <3> QED
        BY <1>1, <1>2, <3>1, <3>2, ThreadKeeps
    <2>2. CASE Installed(FALSE) /\ UNCHANGED engine
      BY <1>3, <2>2
    <2> QED
      BY <1>7, <2>1, <2>2 DEF Rename
  <1> QED
    BY <1>5, <1>6, <1>7 DEF InstallStep

\* The first event of the queue, and what it says.
LEMMA FirstEvent ==
    ASSUME PhotoInv, events # <<>>
    PROVE  Head(events) \in Event /\ EventHolds(Head(events))
  <1>1. 1 \in DOMAIN events /\ Head(events) = events[1] /\ events[1] \in Event
    BY TypesHeld
  <1> QED
    BY <1>1 DEF PhotoInv, Announced

\* read_events on the end of an installation.
LEMMA InstallEndsKeeps ==
    ASSUME PhotoInv, events # <<>>, window = "open", events' = Tail(events), commands' = commands,
           NEW ok \in BOOLEAN, NEW e, e = Head(events).value,
           Head(events).kind = IF ok THEN "installed" ELSE "install_failed", InstallEnds(e, ok)
    PROVE  PhotoInv'
  <1>1. /\ UNCHANGED workVars
        /\ UNCHANGED <<process, task, closing, installer, detecting>>
        /\ UNCHANGED <<dialog, engine, window>>
        /\ installing' = "none" /\ enabled' = enabled \cup {"start", "install", "auto"}
        /\ timer' = (timer \/ ok)
        /\ fields' = IF ok THEN [fields EXCEPT ![e] = "default"] ELSE fields
    BY DEF InstallEnds, jobVars
  <1>2. e \in Engines /\ installing = e /\ installer = "idle" /\ (ok => engine[e] = "whole")
    BY FirstEvent, EventTypes DEF EventHolds
  <1>3. AtWork' /\ worker' = worker
    BY <1>1, LeftAlone, Halves DEF workVars
  <1>4. Announced' /\ events' \in Seq(Event)
    <2>1. \A x \in Event : EventHolds(x) /\ ~SameKind(Head(events), x) => EventHolds(x)'
      BY <1>1, <1>3 DEF EventHolds, SameKind, Alive
    <2> QED
      BY <2>1, QueueShrinks DEF PhotoInv
  <1>5. /\ fields' \in Profiles
        /\ \A x \in Engines : fields'[x] = "default" => engine[x] = "whole"
    <2>1. fields \in Profiles /\ \A x \in Engines : fields[x] = "default" => engine[x] = "whole"
      BY TypesHeld DEF PhotoInv, Whole
    <2> QED
      BY <1>1, <1>2, <2>1 DEF Profiles, Engines
  <1>6. Typed'
    <2>1. timer' \in BOOLEAN
      BY <1>1, TypesHeld
    <2> QED
      BY <1>1, <1>3, <1>4, <1>5, <2>1, TypesHeld, TypesHold
  <1>7. Held'
    BY <1>1, <1>2, <1>3 DEF PhotoInv, Held
  <1>8. Whole'
    BY <1>1, <1>5 DEF PhotoInv, Whole
  <1> QED
    BY <1>3, <1>4, <1>6, <1>7, <1>8 DEF PhotoInv, AtWork

\* What the two ends of a detection have in common.
LEMMA DetectionEnds ==
    ASSUME PhotoInv, events # <<>>, window = "open", events' = Tail(events), commands' = commands,
           UNCHANGED <<jobVars, workVars, installing, installer, timer, dialog, engine, window>>,
           detecting' = NoFields, enabled' = enabled \cup {"start", "install", "auto"},
           fields' \in Profiles,
           \A x \in Engines : fields'[x] = "default" => engine[x] = "whole"
    PROVE  PhotoInv'
  <1>1. /\ UNCHANGED <<process, task, closing, installer, timer, installing>>
        /\ UNCHANGED <<dialog, engine, window>>
    BY DEF jobVars
  <1>2. AtWork' /\ worker' = worker
    BY LeftAlone, Halves DEF workVars
  <1>3. Announced' /\ events' \in Seq(Event)
    <2>1. \A x \in Event : EventHolds(x) /\ ~SameKind(Head(events), x) => EventHolds(x)'
      BY <1>1, <1>2, EventsHold
    <2> QED
      BY <2>1, QueueShrinks DEF PhotoInv
  <1>4. Typed'
    BY <1>1, <1>2, <1>3, TypesHeld, TypesHold
  <1>5. Held' /\ Whole'
    BY <1>1, <1>2 DEF PhotoInv, Held, Whole
  <1> QED
    BY <1>2, <1>3, <1>4, <1>5 DEF PhotoInv, AtWork

\* read_events on the end of a detection.
LEMMA ConfiguredKeeps ==
    ASSUME PhotoInv, events # <<>>, window = "open", events' = Tail(events), commands' = commands,
           Head(events).kind = "configured", NEW p, p = Head(events).value, Configured(p)
    PROVE  PhotoInv'
  <1>1. p \in Profiles /\ \A x \in Engines : p[x] = "default" => engine[x] = "whole"
    BY FirstEvent, EventTypes DEF EventHolds
  <1>2. fields \in Profiles /\ \A x \in Engines : fields[x] = "default" => engine[x] = "whole"
    BY TypesHeld DEF PhotoInv, Whole
  <1>3. fields' = [openmvs |-> Fill("openmvs", p), colmap |-> Fill("colmap", p), mode |-> p.mode]
    BY DEF Configured
  <1>4. /\ fields' \in Profiles
        /\ \A x \in Engines : fields'[x] = "default" => engine[x] = "whole"
    <2> DEFINE mvs == Fill("openmvs", p)
               cl == Fill("colmap", p)
    <2>1. /\ mvs \in {"", "user", "default", "legacy"} /\ cl \in {"", "user", "default"}
          /\ p.mode \in Modes
      BY <1>1, <1>2 DEF Profiles, Fill
    <2>2. /\ mvs = "default" => engine["openmvs"] = "whole"
          /\ cl = "default" => engine["colmap"] = "whole"
      BY <1>1, <1>2 DEF Fill, Engines
    <2>3. fields' = [openmvs |-> mvs, colmap |-> cl, mode |-> p.mode]
      BY <1>3
    <2> HIDE DEF mvs, cl
    <2>4. fields' \in Profiles
      BY <2>1, <2>3 DEF Profiles
    <2>5. fields'["openmvs"] = mvs /\ fields'["colmap"] = cl
      BY <2>3
    <2> QED
      BY <2>2, <2>4, <2>5 DEF Engines
  <1> QED
    BY <1>4, DetectionEnds DEF Configured
LEMMA ConfigFailedKeeps ==
    ASSUME PhotoInv, events # <<>>, window = "open", events' = Tail(events), commands' = commands,
           ConfigFailed
    PROVE  PhotoInv'
  <1>1. fields \in Profiles /\ \A x \in Engines : fields[x] = "default" => engine[x] = "whole"
    BY TypesHeld DEF PhotoInv, Whole
  <1>2. fields' = [fields EXCEPT !.mode = "sparse-cpu"]
    BY DEF ConfigFailed
  <1>3. /\ fields' \in Profiles
        /\ \A x \in Engines : fields'[x] = "default" => engine[x] = "whole"
    BY <1>1, <1>2 DEF Profiles, Engines, Modes
  <1> QED
    BY <1>3, DetectionEnds DEF ConfigFailed

\* read_events.
LEMMA ReadEventKeeps == ASSUME PhotoInv, ReadEvent PROVE PhotoInv'
  <1>1. /\ events # <<>> /\ window = "open" /\ events' = Tail(events) /\ commands' = commands
    BY DEF ReadEvent
  <1>2. PICK v : v = Head(events).value
    OBVIOUS
  <1>3. CASE Head(events).kind = "done" /\ Done(v)
    BY <1>1, <1>3, DoneKeeps
  <1>4. CASE Head(events).kind = "installed" /\ InstallEnds(v, TRUE)
    BY <1>1, <1>2, <1>4, InstallEndsKeeps
  <1>5. CASE Head(events).kind = "install_failed" /\ InstallEnds(v, FALSE)
    BY <1>1, <1>2, <1>5, InstallEndsKeeps
  <1>6. CASE Head(events).kind = "configured" /\ Configured(v)
    BY <1>1, <1>2, <1>6, ConfiguredKeeps
  <1>7. CASE ConfigFailed
    BY <1>1, <1>7, ConfigFailedKeeps
  <1> QED
    BY <1>2, <1>3, <1>4, <1>5, <1>6, <1>7 DEF ReadEvent

\* auto_configure takes the two paths along.
LEMMA AutoKeeps == ASSUME PhotoInv, AutoConfigure PROVE PhotoInv'
  <1>1. /\ UNCHANGED workVars
        /\ UNCHANGED <<process, task, closing, installing, installer>>
        /\ UNCHANGED <<events, dialog, fields, engine, window>>
        /\ timer' \in {timer, FALSE}
    BY DEF AutoConfigure, jobVars
  <1>2. commands' \in 0..MaxCommands
    BY CommandCounted, TypesHeld DEF AutoConfigure, PhotoInv
  <1>3. AtWork' /\ worker' = worker
    BY <1>1, LeftAlone, Halves DEF workVars
  <1>4. /\ detecting' \in {NoFields} \cup Paths
        /\ enabled' \subseteq {"start", "mesh", "preview", "cancel", "install", "auto"}
    <2>1. [openmvs |-> fields.openmvs, colmap |-> fields.colmap] \in Paths
      BY TypesHeld DEF Paths, Profiles
    <2>2. Configure
      BY DEF AutoConfigure
    <2> QED
      BY <2>1, <2>2, TypesHeld DEF Configure
  <1>5. Typed'
    <2>1. timer' \in BOOLEAN
      BY TypesHeld DEF AutoConfigure
    <2> QED
      BY <1>1, <1>2, <1>3, <1>4, <2>1, TypesHeld, TypesHold
  <1>6. Held' /\ Whole'
    BY <1>1, <1>3 DEF PhotoInv, Held, Whole
  <1>7. Announced'
    BY <1>1, <1>3, EventsHold, QueueKept DEF PhotoInv
  <1> QED
    BY <1>3, <1>5, <1>6, <1>7 DEF PhotoInv, AtWork

\* The detection thread.
LEMMA DetectKeeps == ASSUME PhotoInv, Detect PROVE PhotoInv'
  <1>1. /\ UNCHANGED workVars
        /\ UNCHANGED <<process, task, closing, installing, installer, detecting, timer>>
        /\ UNCHANGED <<dialog, enabled, fields, engine, window, commands>>
        /\ Detecting
    BY DEF Detect, jobVars, threadVars
  <1>2. AtWork' /\ worker' = worker
    BY <1>1, LeftAlone, Halves DEF workVars
  <1>3. PICK e \in Event : events' = Append(events, e) /\ EventHolds(e)
                           /\ e.kind \in {"configured", "config_failed"}
    <2>1. ASSUME NEW mvs \in Resolved("openmvs"), NEW cl \in Resolved("colmap"),
                 NEW verified \in BOOLEAN, NEW p,
                 p = [openmvs |-> mvs, colmap |-> cl,
                      mode |-> RecommendMode(verified /\ cl # "", cl, mvs)],
                 events' = Append(events, [kind |-> "configured", value |-> p])
          PROVE  \E e \in Event : events' = Append(events, e) /\ EventHolds(e)
                                  /\ e.kind \in {"configured", "config_failed"}
      <3> DEFINE e == [kind |-> "configured", value |-> p]
      <3>1. /\ p \in Profiles
            /\ \A x \in Engines : p[x] = "default" => engine[x] = "whole"
            /\ p.mode = "dense-opencl" => p.colmap # ""
            /\ p.mode = "dense-cpu" => p.openmvs # ""
            /\ p.mode # "dense-amd"
        <4> DEFINE m == RecommendMode(verified /\ cl # "", cl, mvs)
        <4>1. detecting \in Paths
          BY <1>1, TypesHeld DEF Detecting
        <4>2. /\ mvs \in {"", "user", "default", "legacy"}
              /\ mvs = "default" => engine["openmvs"] = "whole"
          BY <2>1, <4>1 DEF Resolved, Paths
        <4>3. /\ cl \in {"", "user", "default"}
              /\ cl = "default" => engine["colmap"] = "whole"
          BY <2>1, <4>1 DEF Resolved, Paths
        <4>4. /\ m \in Modes /\ m # "dense-amd"
              /\ m = "dense-opencl" => cl # ""
              /\ m = "dense-cpu" => mvs # ""
          BY DEF RecommendMode, Modes
        <4>5. p = [openmvs |-> mvs, colmap |-> cl, mode |-> m]
          BY <2>1
        <4> HIDE DEF m
        <4>6. p \in Profiles
          BY <4>2, <4>3, <4>4, <4>5 DEF Profiles
        <4>7. p["openmvs"] = mvs /\ p["colmap"] = cl /\ p["mode"] = m
          BY <4>5
        <4> QED
          BY <4>2, <4>3, <4>4, <4>6, <4>7 DEF Engines
      <3>2. e \in Event /\ EventHolds(e)
        BY <3>1 DEF Event, EventHolds
      <3> QED
        BY <2>1, <3>1, <3>2
    <2>2. ASSUME events' = Append(events, [kind |-> "config_failed", value |-> 0])
          PROVE  \E e \in Event : events' = Append(events, e) /\ EventHolds(e)
                                  /\ e.kind \in {"configured", "config_failed"}
      <3> DEFINE e == [kind |-> "config_failed", value |-> 0]
      <3>1. e \in Event /\ EventHolds(e)
        BY DEF Event, EventHolds
      <3> QED
        BY <2>2, <3>1
    <2> QED
      BY <2>1, <2>2 DEF Detect
  <1>4. Announced' /\ events' \in Seq(Event)
    <2>1. \A i \in DOMAIN events : ~SameKind(events[i], e)
      BY <1>3 DEF SameKind
    <2>2. \A x \in Event : EventHolds(x) => EventHolds(x)'
      BY <1>1, <1>2, EventsHold
    <2> QED
      BY <1>3, <2>1, <2>2, QueueGrows DEF PhotoInv
  <1>5. Typed'
    BY <1>1, <1>2, <1>4, TypesHeld, TypesHold
  <1>6. Held' /\ Whole'
    BY <1>1, <1>2 DEF PhotoInv, Held, Whole
  <1> QED
    BY <1>2, <1>4, <1>5, <1>6 DEF PhotoInv, AtWork

\* The user edits a field.
LEMMA EditKeeps == ASSUME PhotoInv, EditField PROVE PhotoInv'
  <1>1. /\ UNCHANGED workVars
        /\ UNCHANGED <<process, task, closing, installing, installer, detecting, timer>>
        /\ UNCHANGED <<events, dialog, enabled, engine, window>>
    BY DEF EditField, jobVars, threadVars
  <1>2. commands' \in 0..MaxCommands
    BY CommandCounted DEF EditField, PhotoInv
  <1>3. AtWork' /\ worker' = worker
    BY <1>1, LeftAlone, Halves DEF workVars
  <1>4. fields' \in Profiles /\ \A x \in Engines : fields'[x] = "default" => engine[x] = "whole"
    <2>1. fields \in Profiles /\ \A x \in Engines : fields[x] = "default" => engine[x] = "whole"
      BY TypesHeld DEF PhotoInv, Whole
    <2>2. ASSUME NEW e \in Engines, NEW path \in {"", "user"}, fields' = [fields EXCEPT ![e] = path]
          PROVE  fields' \in Profiles /\ \A x \in Engines : fields'[x] = "default" => engine[x] = "whole"
      BY <2>1, <2>2 DEF Profiles, Engines
    <2>3. ASSUME NEW m \in UserModes, fields' = [fields EXCEPT !.mode = m]
          PROVE  fields' \in Profiles /\ \A x \in Engines : fields'[x] = "default" => engine[x] = "whole"
      <3>1. m \in Modes
        BY CommandsAssumption
      <3> QED
        BY <2>1, <2>3, <3>1 DEF Profiles, Engines
    <2> QED
      BY <2>2, <2>3 DEF EditField
  <1>5. Typed'
    BY <1>1, <1>2, <1>3, <1>4, TypesHeld, TypesHold
  <1>6. Held' /\ Whole'
    BY <1>1, <1>3, <1>4 DEF PhotoInv, Held, Whole
  <1>7. Announced'
    BY <1>1, <1>3, EventsHold, QueueKept DEF PhotoInv
  <1> QED
    BY <1>3, <1>5, <1>6, <1>7 DEF PhotoInv, AtWork

\* close.
LEMMA CloseKeeps == ASSUME PhotoInv, Close PROVE PhotoInv'
  <1>1. /\ UNCHANGED workVars
        /\ UNCHANGED <<process, task, closing, installing, installer, detecting, timer>>
        /\ UNCHANGED <<events, enabled, fields, engine>>
        /\ dialog' \in {"none", "close"} /\ window' \in {window, "destroyed"}
        /\ window' = "destroyed" => window = "destroyed" \/ ~process
    BY DEF Close, Command, jobVars, threadVars
  <1>2. commands' \in 0..MaxCommands
    BY CommandCounted DEF Close, PhotoInv
  <1>3. AtWork' /\ worker' = worker
    BY <1>1, LeftAlone, Halves DEF workVars
  <1>4. Typed'
    BY <1>1, <1>2, <1>3, TypesHeld, TypesHold
  <1>5. Held' /\ Whole'
    BY <1>1, <1>3 DEF PhotoInv, Held, Whole
  <1>6. Announced'
    BY <1>1, <1>3, EventsHold, QueueKept DEF PhotoInv
  <1> QED
    BY <1>3, <1>4, <1>5, <1>6 DEF PhotoInv, AtWork

\* Other programs: a name is taken, an engine is installed.
LEMMA ElsewhereKeeps == ASSUME PhotoInv, Elsewhere PROVE PhotoInv'
  <1>1. /\ UNCHANGED <<worker, cancelFile, program, report, clouds, matches, saved, temporary>>
        /\ UNCHANGED <<process, task, closing, installing, installer, detecting, timer>>
        /\ UNCHANGED <<events, dialog, enabled, fields, window>>
    BY DEF Elsewhere, jobVars, threadVars, resultVars
  <1>2. commands' \in 0..MaxCommands
    <2>1. commands < MaxCommands /\ commands' = commands + 1
      BY DEF Elsewhere
    <2> QED
      BY <2>1, TypesHeld, CommandsAssumption
  <1>3. /\ outputs' \in [{"mesh", "meshReport", "glb"} -> {"absent", "ours", "foreign"}]
        /\ outputs["meshReport"] = "ours" => outputs'["meshReport"] = "ours"
    <2>1. outputs \in [{"mesh", "meshReport", "glb"} -> {"absent", "ours", "foreign"}]
      BY TypesHeld DEF AtWork, WorkerTypeOK
    <2>2. CASE UNCHANGED outputs
      BY <2>1, <2>2
    <2>3. ASSUME NEW n \in DOMAIN outputs, Absent(n), outputs' = [outputs EXCEPT ![n] = "foreign"]
          PROVE  /\ outputs' \in [{"mesh", "meshReport", "glb"} -> {"absent", "ours", "foreign"}]
                 /\ outputs["meshReport"] = "ours" => outputs'["meshReport"] = "ours"
      BY <2>1, <2>3 DEF Absent
    <2> QED
      BY <2>2, <2>3 DEF Elsewhere
  <1>4. /\ engine' \in [Engines -> {"absent", "partial", "whole"}]
        /\ \A x \in Engines : engine'[x] \in {engine[x], "whole"}
    <2>1. CASE UNCHANGED engine
      BY <2>1, TypesHeld
    <2>2. ASSUME NEW e \in Engines, engine' = [engine EXCEPT ![e] = "whole"]
          PROVE  /\ engine' \in [Engines -> {"absent", "partial", "whole"}]
                 /\ \A x \in Engines : engine'[x] \in {engine[x], "whole"}
      BY <2>2, TypesHeld
    <2> QED
      BY <2>1, <2>2 DEF Elsewhere
  <1>5. AtWork'
    <2>1. AtWork
      BY Halves
    <2>2. (WorkerTypeOK /\ worker \in WorkerRecord /\ cancelFile \in BOOLEAN)'
      BY <1>1, <1>3, <2>1 DEF AtWork, WorkerTypeOK
    <2>3. (Placed /\ Owned /\ Copied /\ Reported /\ Packed)'
      BY <1>1, <1>3, <2>1 DEF AtWork, Placed, Owned, Copied, Reported, Packed, Delivered, At
    <2> QED
      BY <2>2, <2>3 DEF AtWork
  <1>6. Typed'
    BY <1>1, <1>2, <1>4, <1>5, TypesHeld, TypesHold
  <1>7. Held' /\ Whole'
    BY <1>1, <1>4 DEF PhotoInv, Held, Whole
  <1>8. Announced'
    <2>1. \A x \in Event : EventHolds(x) => EventHolds(x)'
      <3> SUFFICES ASSUME NEW x \in Event, EventHolds(x) PROVE EventHolds(x)'
        OBVIOUS
      <3>1. x.kind = "installed" => engine'[x.value] = "whole"
        BY <1>4, EventTypes DEF EventHolds
      <3>2. x.kind = "configured" => \A y \in Engines : x.value[y] = "default" => engine'[y] = "whole"
        BY <1>4 DEF EventHolds
      <3> QED
        BY <1>1, <3>1, <3>2 DEF EventHolds, Alive
    <2> QED
      BY <1>1, <2>1, QueueKept DEF PhotoInv
  <1> QED
    BY <1>5, <1>6, <1>7, <1>8 DEF PhotoInv, AtWork

-----------------------------------------------------------------------------
(* The offsets of embed_external_glb_images. *)

\* A set of naturals with a member has a least one.
LEMMA LeastNumber ==
    ASSUME NEW S, S \subseteq Nat, NEW s \in S
    PROVE  \E n \in S : \A m \in S : n <= m
  <1>1. PICK n \in S : \A m \in S : ~(<<m, n>> \in OpToRel(<, Nat))
    BY NatLessThanWellFounded, WFMin
  <1>2. \A m \in S : ~(m < n)
    BY <1>1 DEF OpToRel
  <1>3. n \in Nat /\ \A m \in S : m \in Nat
    BY <1>1
  <1>4. ASSUME NEW m \in S PROVE n <= m
    BY <1>2, <1>3
  <1> QED
    BY <1>1, <1>4

\* The next multiple of four.
LEMMA Rounded == ASSUME NEW n \in Nat PROVE RoundUp(n) \in Nat /\ RoundUp(n) >= n /\ RoundUp(n) % 4 = 0
  BY DEF RoundUp

\* The first k offsets, as a function of their own.
IsOffsets(f, c, k) ==
    /\ f \in [0..k -> Nat] /\ f[0] = c.chunk
    /\ \A i \in 1..k : f[i] = RoundUp(f[i - 1] + c.images[i])

\* There are offsets for any number of images, one after another.
LEMMA OffsetsExist ==
    ASSUME NEW c \in Candidates, NEW k \in 0..Len(c.images)
    PROVE  \E f : IsOffsets(f, c, k)
  <1> DEFINE n == Len(c.images)
             S == {j \in 0..n : ~\E f : IsOffsets(f, c, j)}
  <1>1. c.chunk \in Nat /\ n \in Nat /\ \A i \in 1..n : c.images[i] \in Nat
    BY WorkerAssumption
  <1>2. SUFFICES ASSUME k \in S PROVE FALSE
    OBVIOUS
  <1>3. PICK j \in S : \A m \in S : j <= m
    <2>1. S \subseteq Nat
      BY <1>1
    <2> HIDE DEF S
    <2> QED
      BY <1>2, <2>1, LeastNumber
  <1>4. j # 0
    <2>1. IsOffsets([i \in 0..0 |-> c.chunk], c, 0)
      BY <1>1 DEF IsOffsets
    <2> QED
      BY <2>1
  <1>5. j - 1 \in 0..n /\ j - 1 \notin S /\ j \in 1..n
    BY <1>1, <1>3, <1>4
  <1>6. PICK f : IsOffsets(f, c, j - 1)
    BY <1>5
  <1> DEFINE g == [i \in 0..j |-> IF i = j THEN RoundUp(f[j - 1] + c.images[j]) ELSE f[i]]
  <1>7. \A i \in 0..(j - 1) : g[i] = f[i] /\ f[i] \in Nat
    BY <1>1, <1>5, <1>6 DEF IsOffsets
  <1>8. g[j] = RoundUp(f[j - 1] + c.images[j]) /\ g[j] \in Nat
    <2>1. f[j - 1] + c.images[j] \in Nat
      <3>1. f[j - 1] \in Nat /\ c.images[j] \in Nat
        BY <1>1, <1>5, <1>6 DEF IsOffsets
      <3> QED
        BY <3>1
    <2>2. j \in 0..j
      BY <1>5
    <2> QED
      BY <2>1, <2>2, Rounded
  <1>9. IsOffsets(g, c, j)
    <2>1. g \in [0..j -> Nat]
      <3>1. ASSUME NEW i \in 0..j PROVE g[i] \in Nat
        <4>1. i = j \/ i \in 0..(j - 1)
          BY <1>5
        <4>2. g[j] \in Nat
          BY <1>8
        <4>3. ASSUME i \in 0..(j - 1) PROVE g[i] \in Nat
          BY <1>7, <4>3
        <4> QED
          BY <4>1, <4>2, <4>3
      <3> QED
        BY <3>1
    <2>2. g[0] = c.chunk
      BY <1>5, <1>6, <1>7 DEF IsOffsets
    <2>3. ASSUME NEW i \in 1..j PROVE g[i] = RoundUp(g[i - 1] + c.images[i])
      <3>1. CASE i = j
        BY <1>5, <1>7, <1>8, <3>1
      <3>2. CASE i # j
        BY <1>5, <1>6, <1>7, <3>2 DEF IsOffsets
      <3> QED
        BY <3>1, <3>2
    <2> QED
      BY <2>1, <2>2, <2>3 DEF IsOffsets
  <1> QED
    BY <1>9

\* So the recursive definition defines them.
LEMMA OffsetsDefined ==
    ASSUME NEW c \in Candidates PROVE IsOffsets(Offsets(c), c, Len(c.images))
  <1> DEFINE n == Len(c.images)
             F(f) == [k \in 0..n |-> IF k = 0 THEN c.chunk ELSE RoundUp(f[k - 1] + c.images[k])]
  <1>1. n \in Nat
    BY WorkerAssumption
  <1>2. PICK f : IsOffsets(f, c, n)
    BY <1>1, OffsetsExist
  <1>3. f = F(f)
    BY <1>1, <1>2 DEF IsOffsets
  <1>4. Offsets(c) = CHOOSE g : g = F(g)
    BY DEF Offsets
  <1>5. Offsets(c) = F(Offsets(c))
    BY <1>3, <1>4
  <1> DEFINE at == Offsets(c)
  <1>6. /\ DOMAIN at = 0..n /\ at[0] = c.chunk
        /\ \A i \in 1..n : at[i] = RoundUp(at[i - 1] + c.images[i])
    <2>1. at = F(at)
      BY <1>5
    <2> HIDE DEF at
    <2> QED
      BY <1>1, <2>1
  <1> HIDE DEF at, F
  <1> DEFINE S == {j \in 0..n : at[j] \notin Nat}
  <1>7. S = {}
    <2> SUFFICES ASSUME NEW k \in S PROVE FALSE
      OBVIOUS
    <2>1. PICK j \in S : \A m \in S : j <= m
      <3>1. S \subseteq Nat
        BY <1>1
      <3> HIDE DEF S
      <3> QED
        BY <3>1, LeastNumber
    <2>2. j # 0
      BY <1>6, WorkerAssumption
    <2>3. j - 1 \in 0..n /\ j - 1 \notin S /\ j \in 1..n
      BY <1>1, <2>1, <2>2
    <2>4. at[j - 1] + c.images[j] \in Nat
      BY <2>3, WorkerAssumption
    <2>5. at[j] \in Nat
      BY <1>6, <2>3, <2>4, Rounded
    <2> QED
      BY <2>5
  <1>8. at = [i \in 0..n |-> at[i]]
    <2>1. at = F(at)
      BY <1>5 DEF at
    <2> QED
      BY <2>1 DEF F
  <1>9. at \in [0..n -> Nat]
    BY <1>7, <1>8
  <1>10. IsOffsets(at, c, n)
    BY <1>6, <1>9 DEF IsOffsets
  <1> QED
    BY <1>10 DEF at

\* The offsets grow, and they are aligned.
LEMMA OffsetsGrow ==
    ASSUME NEW c \in Candidates, Embeddable(c), NEW at, IsOffsets(at, c, Len(c.images)),
           NEW j \in 0..Len(c.images)
    PROVE  /\ at[j] % 4 = 0
           /\ \A k \in j..Len(c.images) : at[j] <= at[k]
  <1> DEFINE n == Len(c.images)
  <1>1. c.chunk \in Nat /\ n \in Nat /\ \A i \in 1..n : c.images[i] \in Nat
    BY WorkerAssumption
  <1>2. \A i \in 1..n : /\ at[i - 1] \in Nat /\ at[i] \in Nat
                         /\ at[i] % 4 = 0 /\ at[i - 1] <= at[i]
    <2> SUFFICES ASSUME NEW i \in 1..n
                 PROVE  /\ at[i - 1] \in Nat /\ at[i] \in Nat
                        /\ at[i] % 4 = 0 /\ at[i - 1] <= at[i]
      OBVIOUS
    <2>1. at[i - 1] \in Nat /\ at[i] \in Nat /\ at[i] = RoundUp(at[i - 1] + c.images[i])
      BY <1>1 DEF IsOffsets
    <2>2. at[i - 1] + c.images[i] \in Nat
      BY <1>1, <2>1
    <2>3. at[i] % 4 = 0 /\ at[i] >= at[i - 1] + c.images[i]
      BY <2>1, <2>2, Rounded
    <2> QED
      BY <1>1, <2>1, <2>3
  <1>3. at[j] % 4 = 0
    <2>1. at[0] = c.chunk /\ c.chunk % 4 = 0
      BY DEF IsOffsets, Embeddable
    <2> QED
      BY <1>1, <1>2, <2>1
  <1> DEFINE S == {k \in j..n : ~(at[j] <= at[k])}
  <1>4. S = {}
    <2> SUFFICES ASSUME NEW s \in S PROVE FALSE
      OBVIOUS
    <2>1. PICK k \in S : \A m \in S : k <= m
      <3>1. S \subseteq Nat
        BY <1>1
      <3> HIDE DEF S
      <3> QED
        BY <3>1, LeastNumber
    <2>2. at[j] \in Nat
      BY <1>1 DEF IsOffsets
    <2>3. k # j
      BY <2>2
    <2>4. k - 1 \in j..n /\ k - 1 \notin S /\ k \in 1..n
      BY <1>1, <2>1, <2>3
    <2>5. at[j] <= at[k - 1] /\ at[k - 1] <= at[k] /\ at[k - 1] \in Nat /\ at[k] \in Nat
      BY <1>2, <2>4
    <2>6. at[j] <= at[k]
      BY <2>2, <2>5
    <2> QED
      BY <2>6
  <1> QED
    BY <1>3, <1>4

\* What embed_external_glb_images packs, inspect_glb accepts.
LEMMA PackedIsStandalone ==
    ASSUME NEW c \in Candidates, Embeddable(c), Embedded(c).views # <<>>
    PROVE  Standalone(Embedded(c))
  <1> DEFINE n == Len(c.images)
             g == Embedded(c)
  <1> PICK at : at = Offsets(c)
    OBVIOUS
  <1>1. c.chunk \in Nat /\ n \in Nat /\ \A i \in 1..n : c.images[i] \in Nat /\ c.images[i] > 0
    BY WorkerAssumption DEF Embeddable
  <1>2. IsOffsets(at, c, n)
    BY OffsetsDefined
  <1>3. /\ g.chunk = at[n]
        /\ g.length = IF n = 0 THEN c.length ELSE at[n - 1] + c.images[n]
        /\ g.views = [k \in 1..n |-> [offset |-> at[k - 1], size |-> c.images[k]]]
    BY DEF Embedded
  <1> HIDE DEF g
  <1>4. n # 0
    <2> SUFFICES ASSUME n = 0 PROVE FALSE
      OBVIOUS
    <2>1. DOMAIN g.views = {} /\ g.views = [k \in {} |-> [offset |-> at[k - 1], size |-> c.images[k]]]
      BY <1>3
    <2>2. g.views = <<>>
      BY <2>1
    <2> QED
      BY <2>2 DEF g
  <1>5. \A j \in 0..n : /\ at[j] \in Nat /\ at[j] % 4 = 0
                         /\ \A k \in j..n : at[j] <= at[k]
    BY <1>2, OffsetsGrow DEF IsOffsets
  <1>6. g.chunk % 4 = 0
    BY <1>1, <1>3, <1>5
  <1>7. ASSUME NEW k \in DOMAIN g.views
        PROVE  g.views[k].size > 0 /\ g.views[k].offset + g.views[k].size <= g.length
    <2>1. k \in 1..n /\ g.views[k].offset = at[k - 1] /\ g.views[k].size = c.images[k]
      BY <1>3, <1>7
    <2>2. at[k - 1] + c.images[k] <= at[n - 1] + c.images[n]
      <3>1. CASE k = n
        BY <1>1, <1>5, <2>1, <3>1
      <3>2. CASE k # n
        <4>1. at[k - 1] \in Nat /\ at[k] \in Nat /\ at[n - 1] \in Nat /\ at[k] <= at[n - 1]
          BY <1>1, <1>5, <2>1, <3>2
        <4>2. at[k] >= at[k - 1] + c.images[k]
          <5>1. at[k] = RoundUp(at[k - 1] + c.images[k]) /\ at[k - 1] + c.images[k] \in Nat
            BY <1>1, <1>2, <2>1, <4>1 DEF IsOffsets
          <5> QED
            BY <5>1, Rounded
        <4>3. c.images[k] \in Nat /\ c.images[n] \in Nat
          BY <1>1, <1>4, <2>1
        <4> QED
          BY <4>1, <4>2, <4>3
      <3> QED
        BY <3>1, <3>2
    <2> QED
      BY <1>1, <1>3, <1>4, <2>1, <2>2
  <1> QED
    BY <1>6, <1>7 DEF Standalone, g

-----------------------------------------------------------------------------
(* Theorems about the application. *)

\* The window opens with no job, no event and whole or absent engines.
LEMMA InitEstablishes == Init => PhotoInv
  <1> SUFFICES ASSUME Init PROVE PhotoInv
    OBVIOUS
  <1>1. /\ NoWorker \in WorkerRecord /\ NoWorker.task = "none" /\ NoWorker.pc = "exited"
        /\ NoWorker.error = "none" /\ ~NoWorker.told /\ NoWorker.code = 0
        /\ NoWorker.mode \in Modes
    BY PlaceNames DEF NoWorker, WorkerRecord, Modes, Glbs
  <1>2. /\ worker = NoWorker /\ ~cancelFile /\ program = "none"
        /\ report = "none" /\ clouds = {} /\ matches = {} /\ saved = {"none"}
        /\ outputs = [mesh |-> "absent", meshReport |-> "absent", glb |-> "absent"]
        /\ temporary = {}
    BY DEF Init, WorkerInit
  <1>3. WorkerTypeOK
    <2>1. outputs \in [{"mesh", "meshReport", "glb"} -> {"absent", "ours", "foreign"}]
      BY <1>2
    <2> QED
      BY <1>1, <1>2, <2>1 DEF WorkerTypeOK
  <1>4. Placed /\ Owned /\ Copied /\ Reported /\ Packed
    BY <1>1, <1>2 DEF Placed, Owned, Copied, Reported, Packed, At
  <1>5. engine \in [Engines -> {"absent", "whole"}]
    BY CommandsAssumption DEF Init
  <1>6. /\ ~process /\ task = "none" /\ ~closing /\ installing = "none" /\ installer = "idle"
        /\ detecting = NoFields /\ timer /\ events = <<>> /\ dialog = "none"
        /\ enabled = {"mesh", "install", "auto"} /\ window = "open" /\ commands = 0
    BY DEF Init
  <1>7. fields \in Profiles /\ fields["openmvs"] = "" /\ fields["colmap"] = ""
    <2>1. fields = [openmvs |-> "", colmap |-> "", mode |-> "dense-cpu"]
      BY DEF Init
    <2> QED
      BY <2>1 DEF Profiles, Modes
  <1>8. WindowTypeOK
    <2>1. process \in BOOLEAN /\ closing \in BOOLEAN /\ timer \in BOOLEAN
      BY DEF Init
    <2>2. fields \in [openmvs : {"", "user", "default", "legacy"}, colmap : {"", "user", "default"},
                      mode : Modes]
      BY <1>7 DEF Profiles
    <2>3. engine \in [Engines -> {"absent", "partial", "whole"}]
      BY <1>5
    <2>4. commands \in 0..MaxCommands
      BY <1>6, CommandsAssumption
    <2> QED
      BY <1>6, <2>1, <2>2, <2>3, <2>4 DEF WindowTypeOK
  <1>9. Typed
    <2>1. cancelFile \in BOOLEAN
      BY DEF Init, WorkerInit
    <2>2. events \in Seq(Event) /\ detecting \in {NoFields} \cup Paths
      BY <1>6
    <2> QED
      BY <1>1, <1>2, <1>3, <1>8, <2>1, <2>2 DEF Typed
  <1>10. Held /\ Announced
    BY <1>2, <1>6 DEF Held, Announced
  <1>11. Whole
    BY <1>5, <1>7 DEF Whole, Engines
  <1> QED
    BY <1>4, <1>9, <1>10, <1>11 DEF PhotoInv

\* Nothing happens.
LEMMA PhotoStutters == ASSUME PhotoInv, UNCHANGED vars PROVE PhotoInv'
  <1>1. UNCHANGED workVars /\ UNCHANGED appVars
    BY DEF vars
  <1>2. /\ UNCHANGED <<process, task, closing, installing, installer, detecting, timer>>
        /\ UNCHANGED <<events, dialog, enabled, fields, engine, window, commands>>
    BY <1>1 DEF appVars
  <1>3. AtWork' /\ worker' = worker
    BY <1>1, LeftAlone, Halves DEF workVars
  <1>4. Typed'
    BY <1>2, <1>3, TypesHeld, TypesHold
  <1>5. Held' /\ Whole'
    BY <1>2, <1>3 DEF PhotoInv, Held, Whole
  <1>6. Announced'
    BY <1>2, <1>3, EventsHold, QueueKept DEF PhotoInv
  <1> QED
    BY <1>3, <1>4, <1>5, <1>6 DEF PhotoInv, AtWork

\* Commands, events, threads, workers and other programs keep the invariant.
LEMMA PhotoPreserves == ASSUME PhotoInv, [Next]_vars PROVE PhotoInv'
  BY StartKeeps, AskKeeps, ChosenKeeps, CancelKeeps, ConsumeKeeps, InstallKeeps, InstallStepKeeps,
     AutoKeeps, DetectKeeps, ReadEventKeeps, EditKeeps, CloseKeeps, CloseAnsweredKeeps,
     ElsewhereKeeps, WorkKeeps, PhotoStutters
  DEF Next

\* The window, its threads and its workers agree about what is under way, whatever
\* order commands, timers, dialogs, threads and other programs come in.
THEOREM PhotoInvariance == Spec => []PhotoInv
  BY InitEstablishes, PhotoPreserves, PTL DEF Spec

\* What a mesher may leave: its report without a mesh, and its copy of the mesh, only
\* when it was terminated there; a mesh always has its report.
Left ==
    /\ cuts \subseteq {"inspect", "publish_mesh"}
    /\ outputs.mesh = "ours" => outputs.meshReport = "ours"
    /\ At("mesh", "publish_mesh") => outputs.mesh # "ours"
    /\ outputs.meshReport = "ours" /\ outputs.mesh # "ours" =>
          At("mesh", "publish_mesh") \/ "publish_mesh" \in cuts
    /\ "metadata" \in temporary => At("mesh", "inspect") \/ "inspect" \in cuts

\* It holds on when the mesher's files stay and no mesher was, or gets, where it matters.
LEMMA LeftElsewhere ==
    ASSUME Left, cuts' = cuts,
           outputs'.mesh = outputs.mesh, outputs'.meshReport = outputs.meshReport,
           "metadata" \in temporary' => "metadata" \in temporary,
           ~At("mesh", "inspect"), ~At("mesh", "publish_mesh"), ~At("mesh", "publish_mesh")'
    PROVE  Left'
  BY DEF Left

\* The steps of the mesher.
LEMMA MesherLeaves == ASSUME PhotoInv, Left, MeshStep, cuts' = cuts PROVE Left'
  <1>1. outputs \in [{"mesh", "meshReport", "glb"} -> {"absent", "ours", "foreign"}]
    BY TypesHeld DEF AtWork, WorkerTypeOK
  <1>2. worker \in WorkerRecord
    BY TypesHeld DEF AtWork
  <1>3. \A pc \in Pcs : Goto(pc) => worker'.task = worker.task /\ worker'.pc = pc
    BY <1>2, GotoEffect DEF Same
  <1>4. Exit(0) \/ Exit(1) => worker'.pc = "exited"
    BY <1>2, ExitEffect
  <1>5. Raise("failed") => worker'.pc = "raising"
    BY <1>2, RaiseEffect, TypesHeld DEF AtWork
  <1>6. {"poisson", "metadata", "inspect", "report", "publish_report", "publish_mesh", "leaving"}
           \subseteq Pcs
    BY PlaceNames
  <1>7. CASE BuildMesh \/ Poisson \/ WriteReport \/ LeaveMesh
    BY <1>3, <1>4, <1>5, <1>6, <1>7, LeftElsewhere
    DEF BuildMesh, Poisson, WriteReport, LeaveMesh, At, outputVars
  <1>8. CASE PreserveMetadata
    BY <1>3, <1>6, <1>8 DEF PreserveMetadata, Left, At
  <1>9. CASE InspectMesh
    BY <1>3, <1>5, <1>6, <1>9 DEF InspectMesh, Left, At
  <1>10. CASE PublishReport
    BY <1>1, <1>3, <1>5, <1>6, <1>10 DEF PublishReport, Publish, Absent, Left, At
  <1>11. CASE PublishMesh
    BY <1>1, <1>3, <1>5, <1>6, <1>11 DEF PublishMesh, Publish, Absent, Without, PhotoInv, Owned, Left, At
  <1> QED
    BY <1>7, <1>8, <1>9, <1>10, <1>11 DEF MeshStep

\* The steps of the other workers and of the external programs.
LEMMA OthersLeave ==
    ASSUME PhotoInv, Left, cuts' = cuts,
           \/ Launch \/ StopProgram \/ Reap \/ ReconstructionStep \/ TextureStep
           \/ ProgramExits \/ ProgramWrites
    PROVE  Left'
  <1>1. AtWork
    BY TypesHeld
  <1>2. worker.task # "mesh"
    BY <1>1, PlaceNames
    DEF AtWork, Placed, ExternalStages, Launch, StopProgram, Reap, ProgramExits, ProgramWrites, At,
        ReconstructionStep, Reconstruct, PrepareImages, ExtractFeatures, MatchOnCpu, CopyDatabase,
        VerifyOpencl, FallBack, CancelOpencl, MatchAfterOpencl, CountPairs, MapCameras, Undistort,
        Finish, Succeed, Fail, TextureStep, BuildTexturedModel, EmbedImages, InspectGlb,
        PublishGlb, LeaveTexture
  <1>3. worker'.task = worker.task
    BY <1>1, TextureWorks, ReconstructionWorks, ProgramWorks DEF Worked
  <1>4. /\ outputs'.mesh = outputs.mesh /\ outputs'.meshReport = outputs.meshReport
        /\ "metadata" \in temporary' => "metadata" \in temporary
    <2>1. outputs \in [{"mesh", "meshReport", "glb"} -> {"absent", "ours", "foreign"}]
      BY <1>1 DEF AtWork, WorkerTypeOK
    <2>2. CASE Launch \/ StopProgram \/ Reap \/ ReconstructionStep \/ ProgramExits \/ ProgramWrites
      BY <2>2 DEF Launch, StopProgram, Reap, ReconstructionStep, Reconstruct, PrepareImages,
             ExtractFeatures, MatchOnCpu, CopyDatabase, VerifyOpencl, FallBack, CancelOpencl,
             MatchAfterOpencl, CountPairs, MapCameras, Undistort, Finish, Succeed, Fail,
             ProgramExits, ProgramWrites, outputVars
    <2>3. CASE TextureStep
      BY <2>1, <2>3 DEF TextureStep, BuildTexturedModel, EmbedImages, InspectGlb, PublishGlb,
             LeaveTexture, Publish, outputVars
    <2> QED
      BY <2>2, <2>3
  <1> QED
    BY <1>2, <1>3, <1>4, LeftElsewhere DEF At

\* A request to stop: the place at which a mesher was terminated is remembered.
LEMMA StopLeaves ==
    ASSUME PhotoInv, Left, process, RequestStop, UNCHANGED outputVars
    PROVE  Left'
  <1>1. task = worker.task /\ worker \in WorkerRecord
    BY TypesHeld DEF PhotoInv, Held, AtWork
  <1>2. outputs' = outputs /\ temporary' = temporary
    BY DEF outputVars
  <1>3. CASE task = "mesh" /\ Alive
    <2>1. worker'.pc = "exited" /\ cuts' = cuts \cup ({worker.pc} \cap {"inspect", "publish_mesh"})
      BY <1>1, <1>3 DEF RequestStop, WorkerRecord
    <2> QED
      BY <1>2, <2>1 DEF Left, At
  <1>4. CASE task = "mesh" /\ ~Alive
    BY <1>2, <1>4 DEF RequestStop, Left, At, Alive
  <1>5. CASE task # "mesh"
    BY <1>2, <1>5 DEF RequestStop, Left, At
  <1> QED
    BY <1>3, <1>4, <1>5

\* Every step keeps it.
LEMMA LeftKept == ASSUME PhotoInv, Left, [Next]_vars PROVE Left'
  <1>1. CASE Work
    BY <1>1, MesherLeaves, OthersLeave DEF Work, WorkerStep, appVars
  <1>2. ~process => ~At("mesh", "inspect") /\ ~At("mesh", "publish_mesh")
    BY DEF PhotoInv, Held, NoWorker, At
  <1>3. CASE Start \/ FilesChosen
    <2>1. ~process /\ cuts' = cuts /\ outputs' = outputs /\ temporary' = temporary
      BY <1>3 DEF Start, FilesChosen, StartJob, Busy, PhotoInv, Held, outputVars, jobVars
    <2>2. worker' = worker \/ \E t \in Tasks, mode \in Modes : worker' = Started(t, mode)
      BY <1>3, TypesHeld DEF Start, FilesChosen, StartJob, Tasks, Profiles, Modes
    <2>3. ~At("mesh", "publish_mesh")'
      BY <1>2, <2>1, <2>2, StartedWorker DEF At
    <2> QED
      BY <1>2, <2>1, <2>3, LeftElsewhere
  <1>4. CASE Cancel
    BY <1>4, StopLeaves DEF Cancel
  <1>5. CASE CloseAnswered
    <2>1. CASE UNCHANGED <<worker, cuts>>
      BY <1>5, <2>1 DEF CloseAnswered, Left, At, outputVars
    <2> QED
      BY <1>5, <2>1, StopLeaves DEF CloseAnswered
  <1>6. CASE ReadEvent
    <2>1. CASE UNCHANGED workVars /\ UNCHANGED cuts
      BY <2>1 DEF Left, At, workVars
    <2>2. ASSUME Head(events).kind = "done", Done(Head(events).value) PROVE Left'
      <3>1. ~Alive
        BY <1>6, <2>2, FirstEvent DEF ReadEvent, EventHolds
      <3>2. worker' = NoWorker /\ outputs' = outputs /\ cuts' = cuts /\ temporary' \subseteq temporary
        BY <2>2 DEF Done, CleanPartials
      <3> QED
        BY <3>1, <3>2, LeftElsewhere DEF At, Alive, NoWorker
    <2> QED
      BY <1>6, <2>1, <2>2 DEF ReadEvent, InstallEnds, Configured, ConfigFailed, jobVars
  <1>7. CASE Elsewhere
    <2>1. outputs \in [{"mesh", "meshReport", "glb"} -> {"absent", "ours", "foreign"}]
      BY TypesHeld DEF AtWork, WorkerTypeOK
    <2> QED
      BY <1>7, <2>1 DEF Elsewhere, Absent, jobVars, Left, At
  <1>8. CASE UNCHANGED <<workVars, jobVars>>
    BY <1>8 DEF workVars, jobVars, Left, At
  <1>9. AskFiles("mesh") \/ AskFiles("texture") \/ Consume \/ (\E e \in Engines : Install(e))
        \/ InstallStep \/ AutoConfigure \/ Detect \/ EditField \/ Close \/ UNCHANGED vars
           => UNCHANGED <<workVars, jobVars>>
    BY DEF AskFiles, Consume, Install, InstallStep, AutoConfigure, Detect, EditField, Close,
           vars, appVars, jobVars
  <1> QED
    BY <1>1, <1>3, <1>4, <1>5, <1>6, <1>7, <1>8, <1>9 DEF Next

\* The invariant gives the first promise about jobs, installations and files.
LEMMA InvKeepsApart == ASSUME PhotoInv, Left PROVE JobsKeptApart
  <1>1. Alive => process /\ task = worker.task
    BY DEF PhotoInv, Held, Alive, NoWorker
  <1>2. \A i \in Pending({"done"}) : process /\ ~Alive /\ events[i].value = worker.code
    BY DEF PhotoInv, Announced, EventHolds, Pending
  <1>3. Cardinality(Pending({"done"})) <= 1
    <2>1. \A i, j \in Pending({"done"}) : i = j
      BY DEF PhotoInv, Announced, SameKind, Pending
    <2>2. CASE Pending({"done"}) = {}
      BY <2>2, FS_EmptySet
    <2>3. ASSUME NEW i \in Pending({"done"}) PROVE Cardinality(Pending({"done"})) = 1
      <3>1. Pending({"done"}) = {i}
        BY <2>1, <2>3
      <3> QED
        BY <3>1, FS_Singleton
    <2> QED
      BY <2>2, <2>3
  <1>4. ~(process /\ installing # "none") /\ (window = "destroyed" => ~Alive)
    BY <1>1 DEF PhotoInv, Held
  <1>5. OneJob
    BY <1>1, <1>2, <1>3, <1>4 DEF OneJob, PhotoInv, Typed, TypeOK, Left
  <1>6. IdleIsClean /\ MeshReported
    BY NoJob DEF IdleIsClean, NothingRunsOn, MeshReported, Left
  <1>7. InstallationsWhole
    BY DEF PhotoInv, Whole, InstallationsWhole
  <1> QED
    BY <1>5, <1>6, <1>7 DEF JobsKeptApart

\* One job or installation at a time, each cleaned up after, a mesh never without its
\* report and a report not without its mesh, but for what a mesher leaves that was
\* terminated while it copied or between its two publications.
THEOREM JobsStayApart == Spec => []JobsKeptApart
  <1>1. ASSUME Init PROVE Left
    <2>1. /\ cuts = {} /\ temporary = {} /\ worker.pc = "exited"
          /\ outputs.mesh = "absent" /\ outputs.meshReport = "absent"
      BY <1>1 DEF Init, WorkerInit, NoWorker
    <2> QED
      BY <2>1 DEF Left, At
  <1>2. Spec => []Left
    BY <1>1, LeftKept, PhotoInvariance, PTL DEF Spec
  <1> QED
    BY <1>2, PhotoInvariance, InvKeepsApart, PTL

\* The invariant gives the promises about what a worker hands over.
LEMMA InvTruthful == ASSUME PhotoInv PROVE ResultsTruthful
  <1>1. ReportTruthful
    BY DEF PhotoInv, Reported, Delivered, Accepted, ReportTruthful, Alive, Typed
  <1>2. MatchesUnmixed
    BY DEF PhotoInv, Copied, MatchesUnmixed, Mapping, Dense, Ending
  <1>3. EmbeddedAccepted
    BY PackedIsStandalone DEF PhotoInv, Packed, EmbeddedAccepted
  <1> QED
    BY <1>1, <1>2, <1>3 DEF ResultsTruthful

\* The exit code, the report and the clouds tell one story, the mapper reads the matches
\* of one matcher, and inspect_glb accepts what embed_external_glb_images packed.
THEOREM ResultsStayTruthful == Spec => []ResultsTruthful
  BY PhotoInvariance, InvTruthful, PTL

\* What another program put at a chosen name stays: the workers publish only where
\* nothing is, and take back only their own report.
LEMMA StepKeepsForeign ==
    ASSUME PhotoInv, [Next]_vars, NEW n \in DOMAIN outputs, outputs[n] = "foreign"
    PROVE  outputs'[n] = "foreign"
  <1>1. outputs \in [{"mesh", "meshReport", "glb"} -> {"absent", "ours", "foreign"}]
    BY TypesHeld DEF AtWork, WorkerTypeOK
  <1>2. \A name \in {"mesh", "meshReport", "glb"} : Publish(name) => outputs'[n] = "foreign"
    BY <1>1 DEF Publish, Absent
  <1>3. At("mesh", "publish_mesh") /\ Without("meshReport") => outputs'[n] = "foreign"
    BY <1>1 DEF PhotoInv, Owned, Without
  <1>4. CASE WorkerStep
    <2>1. CASE PublishReport \/ PublishMesh \/ PublishGlb
      BY <1>2, <1>3, <2>1 DEF PublishReport, PublishMesh, PublishGlb
    <2>2. CASE UNCHANGED outputs
      BY <2>2
    <2>3. Launch \/ StopProgram \/ Reap \/ ReconstructionStep => UNCHANGED outputs
      BY DEF Launch, StopProgram, Reap, ReconstructionStep, Reconstruct, PrepareImages,
             ExtractFeatures, MatchOnCpu, CopyDatabase, VerifyOpencl, FallBack, CancelOpencl,
             MatchAfterOpencl, CountPairs, MapCameras, Undistort, Finish, Succeed, Fail, outputVars
    <2>4. MeshStep \/ TextureStep => PublishReport \/ PublishMesh \/ PublishGlb \/ UNCHANGED outputs
      BY DEF MeshStep, TextureStep, BuildMesh, Poisson, PreserveMetadata, InspectMesh, WriteReport,
             LeaveMesh, BuildTexturedModel, EmbedImages, InspectGlb, LeaveTexture, outputVars
    <2> QED
      BY <1>4, <2>1, <2>2, <2>3, <2>4 DEF WorkerStep
  <1>5. CASE ProgramExits \/ ProgramWrites
    BY <1>5 DEF ProgramExits, ProgramWrites, outputVars
  <1>6. CASE Elsewhere
    BY <1>1, <1>6 DEF Elsewhere, Absent
  <1>7. CASE UNCHANGED outputs
    BY <1>7
  <1>8. Start \/ FilesChosen \/ Cancel \/ Consume \/ CloseAnswered => UNCHANGED outputs
    BY DEF Start, FilesChosen, Cancel, Consume, CloseAnswered, outputVars, workVars
  <1>9. AskFiles("mesh") \/ AskFiles("texture") \/ (\E e \in Engines : Install(e)) \/ InstallStep
        \/ AutoConfigure \/ Detect \/ EditField \/ Close => UNCHANGED outputs
    BY DEF AskFiles, Install, InstallStep, AutoConfigure, Detect, EditField, Close, workVars
  <1>10. ReadEvent => UNCHANGED outputs
    BY DEF ReadEvent, Done, InstallEnds, Configured, ConfigFailed, workVars
  <1>11. UNCHANGED vars => UNCHANGED outputs
    BY DEF vars, workVars
  <1> QED
    BY <1>4, <1>5, <1>6, <1>7, <1>8, <1>9, <1>10, <1>11 DEF Next, Work

\* Fields change when an event is read and when the user edits them.
LEMMA FieldsChange ==
    ASSUME [Next]_vars
    PROVE  UNCHANGED fields \/ ReadEvent \/ EditField
  <1>1. Start \/ FilesChosen \/ Cancel \/ Consume \/ CloseAnswered => UNCHANGED fields
    BY DEF Start, FilesChosen, Cancel, Consume, CloseAnswered
  <1>2. AskFiles("mesh") \/ AskFiles("texture") \/ (\E e \in Engines : Install(e)) \/ InstallStep
        \/ AutoConfigure \/ Detect \/ Close \/ Elsewhere => UNCHANGED fields
    BY DEF AskFiles, Install, InstallStep, AutoConfigure, Detect, Close, Elsewhere
  <1>3. Work \/ UNCHANGED vars => UNCHANGED fields
    BY DEF Work, vars, appVars
  <1> QED
    BY <1>1, <1>2, <1>3 DEF Next

\* A path of the user's gives way to the user, or to the installation asked for.
LEMMA StepKeepsUserPath ==
    ASSUME PhotoInv, [Next]_vars, NEW e \in Engines, fields[e] = "user", fields'[e] # "user"
    PROVE  installing = e \/ commands' # commands
  <1>1. CASE EditField
    <2>1. commands' = commands + 1
      BY <1>1 DEF EditField, Command
    <2>2. commands \in Int
      BY TypesHeld
    <2> QED
      BY <2>1, <2>2
  <1>2. CASE ReadEvent
    <2>1. events # <<>>
      BY <1>2 DEF ReadEvent
    <2>2. PICK v : v = Head(events).value
      OBVIOUS
    <2>3. fields \in Profiles
      BY TypesHeld
    <2>4. CASE Head(events).kind = "done" /\ Done(v)
      BY <2>4 DEF Done
    <2>5. CASE Head(events).kind = "installed" /\ InstallEnds(v, TRUE)
      <3>1. installing = v /\ v \in Engines
        BY <2>1, <2>2, <2>5, FirstEvent, EventTypes DEF EventHolds
      <3>2. fields' = [fields EXCEPT ![v] = "default"]
        BY <2>5 DEF InstallEnds
      <3> QED
        BY <2>3, <3>1, <3>2 DEF Profiles, Engines
    <2>6. CASE InstallEnds(v, FALSE)
      BY <2>6 DEF InstallEnds
    <2>7. CASE Configured(v)
      <3>1. fields' = [openmvs |-> Fill("openmvs", v), colmap |-> Fill("colmap", v), mode |-> v.mode]
        BY <2>7 DEF Configured
      <3>2. fields'["openmvs"] = Fill("openmvs", v) /\ fields'["colmap"] = Fill("colmap", v)
        BY <3>1
      <3>3. Fill(e, v) = fields[e]
        BY DEF Fill
      <3> QED
        BY <3>2, <3>3 DEF Engines
    <2>8. CASE ConfigFailed
      BY <2>3, <2>8 DEF ConfigFailed, Profiles, Engines
    <2> QED
      BY <1>2, <2>2, <2>4, <2>5, <2>6, <2>7, <2>8 DEF ReadEvent
  <1> QED
    BY <1>1, <1>2, FieldsChange

\* The end of a detection leaves a mode that can be started.
LEMMA StepRecommends ==
    ASSUME PhotoInv, [Next]_vars, Detecting, detecting' = NoFields
    PROVE  HasEngine(fields.mode)'
  <1>1. UNCHANGED detecting \/ AutoConfigure \/ ReadEvent
    <2>1. Start \/ FilesChosen \/ Cancel \/ Consume \/ CloseAnswered => UNCHANGED detecting
      BY DEF Start, FilesChosen, Cancel, Consume, CloseAnswered, threadVars
    <2>2. AskFiles("mesh") \/ AskFiles("texture") \/ (\E e \in Engines : Install(e)) \/ InstallStep
          \/ Detect \/ Close \/ EditField \/ Elsewhere => UNCHANGED detecting
      BY DEF AskFiles, Install, InstallStep, Detect, Close, EditField, Elsewhere, threadVars
    <2>3. Work \/ UNCHANGED vars => UNCHANGED detecting
      BY DEF Work, vars, appVars
    <2> QED
      BY <2>1, <2>2, <2>3 DEF Next
  <1>2. ~AutoConfigure \/ UNCHANGED detecting
    BY DEF AutoConfigure, Configure, Busy
  <1>3. CASE ReadEvent
    <2>1. events # <<>>
      BY <1>3 DEF ReadEvent
    <2>2. PICK v : v = Head(events).value
      OBVIOUS
    <2>3. fields \in Profiles
      BY TypesHeld
    <2>4. CASE UNCHANGED detecting
      BY <2>4 DEF Detecting
    <2>5. CASE Head(events).kind = "configured" /\ Configured(v)
      <3>1. /\ v \in Profiles /\ v.mode # "dense-amd"
            /\ v.mode = "dense-opencl" => v.colmap # ""
            /\ v.mode = "dense-cpu" => v.openmvs # ""
        BY <2>1, <2>2, <2>5, FirstEvent, EventTypes DEF EventHolds
      <3>2. fields' = [openmvs |-> Fill("openmvs", v), colmap |-> Fill("colmap", v), mode |-> v.mode]
        BY <2>5 DEF Configured
      <3>3. /\ v.mode = "dense-opencl" => fields'["colmap"] # ""
            /\ v.mode = "dense-cpu" => fields'["openmvs"] # ""
            /\ fields'.mode = v.mode
        BY <2>3, <3>1, <3>2 DEF Fill
      <3> QED
        BY <3>1, <3>3 DEF HasEngine, EngineOf, Engines
    <2>6. CASE ConfigFailed
      <3>1. fields'.mode = "sparse-cpu"
        BY <2>3, <2>6 DEF ConfigFailed, Profiles
      <3> QED
        BY <3>1 DEF HasEngine, EngineOf, Engines
    <2>7. Done(v) \/ InstallEnds(v, TRUE) \/ InstallEnds(v, FALSE) => UNCHANGED detecting
      BY DEF Done, InstallEnds, threadVars
    <2> QED
      BY <1>3, <2>2, <2>4, <2>5, <2>6, <2>7 DEF ReadEvent
  <1> QED
    BY <1>1, <1>2, <1>3 DEF Detecting

\* Files of other programs and paths of the user are left alone, and what detection puts
\* in the place of an empty field can be used.
THEOREM SpecKeepsOthers == Spec => OthersKept
  <1>1. ASSUME PhotoInv, [Next]_vars
        PROVE  \A n \in DOMAIN outputs : outputs[n] = "foreign" => outputs'[n] = "foreign"
    BY <1>1, StepKeepsForeign
  <1>2. ASSUME PhotoInv, [Next]_vars
        PROVE  \A e \in Engines : (fields[e] = "user" /\ fields'[e] # "user")
                                     => installing = e \/ commands' # commands
    BY <1>2, StepKeepsUserPath
  <1>3. ASSUME PhotoInv, [Next]_vars
        PROVE  (Detecting /\ detecting' = NoFields) => (HasEngine(fields.mode))'
    BY <1>3, StepRecommends
  <1> QED
    BY <1>1, <1>2, <1>3, PhotoInvariance, PTL
    DEF Spec, OthersKept, ForeignKept, UserPathKept, RecommendationStartable

-----------------------------------------------------------------------------
(* The viewer windows: the inductive invariant of CloudSave. *)

\* Contents are numbered as they are written and the file holds the last of them,
\* so that a snapshot that was overtaken never equals the file again.
Numbered ==
    /\ cloud = contents
    /\ \A w \in Windows : session[w].snapshot <= cloud /\ session[w].loaded <= cloud

\* A handler inside save holds the lock, and only a body with all its points gets past
\* the check.
Locked ==
    \A w \in Windows :
        /\ session[w].pc \in InSave => saveLock = w
        /\ session[w].pc \in {"checked", "backed", "replacing"} => session[w].body \in {"points", "whole"}

\* The backup of a session holds its original, or the file has moved on and the
\* session will never replace it; until there is a backup the file is the original.
BackupHolds ==
    \A w \in Windows :
        /\ session[w].backup # 0 =>
              session[w].backup = session[w].original \/ session[w].snapshot < cloud
        /\ session[w].kept => session[w].backup # 0
        /\ session[w].pc = "closed" => session[w].backup = 0
        /\ (session[w].pc \in {"receiving", "received", "checked"} /\ session[w].backup = 0)
              => session[w].original = session[w].snapshot
        /\ session[w].pc = "backed" => session[w].backup # 0
        /\ session[w].pc \in {"replacing", "replaced"} => session[w].backup # 0 /\ session[w].backup = session[w].original

\* A page whose session has the file of somebody else as its snapshot shows that file
\* and posts what was made from it; nobody but a program outside comes in between.
MadeFromSnapshot ==
    \A w \in Windows :
        /\ (session[w].snapshot = cloud /\ author \notin {w, "outside"}) =>
              /\ session[w].loaded \in {0, cloud}
              /\ Saving(w) => session[w].posted = cloud
        /\ session[w].pc = "replacing" => session[w].snapshot = cloud \/ author = "outside"
        /\ session[w].pc = "replaced" => author \in {w, "outside"}

SaveInv == SaveTypeOK /\ Numbered /\ Locked /\ BackupHolds /\ MadeFromSnapshot

-----------------------------------------------------------------------------
USE DEF saveVars, fileVars, InSave, Body, Torn, NoWindow

\* A session stays one when a field takes a value of its type.
LEMMA SessionFields ==
    ASSUME NEW r \in CloudSaveSession
    PROVE  /\ \A c \in {"closed", "open", "waiting", "gone"} \cup InSave :
                 [r EXCEPT !.pc = c] \in CloudSaveSession
           /\ \A n \in 0..MaxContents : /\ [r EXCEPT !.posted = n] \in CloudSaveSession
                                         /\ [r EXCEPT !.snapshot = n] \in CloudSaveSession
                                         /\ [r EXCEPT !.loaded = n] \in CloudSaveSession
           /\ \A b \in Body : [r EXCEPT !.body = b] \in CloudSaveSession
  BY DEF CloudSaveSession

\* The file as the builder left it, with no window open.
LEMMA SaveInitEstablishes == SaveInit => SaveInv
  <1> SUFFICES ASSUME SaveInit PROVE SaveInv
    OBVIOUS
  <1>1. NoSession \in CloudSaveSession
    BY WindowsAssumption DEF NoSession, CloudSaveSession
  <1>2. SaveTypeOK
    <2>1. session \in [Windows -> CloudSaveSession]
      BY <1>1 DEF SaveInit
    <2>2. cloud \in 0..MaxContents /\ contents \in 1..MaxContents /\ requests \in 0..MaxRequests
      BY WindowsAssumption DEF SaveInit
    <2> QED
      BY <2>1, <2>2 DEF SaveInit, SaveTypeOK
  <1>3. \A w \in Windows : /\ session[w].pc = "closed" /\ session[w].backup = 0 /\ ~session[w].kept
                           /\ session[w].snapshot = 0 /\ session[w].loaded = 0
    BY DEF SaveInit, NoSession
  <1> QED
    BY <1>2, <1>3 DEF SaveInit, SaveInv, Numbered, Locked, BackupHolds, MadeFromSnapshot, Saving

\* An exception ends the handler and leaves of the session what later saves rely on.
LEMMA Refused ==
    ASSUME SaveTypeOK, NEW w \in Windows, Refuse(w)
    PROVE  /\ SaveTypeOK' /\ saveLock' = NoWindow /\ UNCHANGED <<fileVars, requests>>
           /\ \A v \in Windows \ {w} : session'[v] = session[v]
           /\ session'[w].pc = "open"
           /\ session'[w].snapshot = session[w].snapshot /\ session'[w].loaded = session[w].loaded
           /\ session'[w].backup = session[w].backup /\ session'[w].kept = session[w].kept
           /\ session'[w].original = session[w].original
  <1> DEFINE new == [session[w] EXCEPT !.pc = "open", !.body = "none", !.posted = 0]
  <1>1. session[w] \in CloudSaveSession /\ 0 \in 0..MaxContents
    BY WindowsAssumption DEF SaveTypeOK
  <1>2. /\ new \in CloudSaveSession /\ new.pc = "open"
        /\ new.snapshot = session[w].snapshot /\ new.loaded = session[w].loaded
        /\ new.backup = session[w].backup /\ new.kept = session[w].kept
        /\ new.original = session[w].original
    BY <1>1 DEF CloudSaveSession
  <1>3. session' = [session EXCEPT ![w] = new] /\ saveLock' = NoWindow /\ UNCHANGED <<fileVars, requests>>
    BY DEF Refuse
  <1> HIDE DEF new
  <1>4. session'[w] = new /\ \A v \in Windows \ {w} : session'[v] = session[v]
    BY <1>3 DEF SaveTypeOK
  <1>5. SaveTypeOK'
    BY <1>2, <1>3 DEF SaveTypeOK
  <1> QED
    BY <1>2, <1>3, <1>4, <1>5

\* Opening, loading, posting, every step of a handler, a program outside, a deleted
\* backup and the end of the application keep the invariant.
LEMMA SaveStepPreserves == ASSUME SaveInv, [SaveNext]_saveVars PROVE SaveInv'
  <1> USE WindowsAssumption DEF SaveInv
  <1>1. ASSUME NEW w \in Windows, OpenWindow(w) PROVE SaveInv'
    <2> DEFINE new == [NoSession EXCEPT !.pc = "open", !.snapshot = cloud, !.original = cloud]
    <2>1. new \in CloudSaveSession
      <3>1. NoSession \in CloudSaveSession
        BY DEF NoSession, CloudSaveSession
      <3> QED
        BY <3>1 DEF SaveTypeOK, CloudSaveSession
    <2>2. session' = [session EXCEPT ![w] = new]
      BY <1>1 DEF OpenWindow
    <2>3. /\ new.pc = "open" /\ new.snapshot = cloud /\ new.backup = 0 /\ new.loaded = 0
          /\ ~new.kept
      BY DEF NoSession
    <2> HIDE DEF new
    <2>4. session' \in [Windows -> CloudSaveSession] /\ session'[w] = new
      BY <2>1, <2>2 DEF SaveTypeOK
    <2>5. \A v \in Windows \ {w} : session'[v] = session[v]
      BY <2>2 DEF SaveTypeOK
    <2>6. UNCHANGED <<fileVars, saveLock, requests>>
      BY <1>1 DEF OpenWindow
    <2>7. SaveTypeOK'
      BY <2>4, <2>6 DEF SaveTypeOK
    <2>8. Numbered'
      BY <2>1, <2>3, <2>4, <2>5, <2>6 DEF SaveTypeOK, CloudSaveSession, Numbered
    <2>9. Locked'
      BY <2>1, <2>3, <2>4, <2>5, <2>6 DEF SaveTypeOK, CloudSaveSession, Locked
    <2>10. BackupHolds'
      BY <2>1, <2>3, <2>4, <2>5, <2>6 DEF SaveTypeOK, CloudSaveSession, BackupHolds, Numbered
    <2>11. MadeFromSnapshot'
      BY <2>1, <2>3, <2>4, <2>5, <2>6 DEF SaveTypeOK, CloudSaveSession, MadeFromSnapshot, Numbered, Saving
    <2> QED
      BY <2>7, <2>8, <2>9, <2>10, <2>11
  <1>2. ASSUME NEW w \in Windows, Load(w) PROVE SaveInv'
    <2>1. SaveTypeOK'
      BY <1>2 DEF Load, Opened, SaveTypeOK, CloudSaveSession
    <2>2. Numbered'
      BY <1>2 DEF Load, Opened, SaveTypeOK, Numbered, CloudSaveSession
    <2>3. Locked'
      BY <1>2 DEF Load, Opened, SaveTypeOK, Locked, CloudSaveSession
    <2>4. BackupHolds'
      BY <1>2 DEF Load, Opened, SaveTypeOK, BackupHolds, Numbered, CloudSaveSession
    <2>5. MadeFromSnapshot'
      BY <1>2 DEF Load, Opened, SaveTypeOK, MadeFromSnapshot, Numbered, Saving, CloudSaveSession
    <2> QED
      BY <2>1, <2>2, <2>3, <2>4, <2>5
  <1>3. ASSUME NEW w \in Windows, Post(w) PROVE SaveInv'
    <2> DEFINE new == [session[w] EXCEPT !.pc = "waiting", !.posted = session[w].loaded]
    <2>1. new \in CloudSaveSession /\ session' = [session EXCEPT ![w] = new]
      <3>1. session[w] \in CloudSaveSession /\ session[w].loaded \in 0..MaxContents
        BY DEF SaveTypeOK, CloudSaveSession
      <3>2. [session[w] EXCEPT !.pc = "waiting"] \in CloudSaveSession
        BY <3>1, SessionFields
      <3>3. [[session[w] EXCEPT !.pc = "waiting"] EXCEPT !.posted = session[w].loaded]
              \in CloudSaveSession
        BY <3>1, <3>2, SessionFields
      <3> QED
        BY <1>3, <3>3 DEF Post
    <2>2. SaveTypeOK'
      BY <1>3, <2>1 DEF Post, SaveTypeOK
    <2>3. Numbered'
      BY <1>3, <2>1 DEF Post, SaveTypeOK, CloudSaveSession, Numbered
    <2>4. Locked'
      BY <1>3, <2>1 DEF Post, SaveTypeOK, CloudSaveSession, Locked
    <2>5. BackupHolds'
      BY <1>3, <2>1 DEF Post, SaveTypeOK, CloudSaveSession, BackupHolds, Numbered
    <2>6. MadeFromSnapshot'
      BY <1>3, <2>1 DEF Post, SaveTypeOK, CloudSaveSession, MadeFromSnapshot, Numbered, Saving
    <2> QED
      BY <2>2, <2>3, <2>4, <2>5, <2>6
  <1>4. ASSUME NEW w \in Windows, BeginSave(w) PROVE SaveInv'
    <2>1. CASE Refuse(w)
      <3>1. Numbered' /\ Locked'
        BY <1>4, <2>1, Refused DEF BeginSave, Lockable, Numbered, Locked
      <3>2. BackupHolds' /\ MadeFromSnapshot'
        BY <1>4, <2>1, Refused DEF BeginSave, BackupHolds, MadeFromSnapshot, Saving
      <3> QED
        BY <2>1, <3>1, <3>2, Refused
    <2>2. CASE ~Refuse(w)
      <3>1. /\ session[w].pc = "waiting" /\ saveLock = NoWindow /\ saveLock' = w
            /\ cloud = session[w].snapshot /\ UNCHANGED <<fileVars, requests>>
        BY <1>4, <2>2 DEF BeginSave, Lockable, Unchanged
      <3> DEFINE copy == IF session[w].kept THEN session[w].backup ELSE 0
                 first == IF session[w].kept THEN session[w].original ELSE cloud
                 new == [session[w] EXCEPT !.pc = "receiving", !.backup = copy, !.original = first]
      <3>2. session' = [session EXCEPT ![w] = new]
        BY <1>4, <2>2 DEF BeginSave
      <3>3. copy \in 0..MaxContents /\ first \in 0..MaxContents
        BY DEF SaveTypeOK, CloudSaveSession
      <3>4. /\ session[w].kept => copy = session[w].backup /\ first = session[w].original
            /\ ~session[w].kept => copy = 0 /\ first = cloud
        BY Zenon
      <3> HIDE DEF copy, first
      <3>5. new \in CloudSaveSession
        BY <3>3 DEF SaveTypeOK, CloudSaveSession
      <3>6. /\ new.pc = "receiving" /\ new.snapshot = session[w].snapshot /\ new.backup = copy
            /\ new.kept = session[w].kept /\ new.original = first
            /\ new.loaded = session[w].loaded /\ new.posted = session[w].posted
        BY DEF SaveTypeOK, CloudSaveSession
      <3> HIDE DEF new
      <3>7. session' \in [Windows -> CloudSaveSession] /\ session'[w] = new
        BY <3>2, <3>5 DEF SaveTypeOK
      <3>8. \A v \in Windows \ {w} : session'[v] = session[v]
        BY <3>2 DEF SaveTypeOK
      <3>9. SaveTypeOK'
        BY <3>1, <3>7 DEF SaveTypeOK
      <3>10. Numbered'
        BY <3>1, <3>6, <3>7, <3>8 DEF SaveTypeOK, CloudSaveSession, Numbered
      <3>11. Locked'
        BY <3>1, <3>6, <3>7, <3>8 DEF SaveTypeOK, CloudSaveSession, Locked
      <3>12. BackupHolds'
        BY <3>1, <3>3, <3>4, <3>6, <3>7, <3>8 DEF SaveTypeOK, CloudSaveSession, BackupHolds
      <3>13. MadeFromSnapshot'
        BY <3>1, <3>6, <3>7, <3>8 DEF SaveTypeOK, CloudSaveSession, MadeFromSnapshot, Saving
      <3> QED
        BY <3>9, <3>10, <3>11, <3>12, <3>13
    <2> QED
      BY <2>1, <2>2
  <1>5. ASSUME NEW w \in Windows, Receive(w) PROVE SaveInv'
    <2>1. session' \in [Windows -> CloudSaveSession]
      <3>1. PICK body \in Body :
               session' = [session EXCEPT ![w] = [session[w] EXCEPT !.pc = "received", !.body = body]]
        BY <1>5 DEF Receive
      <3>2. [session[w] EXCEPT !.pc = "received", !.body = body] \in CloudSaveSession
        <4>1. session[w] \in CloudSaveSession
          BY DEF SaveTypeOK
        <4>2. [session[w] EXCEPT !.pc = "received"] \in CloudSaveSession
          BY <4>1, SessionFields
        <4>3. [[session[w] EXCEPT !.pc = "received"] EXCEPT !.body = body] \in CloudSaveSession
          BY <4>2, SessionFields
        <4> QED
          BY <4>3
      <3> QED
        BY <3>1, <3>2 DEF SaveTypeOK
    <2>2. /\ session'[w].pc = "received" /\ session'[w].snapshot = session[w].snapshot
          /\ session'[w].backup = session[w].backup /\ session'[w].kept = session[w].kept
          /\ session'[w].original = session[w].original /\ session'[w].loaded = session[w].loaded
          /\ session'[w].posted = session[w].posted
      BY <1>5 DEF Receive, SaveTypeOK, CloudSaveSession
    <2>3. \A v \in Windows \ {w} : session'[v] = session[v]
      BY <1>5 DEF Receive, SaveTypeOK
    <2>4. session[w].pc = "receiving" /\ UNCHANGED <<fileVars, saveLock, requests>>
      BY <1>5 DEF Receive
    <2>5. SaveTypeOK'
      BY <2>1, <2>4 DEF SaveTypeOK
    <2>6. Numbered'
      BY <2>1, <2>2, <2>3, <2>4 DEF SaveTypeOK, CloudSaveSession, Numbered
    <2>7. Locked'
      BY <2>1, <2>2, <2>3, <2>4 DEF SaveTypeOK, CloudSaveSession, Locked
    <2>8. BackupHolds'
      BY <2>1, <2>2, <2>3, <2>4 DEF SaveTypeOK, CloudSaveSession, BackupHolds, Numbered
    <2>9. MadeFromSnapshot'
      BY <2>1, <2>2, <2>3, <2>4 DEF SaveTypeOK, CloudSaveSession, MadeFromSnapshot, Numbered, Saving
    <2> QED
      BY <2>5, <2>6, <2>7, <2>8, <2>9
  <1>6. ASSUME NEW w \in Windows, CheckReplacement(w) PROVE SaveInv'
    <2>1. SaveTypeOK'
      BY <1>6 DEF CheckReplacement, Unchanged, SaveTypeOK, CloudSaveSession
    <2>2. Numbered'
      BY <1>6 DEF CheckReplacement, Unchanged, SaveTypeOK, Numbered, CloudSaveSession
    <2>3. Locked'
      <3>1. session[w].body \in {"points", "whole"}
        BY <1>6 DEF CheckReplacement, Acceptable, SaveTypeOK, CloudSaveSession
      <3>2. session' = [session EXCEPT ![w].pc = "checked"] /\ session[w].pc = "received" /\ UNCHANGED saveLock
        BY <1>6 DEF CheckReplacement
      <3>3. session'[w].body = session[w].body /\ \A v \in Windows \ {w} : session'[v] = session[v]
        BY <3>2 DEF SaveTypeOK, CloudSaveSession
      <3> QED
        BY <3>1, <3>2, <3>3 DEF SaveTypeOK, Locked, CloudSaveSession
    <2>4. BackupHolds'
      BY <1>6 DEF CheckReplacement, Unchanged, SaveTypeOK, BackupHolds, Numbered, CloudSaveSession
    <2>5. MadeFromSnapshot'
      BY <1>6 DEF CheckReplacement, Unchanged, SaveTypeOK, MadeFromSnapshot, Numbered, Saving, CloudSaveSession
    <2> QED
      BY <2>1, <2>2, <2>3, <2>4, <2>5
  <1>7. ASSUME NEW w \in Windows, BackUp(w) PROVE SaveInv'
    <2>1. session' \in [Windows -> CloudSaveSession]
      <3>1. /\ [session[w] EXCEPT !.pc = "backed"] \in CloudSaveSession
            /\ [session[w] EXCEPT !.pc = "backed", !.backup = cloud, !.kept = TRUE] \in CloudSaveSession
        BY DEF SaveTypeOK, CloudSaveSession
      <3> QED
        BY <1>7, <3>1 DEF BackUp, SaveTypeOK
    <2>2. /\ session'[w].pc = "backed" /\ session'[w].snapshot = session[w].snapshot
          /\ session'[w].original = session[w].original /\ session'[w].loaded = session[w].loaded
          /\ session'[w].posted = session[w].posted /\ session'[w].body = session[w].body
      BY <1>7 DEF BackUp, SaveTypeOK, CloudSaveSession
    <2>3. /\ session[w].backup # 0 => session'[w].backup = session[w].backup
          /\ session[w].backup = 0 => session'[w].backup = cloud
      BY <1>7 DEF BackUp, SaveTypeOK, CloudSaveSession
    <2>4. \A v \in Windows \ {w} : session'[v] = session[v]
      BY <1>7 DEF BackUp, SaveTypeOK
    <2>5. session[w].pc = "checked" /\ UNCHANGED <<fileVars, saveLock, requests>>
      BY <1>7 DEF BackUp
    <2>6. SaveTypeOK'
      BY <2>1, <2>5 DEF SaveTypeOK
    <2>7. Numbered'
      BY <2>1, <2>2, <2>3, <2>4, <2>5 DEF SaveTypeOK, CloudSaveSession, Numbered
    <2>8. Locked'
      BY <2>1, <2>2, <2>3, <2>4, <2>5 DEF SaveTypeOK, CloudSaveSession, Locked
    <2>9. BackupHolds'
      BY <2>1, <2>2, <2>3, <2>4, <2>5 DEF SaveTypeOK, CloudSaveSession, BackupHolds, Numbered
    <2>10. MadeFromSnapshot'
      BY <2>1, <2>2, <2>3, <2>4, <2>5 DEF SaveTypeOK, CloudSaveSession, MadeFromSnapshot, Numbered, Saving
    <2> QED
      BY <2>6, <2>7, <2>8, <2>9, <2>10
  <1>8. ASSUME NEW w \in Windows, Recheck(w) PROVE SaveInv'
    <2>1. SaveTypeOK'
      BY <1>8 DEF Recheck, Unchanged, SaveTypeOK, CloudSaveSession
    <2>2. Numbered'
      BY <1>8 DEF Recheck, Unchanged, SaveTypeOK, Numbered, CloudSaveSession
    <2>3. Locked'
      BY <1>8 DEF Recheck, Unchanged, SaveTypeOK, Locked, CloudSaveSession
    <2>4. BackupHolds'
      BY <1>8 DEF Recheck, Unchanged, SaveTypeOK, BackupHolds, Numbered, CloudSaveSession
    <2>5. MadeFromSnapshot'
      BY <1>8 DEF Recheck, Unchanged, SaveTypeOK, MadeFromSnapshot, Numbered, Saving, CloudSaveSession
    <2> QED
      BY <2>1, <2>2, <2>3, <2>4, <2>5
  <1>9. ASSUME NEW w \in Windows, Replace(w) PROVE SaveInv'
    <2>1. SaveTypeOK'
      BY <1>9 DEF Replace, SaveTypeOK, CloudSaveSession
    <2>2. Numbered'
      BY <1>9 DEF Replace, SaveTypeOK, Numbered, Locked, CloudSaveSession
    <2>3. Locked'
      BY <1>9 DEF Replace, SaveTypeOK, Locked, CloudSaveSession
    <2>4. BackupHolds'
      BY <1>9 DEF Replace, SaveTypeOK, BackupHolds, Numbered, Locked, CloudSaveSession
    <2>5. MadeFromSnapshot'
      BY <1>9 DEF Replace, SaveTypeOK, MadeFromSnapshot, Numbered, Saving, Locked, CloudSaveSession
    <2> QED
      BY <2>1, <2>2, <2>3, <2>4, <2>5
  <1>10. ASSUME NEW w \in Windows, Remember(w) PROVE SaveInv'
    <2>1. session' \in [Windows -> CloudSaveSession]
      <3> DEFINE page == IF session[w].loaded = session[w].posted THEN cloud
                         ELSE session[w].loaded
      <3>1. [session[w] EXCEPT !.pc = "open", !.snapshot = cloud, !.body = "none", !.posted = 0,
               !.loaded = page] \in CloudSaveSession
        <4>1. session[w] \in CloudSaveSession /\ cloud \in 0..MaxContents /\ page \in 0..MaxContents
              /\ 0 \in 0..MaxContents
          BY WindowsAssumption DEF SaveTypeOK, CloudSaveSession
        <4> HIDE DEF page
        <4> QED
          BY <4>1 DEF CloudSaveSession
      <3> QED
        BY <1>10, <3>1 DEF Remember, SaveTypeOK
    <2>2. /\ session'[w].pc = "open" /\ session'[w].snapshot = cloud
          /\ session'[w].backup = session[w].backup /\ session'[w].kept = session[w].kept
          /\ session'[w].original = session[w].original
          /\ session'[w].loaded \in {cloud, session[w].loaded}
      BY <1>10 DEF Remember, SaveTypeOK, CloudSaveSession
    <2>3. \A v \in Windows \ {w} : session'[v] = session[v]
      BY <1>10 DEF Remember, SaveTypeOK
    <2>4. session[w].pc = "replaced" /\ saveLock' = NoWindow /\ UNCHANGED <<fileVars, requests>>
      BY <1>10 DEF Remember
    <2>5. SaveTypeOK'
      BY <2>1, <2>4 DEF SaveTypeOK
    <2>6. Numbered'
      BY <2>1, <2>2, <2>3, <2>4 DEF SaveTypeOK, CloudSaveSession, Numbered
    <2>7. Locked'
      BY <2>1, <2>2, <2>3, <2>4 DEF SaveTypeOK, CloudSaveSession, Locked
    <2>8. BackupHolds'
      BY <2>1, <2>2, <2>3, <2>4 DEF SaveTypeOK, CloudSaveSession, BackupHolds, Numbered
    <2>9. MadeFromSnapshot'
      BY <2>1, <2>2, <2>3, <2>4 DEF SaveTypeOK, CloudSaveSession, MadeFromSnapshot, Numbered, Saving
    <2> QED
      BY <2>5, <2>6, <2>7, <2>8, <2>9
  <1>11. ASSUME NEW w \in Windows, SaveFails(w) PROVE SaveInv'
    <2>1. Refuse(w) /\ session[w].pc \in InSave
      BY <1>11 DEF SaveFails
    <2>2. Numbered' /\ Locked'
      BY <2>1, Refused DEF Numbered, Locked
    <2>3. BackupHolds' /\ MadeFromSnapshot'
      BY <2>1, Refused DEF BackupHolds, MadeFromSnapshot, Saving
    <2> QED
      BY <2>1, <2>2, <2>3, Refused
  <1>12. ASSUME NEW w \in Windows, DeleteBackup(w) PROVE SaveInv'
    <2> DEFINE new == [session[w] EXCEPT !.kept = FALSE]
    <2>1. new \in CloudSaveSession /\ session' = [session EXCEPT ![w] = new]
      BY <1>12 DEF DeleteBackup, SaveTypeOK, CloudSaveSession
    <2>2. SaveTypeOK'
      BY <1>12, <2>1 DEF DeleteBackup, SaveTypeOK
    <2>3. Numbered'
      BY <1>12, <2>1 DEF DeleteBackup, SaveTypeOK, CloudSaveSession, Numbered
    <2>4. Locked'
      BY <1>12, <2>1 DEF DeleteBackup, SaveTypeOK, CloudSaveSession, Locked
    <2>5. BackupHolds'
      BY <1>12, <2>1 DEF DeleteBackup, SaveTypeOK, CloudSaveSession, BackupHolds, Numbered
    <2>6. MadeFromSnapshot'
      BY <1>12, <2>1 DEF DeleteBackup, SaveTypeOK, CloudSaveSession, MadeFromSnapshot, Numbered, Saving
    <2> QED
      BY <2>2, <2>3, <2>4, <2>5, <2>6
  <1>13. CASE EditOutside
    <2>1. SaveTypeOK'
      BY <1>13 DEF EditOutside, SaveTypeOK, CloudSaveSession
    <2>2. Numbered'
      BY <1>13 DEF EditOutside, SaveTypeOK, Numbered, CloudSaveSession
    <2>3. Locked'
      BY <1>13 DEF EditOutside, SaveTypeOK, Locked, CloudSaveSession
    <2>4. BackupHolds'
      BY <1>13 DEF EditOutside, SaveTypeOK, BackupHolds, Numbered, CloudSaveSession
    <2>5. MadeFromSnapshot'
      BY <1>13 DEF EditOutside, SaveTypeOK, MadeFromSnapshot, Numbered, Saving, CloudSaveSession
    <2> QED
      BY <2>1, <2>2, <2>3, <2>4, <2>5
  <1>14. CASE EndApplication
    <2>1. saveLock' = NoWindow /\ UNCHANGED <<fileVars, requests>>
      BY <1>14 DEF EndApplication
    <2>2. /\ session' \in [Windows -> CloudSaveSession]
          /\ \A w \in Windows :
                /\ session'[w].pc = "gone" /\ session'[w].snapshot = 0 /\ session'[w].loaded = 0
                /\ session'[w].backup = session[w].backup /\ session'[w].kept = session[w].kept
      <3> DEFINE left(w) == [NoSession EXCEPT
                               !.pc = "gone", !.backup = session[w].backup, !.kept = session[w].kept,
                               !.original = session[w].original]
      <3>1. ASSUME NEW w \in Windows
            PROVE  /\ left(w) \in CloudSaveSession /\ left(w).pc = "gone"
                   /\ left(w).snapshot = 0 /\ left(w).loaded = 0
                   /\ left(w).backup = session[w].backup /\ left(w).kept = session[w].kept
        <4>1. session[w] \in CloudSaveSession
          BY DEF SaveTypeOK
        <4>2. NoSession \in CloudSaveSession
          BY WindowsAssumption DEF NoSession, CloudSaveSession
        <4>3. /\ session[w].backup \in 0..MaxContents /\ session[w].kept \in BOOLEAN
              /\ session[w].original \in 0..MaxContents
          BY <4>1 DEF CloudSaveSession
        <4>4. left(w) \in CloudSaveSession
          BY <4>2, <4>3 DEF CloudSaveSession
        <4> QED
          BY <4>4 DEF NoSession
      <3>2. session' = [w \in Windows |-> left(w)]
        BY <1>14 DEF EndApplication
      <3> HIDE DEF left
      <3> QED
        BY <3>1, <3>2
    <2>3. SaveTypeOK'
      BY <2>1, <2>2 DEF SaveTypeOK
    <2>4. Numbered' /\ Locked'
      BY <2>1, <2>2 DEF SaveTypeOK, Numbered, Locked
    <2>5. BackupHolds' /\ MadeFromSnapshot'
      BY <2>1, <2>2 DEF SaveTypeOK, BackupHolds, MadeFromSnapshot, Numbered, Saving
    <2> QED
      BY <2>3, <2>4, <2>5
  <1>15. CASE UNCHANGED saveVars
    BY <1>15 DEF SaveTypeOK, Numbered, Locked, BackupHolds, MadeFromSnapshot, Saving
  <1> QED
    BY <1>1, <1>2, <1>3, <1>4, <1>5, <1>6, <1>7, <1>8, <1>9, <1>10, <1>11, <1>12, <1>13, <1>14, <1>15 DEF SaveNext, Handle

-----------------------------------------------------------------------------
(* What a save may cost, and where it is kept. *)

\* A body that was let through is whole unless the file is ASCII, a backup is numbered
\* like the contents, and only the user takes one away.
Backed ==
    /\ bare # {} => ascii
    /\ \A w \in Windows :
          /\ (~ascii /\ session[w].pc \in {"checked", "backed", "replacing"}) =>
                session[w].body = "whole"
          /\ session[w].backup <= contents
          /\ ~deleted /\ session[w].backup # 0 => session[w].kept
    /\ WayBack

\* What a step that writes neither the file nor a backup has to leave alone.
LEMMA BackedStays ==
    ASSUME Backed, UNCHANGED fileVars, NEW w \in Windows, session \in [Windows -> CloudSaveSession],
           \A v \in Windows \ {w} : session'[v] = session[v],
           \/ session'[w].backup = session[w].backup /\ session'[w].kept = session[w].kept
           \/ ~session[w].kept /\ session'[w].backup = 0,
           session'[w].pc \in {"checked", "backed", "replacing"} =>
              \/ session[w].pc \in {"checked", "backed", "replacing"} /\ session'[w].body = session[w].body
              \/ ~ascii => session'[w].body = "whole",
           contents \in Nat
    PROVE  Backed'
  <1>1. \A v \in Windows :
           /\ (~ascii /\ session'[v].pc \in {"checked", "backed", "replacing"}) =>
                 session'[v].body = "whole"
           /\ session'[v].backup <= contents
           /\ ~deleted /\ session'[v].backup # 0 => session'[v].kept
    BY DEF Backed
  <1>2. \A v \in Windows : session[v].kept => session'[v].backup = session[v].backup /\ session'[v].kept
    OBVIOUS
  <1>3. WayBack'
    BY <1>2 DEF Backed, WayBack
  <1> QED
    BY <1>1, <1>3 DEF Backed

\* Every step keeps Backed: the first bare content takes the place of one that its
\* session has copied, and of the later ones none replaces a backup.
LEMMA BackedKept == ASSUME SaveInv, Backed, [SaveNext]_saveVars PROVE Backed'
  <1> USE DEF SaveInv
  <1>0. session \in [Windows -> CloudSaveSession] /\ contents \in Nat
    BY WindowsAssumption DEF SaveTypeOK
  <1>1. ASSUME NEW w \in Windows, OpenWindow(w) PROVE Backed'
    <2> DEFINE new == [NoSession EXCEPT !.pc = "open", !.snapshot = cloud, !.original = cloud]
    <2>1. new.pc = "open" /\ new.backup = 0
      BY DEF NoSession
    <2>2. session' = [session EXCEPT ![w] = new] /\ session[w].pc = "closed" /\ UNCHANGED fileVars
      BY <1>1 DEF OpenWindow
    <2> HIDE DEF new
    <2>3. ~session[w].kept
      BY <2>2 DEF BackupHolds
    <2> QED
      BY <1>0, <2>1, <2>2, <2>3, BackedStays
  <1>2. ASSUME NEW w \in Windows, Load(w) \/ Receive(w) \/ Recheck(w) PROVE Backed'
    <2>1. CASE Load(w)
      <3>1. /\ UNCHANGED fileVars /\ \A v \in Windows \ {w} : session'[v] = session[v]
            /\ session'[w].backup = session[w].backup /\ session'[w].kept = session[w].kept
            /\ session'[w].pc = session[w].pc /\ session'[w].body = session[w].body
        BY <1>0, <2>1 DEF Load, CloudSaveSession
      <3> QED
        BY <1>0, <3>1, BackedStays
    <2>2. CASE Receive(w)
      <3>1. /\ UNCHANGED fileVars /\ \A v \in Windows \ {w} : session'[v] = session[v]
            /\ session'[w].backup = session[w].backup /\ session'[w].kept = session[w].kept
            /\ session'[w].pc = "received"
        BY <1>0, <2>2 DEF Receive, CloudSaveSession
      <3> QED
        BY <1>0, <3>1, BackedStays
    <2>3. CASE Recheck(w)
      <3>1. /\ UNCHANGED fileVars /\ \A v \in Windows \ {w} : session'[v] = session[v]
            /\ session'[w].backup = session[w].backup /\ session'[w].kept = session[w].kept
            /\ session[w].pc = "backed" /\ session'[w].body = session[w].body
        BY <1>0, <2>3 DEF Recheck, CloudSaveSession
      <3> QED
        BY <1>0, <3>1, BackedStays
    <2> QED
      BY <1>2, <2>1, <2>2, <2>3
  <1>3. ASSUME NEW w \in Windows, Post(w) PROVE Backed'
    <2>1. /\ UNCHANGED fileVars /\ \A v \in Windows \ {w} : session'[v] = session[v]
          /\ session'[w].backup = session[w].backup /\ session'[w].kept = session[w].kept
          /\ session'[w].pc = "waiting"
      BY <1>0, <1>3 DEF Post, CloudSaveSession
    <2> QED
      BY <1>0, <2>1, BackedStays
  <1>4. ASSUME NEW w \in Windows, Refuse(w) PROVE Backed'
    BY <1>0, <1>4, Refused, BackedStays
  <1>5. ASSUME NEW w \in Windows, BeginSave(w), ~Refuse(w) PROVE Backed'
    <2>1. /\ UNCHANGED fileVars /\ \A v \in Windows \ {w} : session'[v] = session[v]
          /\ session'[w].pc = "receiving" /\ session'[w].kept = session[w].kept
          /\ session'[w].backup = IF session[w].kept THEN session[w].backup ELSE 0
      <3> DEFINE new == [session[w] EXCEPT
                           !.pc = "receiving",
                           !.backup = IF session[w].kept THEN session[w].backup ELSE 0,
                           !.original = IF session[w].kept THEN session[w].original ELSE cloud]
      <3>1. UNCHANGED fileVars /\ session' = [session EXCEPT ![w] = new]
        BY <1>5 DEF BeginSave
      <3>2. /\ new.pc = "receiving" /\ new.kept = session[w].kept
            /\ new.backup = IF session[w].kept THEN session[w].backup ELSE 0
        BY <1>0 DEF CloudSaveSession
      <3> HIDE DEF new
      <3> QED
        BY <1>0, <3>1, <3>2
    <2> QED
      BY <1>0, <2>1, BackedStays
  <1>6. ASSUME NEW w \in Windows, CheckReplacement(w) PROVE Backed'
    <2>1. /\ UNCHANGED fileVars /\ \A v \in Windows \ {w} : session'[v] = session[v]
          /\ session'[w].backup = session[w].backup /\ session'[w].kept = session[w].kept
          /\ session'[w].body = session[w].body
      BY <1>0, <1>6 DEF CheckReplacement, CloudSaveSession
    <2>2. ~ascii => session[w].body = "whole"
      BY <1>6 DEF CheckReplacement, Acceptable, Backed
    <2> QED
      BY <1>0, <2>1, <2>2, BackedStays
  <1>7. ASSUME NEW w \in Windows, Remember(w) PROVE Backed'
    <2>1. /\ UNCHANGED fileVars /\ \A v \in Windows \ {w} : session'[v] = session[v]
          /\ session'[w].backup = session[w].backup /\ session'[w].kept = session[w].kept
          /\ session'[w].pc = "open"
      BY <1>0, <1>7 DEF Remember, CloudSaveSession
    <2> QED
      BY <1>0, <2>1, BackedStays
  <1>8. CASE EndApplication
    <2>1. UNCHANGED fileVars
      BY <1>8 DEF EndApplication
    <2>2. \A v \in Windows : /\ session'[v].backup = session[v].backup /\ session'[v].kept = session[v].kept
                             /\ session'[v].pc = "gone"
      BY <1>8 DEF EndApplication, NoSession
    <2> QED
      BY <2>1, <2>2 DEF Backed, WayBack
  <1>9. ASSUME NEW w \in Windows, BackUp(w) PROVE Backed'
    <2>1. /\ UNCHANGED fileVars /\ \A v \in Windows \ {w} : session'[v] = session[v]
          /\ session[w].pc = "checked" /\ session'[w].pc = "backed"
          /\ session'[w].body = session[w].body
          /\ \/ session'[w].backup = session[w].backup /\ session'[w].kept = session[w].kept
             \/ session[w].backup = 0 /\ session'[w].backup = cloud /\ session'[w].kept
      BY <1>0, <1>9 DEF BackUp, CloudSaveSession
    <2>2. CASE session'[w].backup = session[w].backup /\ session'[w].kept = session[w].kept
      BY <1>0, <2>1, <2>2, BackedStays
    <2>3. CASE session[w].backup = 0 /\ session'[w].backup = cloud /\ session'[w].kept
      <3>1. ~session[w].kept
        BY <2>3 DEF BackupHolds
      <3>2. WayBack'
        BY <2>1, <3>1 DEF Backed, WayBack
      <3> QED
        BY <1>0, <2>1, <2>3, <3>2 DEF Backed, Numbered
    <2> QED
      BY <2>1, <2>2, <2>3
  <1>10. ASSUME NEW w \in Windows, Replace(w) PROVE Backed'
    <2>1. /\ contents' = contents + 1 /\ UNCHANGED <<ascii, deleted>>
          /\ bare' = IF session[w].body = "points" THEN bare \cup {contents'} ELSE bare
          /\ session[w].pc = "replacing" /\ session'[w].pc = "replaced"
          /\ \A v \in Windows \ {w} : session'[v] = session[v]
          /\ session'[w].backup = session[w].backup /\ session'[w].kept = session[w].kept
      BY <1>0, <1>10 DEF Replace, CloudSaveSession
    <2>2. \A v \in Windows : /\ session'[v].backup = session[v].backup /\ session'[v].kept = session[v].kept
                             /\ session[v].backup \in Nat
      BY <1>0, <2>1 DEF CloudSaveSession
    <2>3. session[w].body = "points" => ascii
      BY <2>1 DEF Backed
    <2>4. CASE bare # {} \/ session[w].body # "points"
      <3>1. bare' # {} => bare # {}
        BY <2>1, <2>4
      <3>2. \A n \in (1..contents) \ bare : n \in (1..contents') \ bare'
        BY <1>0, <2>1
      <3>3. WayBack'
        BY <2>1, <2>2, <3>1, <3>2 DEF Backed, WayBack
      <3> QED
        BY <1>0, <2>1, <2>2, <2>3, <3>3 DEF Backed
    <2>5. CASE bare = {} /\ session[w].body = "points"
      <3>1. session[w].backup # 0 /\ session[w].backup <= contents /\ (deleted \/ session[w].kept)
        BY <2>1 DEF BackupHolds, Backed
      <3>2. session[w].backup \in (1..contents') \ bare'
        BY <1>0, <2>1, <2>2, <2>5, <3>1
      <3>3. WayBack'
        BY <2>1, <2>2, <3>1, <3>2 DEF WayBack
      <3> QED
        BY <1>0, <2>1, <2>2, <2>3, <3>3 DEF Backed
    <2> QED
      BY <2>4, <2>5
  <1>11. ASSUME NEW w \in Windows, DeleteBackup(w) PROVE Backed'
    <2>1. /\ deleted' /\ UNCHANGED <<cloud, contents, ascii, bare>>
          /\ \A v \in Windows : /\ session'[v].pc = session[v].pc /\ session'[v].body = session[v].body
                                /\ session'[v].backup = session[v].backup
      BY <1>0, <1>11 DEF DeleteBackup, CloudSaveSession
    <2> QED
      BY <2>1 DEF Backed, WayBack
  <1>12. CASE EditOutside
    <2>1. contents' = contents + 1 /\ UNCHANGED <<ascii, bare, deleted, session>>
      BY <1>12 DEF EditOutside
    <2>2. \A w \in Windows : session[w].backup \in Nat
      BY <1>0 DEF CloudSaveSession
    <2>3. \A n \in (1..contents) \ bare : n \in (1..contents') \ bare
      BY <1>0, <2>1
    <2> QED
      BY <1>0, <2>1, <2>2, <2>3 DEF Backed, WayBack
  <1>13. CASE UNCHANGED saveVars
    BY <1>13 DEF Backed, WayBack
  <1> QED
    BY <1>1, <1>2, <1>3, <1>4, <1>5, <1>6, <1>7, <1>8, <1>9, <1>10, <1>11, <1>12, <1>13
    DEF SaveNext, Handle, SaveFails

\* CloudKept: whatever the handlers are doing, whatever body they were sent and whenever
\* the application ends, the PLY has its header and its points, all it declares if it is
\* binary; what an ASCII one loses after its points is in a backup until the user deletes
\* one; and before a window replaces the file its backup holds the content the window
\* first found there.
THEOREM SpecKeepsCloud == SaveSpec => []CloudKept
  <1>1. SaveInv /\ Backed => CloudKept
    <2> SUFFICES ASSUME SaveInv, Backed PROVE CloudKept
      OBVIOUS
    <2>1. CloudReadable
      BY WindowsAssumption DEF SaveInv, Backed, CloudReadable, SaveTypeOK, Numbered
    <2>2. BackupOfOriginal
      BY DEF SaveInv, BackupOfOriginal, BackupHolds
    <2> QED
      BY <2>1, <2>2 DEF Backed, CloudKept
  <1>2. SaveInit => Backed
    BY DEF SaveInit, Backed, WayBack, NoSession
  <1> QED
    BY <1>1, <1>2, SaveInitEstablishes, SaveStepPreserves, BackedKept, PTL DEF SaveSpec

\* SavesKeepEachOther: os.replace puts a window's content in the place of one it was
\* made from, of its own, or of one a program outside wrote, never of another
\* window's save.
THEOREM SpecKeepsSaves == SaveSpec => SavesKeepEachOther
  <1> DEFINE Kept == \A w \in Windows :
                        (session[w].pc = "replacing" /\ session'[w].pc = "replaced")
                            => (session[w].posted = cloud \/ author \in {w, "outside"})
  <1>1. SaveInv /\ [SaveNext]_saveVars => [Kept]_saveVars
    <2> SUFFICES ASSUME SaveInv, NEW w \in Windows,
                        session[w].pc = "replacing", session'[w].pc = "replaced"
                 PROVE  session[w].posted = cloud \/ author \in {w, "outside"}
      OBVIOUS
    <2> QED
      BY DEF SaveInv, MadeFromSnapshot, Saving
  <1> QED
    BY <1>1, SaveInitEstablishes, SaveStepPreserves, PTL DEF SaveSpec, SavesKeepEachOther
============================================================================
