---------------------------- MODULE PhotoWorker ----------------------------
(***************************************************************************)
(* The three worker programs of the photo-to-cloud application: the        *)
(* reconstruction (reconstruct.py with colmap_cl_backend.py and            *)
(* raw_import.py), the Poisson mesher (mesh_worker.py) and the texturer    *)
(* (texture_worker.py).  One of them runs at a time, in a process of its   *)
(* own; the window asks it to stop through a cancel file.                  *)
(*                                                                         *)
(* A stage of a worker is a step; the step ends with the stage's           *)
(* check_cancel.  What COLMAP and OpenMVS make of the photographs is a     *)
(* choice: a stage succeeds or fails, and the camera model is one of       *)
(* CameraModels.                                                           *)
(***************************************************************************)
EXTENDS Integers, Sequences

CONSTANTS
    CameraModels,   \* [registered, inputs, points, error], error -1 when unknown
    Candidates      \* the GLB files TextureMesh writes: [chunk, length, images]

ASSUME WorkerAssumption ==
    /\ CameraModels \subseteq [registered : Nat, inputs : Nat, points : Nat, error : Int]
    /\ Candidates \subseteq [chunk : Nat, length : Nat, images : Seq(Nat)]

Modes == {"sparse-cpu", "dense-cpu", "dense-amd", "dense-opencl"}

VARIABLES
    worker,     \* the worker process: its task, mode, pc, exit code and data
    cancelFile, \* the cancel file of the job exists
    program,    \* the external program the worker runs: "none", "running", "ok", "bad"
    report,     \* status in the report.json of the newest result directory
    clouds,     \* PLY files in that directory
    matches,    \* who wrote the matches in its database: a set of "cpu", "gpu"
    saved,      \* the copy of the database: a set, or {"none"}
    outputs,    \* mesh, mesh report and GLB at the chosen names
    temporary   \* temporary files of the mesh and texture workers

workVars == <<worker, cancelFile, program, report, clouds, matches, saved, outputs, temporary>>
resultVars == <<report, clouds, matches, saved>>
outputVars == <<outputs, temporary>>

NoModel == [registered |-> 0, inputs |-> 0, points |-> 0, error |-> -1]
NoGlb == [chunk |-> 0, length |-> 0, views |-> <<>>]
NoWorker == [task |-> "none", mode |-> "sparse-cpu", pc |-> "exited", code |-> 0,
             error |-> "none", told |-> FALSE, model |-> NoModel, glb |-> NoGlb]
Started(task, mode) == [NoWorker EXCEPT !.task = task, !.mode = mode, !.pc = "checks"]

WorkerInit ==
    /\ worker = NoWorker /\ cancelFile = FALSE /\ program = "none"
    /\ report = "none" /\ clouds = {} /\ matches = {} /\ saved = {"none"}
    /\ outputs = [mesh |-> "absent", meshReport |-> "absent", glb |-> "absent"]
    /\ temporary = {}

Alive == worker.pc # "exited"
At(task, pc) == worker.task = task /\ worker.pc = pc

Goto(pc) == worker' = [worker EXCEPT !.pc = pc]
Exit(code) == worker' = [worker EXCEPT !.pc = "exited", !.code = code]
\* An exception is on its way out of the worker's function; told: history, a stop had
\* been asked for by then.
Raise(error) == worker' = [worker EXCEPT !.pc = "raising", !.error = error, !.told = cancelFile]

\* A stage ended: check_cancel raises, the stage failed, or the worker goes on.
Stage(next) ==
    \/ cancelFile /\ Raise("cancelled")
    \/ ~cancelFile /\ next
    \/ Raise("failed")

(***************************************************************************)
(* External programs                                                       *)
(***************************************************************************)
ExternalStages == {"cl_match", "dense1", "dense2", "interface", "texturer"}

Launch ==
    /\ worker.pc \in ExternalStages /\ program = "none"
    /\ \/ ~cancelFile /\ program' = "running" /\ UNCHANGED worker
       \/ cancelFile /\ Raise("cancelled") /\ UNCHANGED program
       \/ ~cancelFile /\ Raise("failed") /\ UNCHANGED program
    /\ UNCHANGED <<cancelFile, resultVars, outputVars>>

\* COLMAP-CL writes its matches into the database while it runs.
ProgramWrites ==
    /\ program = "running" /\ worker.pc = "cl_match"
    /\ matches' = matches \cup {"gpu"}
    /\ UNCHANGED <<worker, cancelFile, program, report, clouds, saved, outputVars>>

ProgramExits ==
    /\ program = "running"
    /\ program' \in {"ok", "bad"}
    /\ UNCHANGED <<worker, cancelFile, resultVars, outputVars>>

\* Mutant: the cancel file is looked at only once the program has ended.
StopProgramLate ==
    /\ program \in {"ok", "bad"} /\ cancelFile
    /\ program' = "none" /\ Raise("cancelled")
    /\ UNCHANGED <<cancelFile, resultVars, outputVars>>

\* The poll sees the cancel file: terminate, wait five seconds, kill, wait.
StopProgram ==
    /\ program = "running" /\ cancelFile
    /\ program' = "none" /\ Raise("cancelled")
    /\ UNCHANGED <<cancelFile, resultVars, outputVars>>

NextStage == [cl_match |-> "cl_verify", dense1 |-> "dense2", dense2 |-> "finish",
              interface |-> "texturer", texturer |-> "embed"]

\* The program is gone: check_cancel, then its exit code and what it left behind.
Reap ==
    /\ program \in {"ok", "bad"}
    /\ program' = "none"
    /\ \/ cancelFile /\ Raise("cancelled") /\ UNCHANGED clouds
       \/ ~cancelFile /\ program = "ok" /\ Goto(NextStage[worker.pc])
          /\ clouds' = clouds \cup (IF worker.pc = "dense2" THEN {"dense"} ELSE {})
       \/ ~cancelFile /\ Raise("failed") /\ UNCHANGED clouds
    /\ UNCHANGED <<cancelFile, report, matches, saved, outputVars>>

(***************************************************************************)
(* reconstruct.py                                                          *)
(***************************************************************************)
\* Arguments, images and engines are checked before the result directory is made:
\* a stop here leaves no report, a failure none or half of the first one; a check that
\* fails does not ask the cancel file.
Reconstruct ==
    /\ At("reconstruction", "checks")
    /\ \/ ~cancelFile /\ Goto("prepare") /\ report' = "running"
       \/ Exit(1) /\ report' \in {"none", "torn"}
       \/ cancelFile /\ Exit(130) /\ UNCHANGED report
    /\ UNCHANGED <<cancelFile, program, clouds, matches, saved, outputVars>>

\* prepare_images, for CR2 input, and extract_features.
PrepareImages ==
    /\ At("reconstruction", "prepare") /\ Stage(Goto("extract"))
    /\ UNCHANGED <<cancelFile, program, resultVars, outputVars>>
ExtractFeatures ==
    /\ At("reconstruction", "extract") /\ Stage(Goto("match"))
    /\ UNCHANGED <<cancelFile, program, resultVars, outputVars>>

\* match_exhaustive on the CPU.
MatchOnCpu ==
    /\ At("reconstruction", "match") /\ worker.mode # "dense-opencl"
    /\ matches' \in {matches, {"cpu"}}
    /\ Stage(Goto("pairs"))
    /\ UNCHANGED <<cancelFile, program, report, clouds, saved, outputVars>>

\* match_with_opencl_fallback copies the database before COLMAP-CL works on it.
CopyDatabase ==
    /\ At("reconstruction", "match") /\ worker.mode = "dense-opencl"
    /\ \/ saved' = matches /\ Goto("cl_match")
       \/ Raise("failed") /\ UNCHANGED saved
    /\ UNCHANGED <<cancelFile, program, report, clouds, matches, outputVars>>

\* COLMAP-CL is accepted only with its device confirmed and verified pairs; otherwise,
\* and when its program failed, the copy is put back and the CPU matches.
VerifyOpencl ==
    /\ At("reconstruction", "cl_verify")
    /\ \/ Goto("pairs") /\ saved' = {"none"} /\ UNCHANGED matches
       \/ Goto("cl_restore") /\ UNCHANGED <<matches, saved>>
    /\ UNCHANGED <<cancelFile, program, report, clouds, outputVars>>

\* Mutant: the CPU matches on top of what COLMAP-CL left.
RestoreDatabaseNever ==
    /\ UNCHANGED <<matches, saved>>

RestoreDatabase ==
    /\ matches' = saved /\ UNCHANGED saved

OpenclFails == worker.pc = "raising" /\ saved # {"none"}

FallBack ==
    /\ worker.task = "reconstruction"
    /\ worker.pc = "cl_restore" \/ (OpenclFails /\ worker.error # "cancelled")
    /\ RestoreDatabase
    /\ worker' = [worker EXCEPT !.pc = "cpu_match", !.error = "none"]
    /\ UNCHANGED <<cancelFile, program, report, clouds, outputVars>>
CancelOpencl ==
    /\ worker.task = "reconstruction" /\ OpenclFails /\ worker.error = "cancelled"
    /\ matches' = saved /\ saved' = {"none"}
    /\ UNCHANGED <<worker, cancelFile, program, report, clouds, outputVars>>
MatchAfterOpencl ==
    /\ At("reconstruction", "cpu_match")
    /\ saved' = {"none"} /\ matches' = matches \cup {"cpu"}
    /\ Stage(Goto("pairs"))
    /\ UNCHANGED <<cancelFile, program, report, clouds, outputVars>>

\* No verified pair ends the run with a report of why; otherwise the mapper runs.
CountPairs ==
    /\ At("reconstruction", "pairs")
    /\ Raise("failed") \/ Goto("map")
    /\ UNCHANGED <<cancelFile, program, resultVars, outputVars>>

\* assess_reconstruction_quality: the reasons that forbid a dense reconstruction.  The
\* pairs were counted already; -1 is an error COLMAP did not measure.
Rejected(m) ==
    \/ m.registered < 3
    \/ m.points < 1
    \/ 2 * m.registered < m.inputs
    \/ m.error > 8

\* incremental_mapping, the assessment, sparse.ply, and the gate before the dense stage.
MapCameras ==
    /\ At("reconstruction", "map")
    /\ \/ cancelFile /\ Raise("cancelled") /\ UNCHANGED clouds
       \/ Raise("failed") /\ UNCHANGED clouds
       \/ \E m \in CameraModels :
             /\ ~cancelFile
             /\ clouds' = IF m.points < 1 THEN clouds ELSE clouds \cup {"sparse"}
             /\ worker' = [worker EXCEPT !.model = m,
                  !.pc = IF m.points < 1 \/ (worker.mode # "sparse-cpu" /\ Rejected(m))
                         THEN "raising"
                         ELSE IF worker.mode = "sparse-cpu" THEN "finish" ELSE "undistort",
                  !.error = "failed"]
    /\ UNCHANGED <<cancelFile, program, report, matches, saved, outputVars>>

Undistort ==
    /\ At("reconstruction", "undistort") /\ Stage(Goto("dense1"))
    /\ UNCHANGED <<cancelFile, program, resultVars, outputVars>>

\* The points are counted and the preview made; its failure is only recorded.
Finish ==
    /\ At("reconstruction", "finish") /\ Stage(Goto("succeeding"))
    /\ UNCHANGED <<cancelFile, program, resultVars, outputVars>>

\* report.json says succeeded; write_text truncates it first, so a write that fails
\* leaves half a report.
Succeed ==
    /\ At("reconstruction", "succeeding")
    /\ \/ report' = "succeeded" /\ Exit(0)
       \/ report' = "torn" /\ Raise("failed")
    /\ UNCHANGED <<cancelFile, program, clouds, matches, saved, outputVars>>

\* The handler asks the cancel file once more: what failed after a stop was requested
\* is a stop.
Outcome == IF cancelFile THEN "cancelled" ELSE worker.error

Fail ==
    /\ At("reconstruction", "raising") /\ saved = {"none"}
    /\ \/ report' = Outcome /\ Exit(IF Outcome = "cancelled" THEN 130 ELSE 1)
       \/ report' = "torn" /\ Exit(1)
    /\ UNCHANGED <<cancelFile, program, clouds, matches, saved, outputVars>>

ReconstructionStep ==
    \/ Reconstruct \/ PrepareImages \/ ExtractFeatures \/ MatchOnCpu \/ CopyDatabase
    \/ VerifyOpencl \/ FallBack \/ CancelOpencl \/ MatchAfterOpencl \/ CountPairs
    \/ MapCameras \/ Undistort \/ Finish \/ Succeed \/ Fail

(***************************************************************************)
(* mesh_worker.py                                                          *)
(***************************************************************************)
Absent(name) == outputs[name] = "absent"

\* publish_without_replacement: an exclusive link, or a rename that does not replace.
Publish(name) == Absent(name) /\ outputs' = [outputs EXCEPT ![name] = "ours"]

Without(name) == outputs' = [outputs EXCEPT ![name] = "absent"]

BuildMesh ==
    /\ At("mesh", "checks")
    /\ \/ Absent("mesh") /\ Absent("meshReport") /\ Goto("poisson")
       \/ Exit(1)
    /\ UNCHANGED <<cancelFile, program, resultVars, outputVars>>

\* poisson_meshing writes the partial mesh.
Poisson ==
    /\ At("mesh", "poisson")
    /\ temporary' = temporary \cup {"partial"}
    /\ Goto("metadata") \/ Raise("failed")
    /\ UNCHANGED <<cancelFile, program, resultVars, outputs>>

\* preserve_spatial_metadata copies the mesh into a file of its own name first, then
\* replaces it; inspect_mesh has the last word.
PreserveMetadata ==
    /\ At("mesh", "metadata")
    /\ \/ temporary' = temporary \cup {"metadata"} /\ Goto("inspect")
       \/ UNCHANGED temporary /\ Goto("inspect")
    /\ UNCHANGED <<cancelFile, program, resultVars, outputs>>
InspectMesh ==
    /\ At("mesh", "inspect")
    /\ temporary' = temporary \ {"metadata"}
    /\ Goto("report") \/ Raise("failed")
    /\ UNCHANGED <<cancelFile, program, resultVars, outputs>>
WriteReport ==
    /\ At("mesh", "report")
    /\ temporary' = temporary \cup {"reportPartial"}
    /\ Goto("publish_report") \/ Raise("failed")
    /\ UNCHANGED <<cancelFile, program, resultVars, outputs>>

\* The report is published before the mesh it describes.
PublishReport ==
    /\ At("mesh", "publish_report")
    /\ \/ Publish("meshReport") /\ Goto("publish_mesh")
       \/ UNCHANGED outputs /\ Raise("failed")
    /\ UNCHANGED <<cancelFile, program, resultVars, temporary>>
PublishMesh ==
    /\ At("mesh", "publish_mesh")
    /\ \/ Publish("mesh") /\ Goto("leaving")
       \/ Without("meshReport") /\ Raise("failed")
    /\ UNCHANGED <<cancelFile, program, resultVars, temporary>>

\* The finally clause, and main.
LeaveMesh ==
    /\ worker.task = "mesh" /\ worker.pc \in {"leaving", "raising"}
    /\ temporary' = temporary \ {"partial", "reportPartial"}
    /\ Exit(IF worker.pc = "leaving" THEN 0 ELSE 1)
    /\ UNCHANGED <<cancelFile, program, resultVars, outputs>>

MeshStep ==
    \/ BuildMesh \/ Poisson \/ PreserveMetadata \/ InspectMesh \/ WriteReport
    \/ PublishReport \/ PublishMesh \/ LeaveMesh

(***************************************************************************)
(* texture_worker.py                                                       *)
(***************************************************************************)
\* The images are appended to the binary chunk one after another, each at the next
\* multiple of four.
RoundUp(n) == ((n + 3) \div 4) * 4

\* offset[k]: where image k + 1 goes.
Offsets(c) ==
    LET offset[k \in 0..Len(c.images)] ==
            IF k = 0 THEN c.chunk ELSE RoundUp(offset[k - 1] + c.images[k])
    IN  offset

\* embed_external_glb_images: the views, the length of the buffer and of its chunk.
Embedded(c) ==
    LET n == Len(c.images)
        at == Offsets(c)
    IN  [chunk |-> at[n],
         length |-> IF n = 0 THEN c.length ELSE at[n - 1] + c.images[n],
         views |-> [k \in 1..n |-> [offset |-> at[k - 1], size |-> c.images[k]]]]

\* What embed_external_glb_images refuses.
Embeddable(c) ==
    /\ c.chunk % 4 = 0 /\ c.length <= c.chunk /\ c.chunk - c.length <= 3
    /\ \A k \in 1..Len(c.images) : c.images[k] > 0

\* inspect_glb: whole chunks, at least one texture, every view inside the buffer.
Standalone(g) ==
    /\ g.chunk % 4 = 0
    /\ g.views # <<>>
    /\ \A k \in DOMAIN g.views :
          g.views[k].size > 0 /\ g.views[k].offset + g.views[k].size <= g.length

BuildTexturedModel ==
    /\ At("texture", "checks")
    /\ \/ ~cancelFile /\ Absent("glb")
          /\ temporary' = temporary \cup {"workspace"} /\ Goto("interface")
       \/ Exit(IF cancelFile THEN 130 ELSE 1) /\ UNCHANGED temporary
    /\ UNCHANGED <<cancelFile, program, resultVars, outputs>>

EmbedImages ==
    /\ At("texture", "embed")
    /\ \/ \E c \in Candidates :
             /\ Embeddable(c)
             /\ worker' = [worker EXCEPT !.pc = "inspect_glb", !.glb = Embedded(c)]
       \/ Raise("failed")
    /\ UNCHANGED <<cancelFile, program, resultVars, outputVars>>

InspectGlb ==
    /\ At("texture", "inspect_glb")
    /\ \/ cancelFile /\ Raise("cancelled")
       \/ ~cancelFile /\ Standalone(worker.glb) /\ Goto("publish_glb")
       \/ ~Standalone(worker.glb) /\ Raise("failed")
    /\ UNCHANGED <<cancelFile, program, resultVars, outputVars>>

PublishGlb ==
    /\ At("texture", "publish_glb")
    /\ \/ Publish("glb") /\ Goto("leaving")
       \/ UNCHANGED outputs /\ Raise("failed")
    /\ UNCHANGED <<cancelFile, program, resultVars, temporary>>

\* The temporary directory goes with the with statement, and main returns.
LeaveTexture ==
    /\ worker.task = "texture" /\ worker.pc \in {"leaving", "raising"}
    /\ temporary' = temporary \ {"workspace"}
    /\ Exit(IF worker.pc = "leaving" THEN 0
            ELSE IF worker.error = "cancelled" THEN 130 ELSE 1)
    /\ UNCHANGED <<cancelFile, program, resultVars, outputs>>

TextureStep ==
    \/ BuildTexturedModel \/ EmbedImages \/ InspectGlb \/ PublishGlb \/ LeaveTexture

\* What the worker does of itself; an external program may run for as long as it likes.
WorkerStep ==
    \/ Launch \/ StopProgram \/ Reap
    \/ ReconstructionStep \/ MeshStep \/ TextureStep

(***************************************************************************)
(* Properties                                                              *)
(***************************************************************************)
WorkerTypeOK ==
    /\ worker.task \in {"none", "reconstruction", "mesh", "texture"}
    /\ worker.mode \in Modes /\ worker.code \in {0, 1, 130, 143}
    /\ program \in {"none", "running", "ok", "bad"}
    /\ report \in {"none", "running", "succeeded", "failed", "cancelled", "torn"}
    /\ clouds \subseteq {"sparse", "dense"} /\ matches \subseteq {"cpu", "gpu"}
    /\ saved \subseteq {"none", "cpu", "gpu"}
    /\ outputs \in [{"mesh", "meshReport", "glb"} -> {"absent", "ours", "foreign"}]
    /\ temporary \subseteq {"partial", "metadata", "reportPartial", "workspace"}

\* The exit code the window acts on and the report the user keeps tell the same story:
\* 0 with "succeeded", a cloud of the kind that was asked for and, for a dense one, a
\* model that passed the gate; 130 only for a stop that was asked for; and a failure
\* after a stop was asked for is never called a failure.
ReportTruthful ==
    (worker.task = "reconstruction" /\ ~Alive) =>
        /\ (worker.code = 0) <=> (report = "succeeded")
        /\ worker.code = 0 =>
              LET m == worker.model IN
              IF worker.mode = "sparse-cpu" THEN "sparse" \in clouds
              ELSE /\ "dense" \in clouds
                   /\ m.registered >= 3 /\ 2 * m.registered >= m.inputs /\ m.error <= 8
        /\ worker.code = 130 => cancelFile /\ report \in {"none", "cancelled"}
        /\ worker.code = 1 => report \in {"none", "torn"} \/ (report = "failed" /\ ~worker.told)

\* The matches the mapper reads come from one matcher: COLMAP-CL alone, or the CPU on
\* a database as it was before COLMAP-CL touched it.
MatchesUnmixed ==
    worker.task = "reconstruction" /\ worker.pc \in {"pairs", "map", "undistort", "finish"}
        => matches # {"cpu", "gpu"}

\* What embed_external_glb_images packs, inspect_glb accepts, whatever the sizes of
\* the binary chunk and of the images.
EmbeddedAccepted ==
    At("texture", "inspect_glb") /\ worker.glb.views # <<>> => Standalone(worker.glb)

\* A worker that has left takes its external program and the copy of the database with
\* it, and its temporary directory unless it was killed.
NothingRunsOn ==
    ~Alive => program = "none" /\ saved = {"none"} /\ "workspace" \notin temporary

\* A file that another program put where the mesh, its report or the GLB is to go is
\* never replaced and never removed.
ForeignKept ==
    [][\A n \in DOMAIN outputs : outputs[n] = "foreign" => outputs'[n] = "foreign"]_outputs
============================================================================
