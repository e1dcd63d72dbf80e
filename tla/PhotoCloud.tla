---------------------------- MODULE PhotoCloud -----------------------------
(***************************************************************************)
(* The photo-to-cloud application: app.py over its workers (PhotoWorker),  *)
(* the engine installers (openmvs_install.py, colmap_cl_install.py) and    *)
(* the hardware detection (hardware_profile.py).  The viewer windows it    *)
(* opens are CloudSave.                                                    *)
(*                                                                         *)
(* One thread runs the window.  It meets the others through a queue of     *)
(* events that read_events empties, and it does not stop while a dialog is *)
(* open: the dialog's own loop goes on serving timers, so what a command   *)
(* checked before it asked the user may no longer hold afterwards.         *)
(***************************************************************************)
EXTENDS FiniteSets, PhotoWorker

CONSTANTS
    UserModes,      \* modes the user selects by hand
    Installations,  \* default installations there may be when the window opens
    MaxCommands     \* commands of the user, and acts of other programs, in a session

Engines == {"openmvs", "colmap"}

ASSUME CommandsAssumption ==
    /\ UserModes \subseteq Modes /\ MaxCommands \in Nat
    /\ Installations \subseteq [Engines -> {"absent", "whole"}]

VARIABLES
    process,    \* self.process is not None
    task,       \* self.current_task
    closing,    \* self.close_after_cancel
    cuts,       \* history: the places that matter at which a mesher was terminated
    installing, \* the engine being installed, or "none"
    installer,  \* where the install thread is
    detecting,  \* the fields the detection thread was started with, or NoFields
    timer,      \* root.after(100, auto_configure) is due
    events,     \* self.events
    dialog,     \* the dialog that is open: "none", "mesh", "texture", "close"
    enabled,    \* buttons in state "normal"
    fields,     \* openmvs, colmap: "", "user", "default", "legacy"; mode
    engine,     \* the default installation directories: "absent", "partial", "whole"
    window,     \* "open", or "destroyed" and the application has ended
    commands    \* commands so far

appVars == <<process, task, closing, cuts, installing, installer, detecting, timer,
             events, dialog, enabled, fields, engine, window, commands>>
vars == <<workVars, appVars>>

NoFields == [openmvs |-> "none", colmap |-> "none"]
jobVars == <<process, task, closing, cuts>>
threadVars == <<installing, installer, detecting, timer>>

Init ==
    /\ WorkerInit
    /\ process = FALSE /\ task = "none" /\ closing = FALSE /\ cuts = {}
    /\ installing = "none" /\ installer = "idle" /\ detecting = NoFields /\ timer = TRUE
    /\ events = <<>> /\ dialog = "none"
    /\ enabled = {"mesh", "install", "auto"}
    /\ fields = [openmvs |-> "", colmap |-> "", mode |-> "dense-cpu"]
    /\ engine \in Installations
    /\ window = "open" /\ commands = 0

Detecting == detecting # NoFields
Busy == process \/ installing # "none" \/ Detecting

\* A command reaches the window only while no dialog holds it.
Command == window = "open" /\ dialog = "none" /\ commands < MaxCommands /\ commands' = commands + 1

(***************************************************************************)
(* Jobs                                                                    *)
(***************************************************************************)
EngineOf(mode) == CASE mode = "dense-cpu" -> "openmvs"
                    [] mode \in {"dense-amd", "dense-opencl"} -> "colmap"
                    [] OTHER -> "none"
HasEngine(mode) == \A e \in Engines : EngineOf(mode) = e => fields[e] # ""

\* Popen succeeded: the fields of the job are set, the buttons switched over, and the
\* thread that consumes the worker's output started.
StartJob(t, mode) ==
    /\ worker' = Started(t, mode) /\ cancelFile' = FALSE
    /\ process' = TRUE /\ task' = t /\ closing' = FALSE
    /\ enabled' = {"cancel"}
    /\ UNCHANGED cuts

\* start: a new result directory; Popen may fail after it was chosen.
Start ==
    /\ Command /\ "start" \in enabled
    /\ ~Busy /\ HasEngine(fields.mode)
    /\ report' = "none" /\ clouds' = {} /\ matches' = {} /\ saved' = {"none"}
    /\ \/ StartJob("reconstruction", fields.mode)
       \/ /\ closing' = FALSE /\ task' = "reconstruction"
          /\ UNCHANGED <<worker, cancelFile, process, cuts, enabled>>
    /\ UNCHANGED <<program, outputVars, threadVars, events, dialog, fields, engine, window>>

\* build_mesh, texture_mesh: the guard, then the file dialogs.
AskFiles(t) ==
    /\ Command /\ "mesh" \in enabled /\ ~Busy
    /\ t = "texture" => fields.openmvs # ""
    /\ dialog' = t
    /\ UNCHANGED <<workVars, jobVars, threadVars, events, enabled, fields, engine, window>>

Target(t) == IF t = "mesh" THEN {"mesh", "meshReport"} ELSE {"glb"}

\* The dialogs return: nothing, a name that is taken, or a name to work on.
FilesChosen ==
    /\ window = "open" /\ dialog \in {"mesh", "texture"}
    /\ dialog' = "none"
    /\ \/ /\ \A n \in Target(dialog) : Absent(n)
          /\ StartJob(dialog, "sparse-cpu")
       \/ UNCHANGED <<worker, cancelFile, jobVars, enabled>>
    /\ UNCHANGED <<program, resultVars, outputVars, threadVars, events, fields, engine,
                   window, commands>>

\* cancel: the mesher is terminated, the others are told through the file; when that
\* cannot be written the button stays as it was.
RequestStop ==
    IF task = "mesh"
    THEN /\ worker' = IF Alive THEN [worker EXCEPT !.pc = "exited", !.code = 143] ELSE worker
         /\ cuts' = cuts \cup ({worker.pc} \cap {"inspect", "publish_mesh"})
         /\ enabled' = enabled \ {"cancel"}
         /\ UNCHANGED cancelFile
    ELSE /\ \/ cancelFile' = TRUE /\ enabled' = enabled \ {"cancel"}
            \/ UNCHANGED <<cancelFile, enabled>>
         /\ UNCHANGED <<worker, cuts>>

Cancel ==
    /\ Command /\ "cancel" \in enabled /\ process
    /\ RequestStop
    /\ UNCHANGED <<program, resultVars, outputVars, process, task, closing, threadVars,
                   events, dialog, fields, engine, window>>

\* consume: the worker's output has ended and its exit code is known.
Consume ==
    /\ process /\ ~Alive /\ \A i \in DOMAIN events : events[i].kind # "done"
    /\ events' = Append(events, [kind |-> "done", value |-> worker.code])
    /\ UNCHANGED <<workVars, jobVars, threadVars, dialog, enabled, fields, engine,
                   window, commands>>

\* Mutant: only a failed job is cleaned up after.
CleanPartialsOnError ==
    temporary' = IF task = "mesh" /\ worker.code = 1 THEN temporary \ {"partial", "reportPartial"}
                 ELSE temporary

\* The partial files of a mesh job, known by its id, are removed once it has ended.
CleanPartials == temporary' = IF task = "mesh" THEN temporary \ {"partial", "reportPartial"} ELSE temporary

HasResult == report # "none" /\ clouds # {}

\* read_events on "done": the job is over, and with it the window if it was to close.
Done(code) ==
    /\ CleanPartials
    /\ process' = FALSE /\ task' = "none" /\ worker' = NoWorker /\ cancelFile' = FALSE
    /\ enabled' = {"start", "mesh", "install", "auto"}
                  \cup (IF HasResult /\ code = 0 THEN {"preview"} ELSE {})
    /\ window' = IF closing THEN "destroyed" ELSE window
    /\ UNCHANGED <<closing, cuts, program, resultVars, outputs, threadVars, dialog, fields, engine>>

(***************************************************************************)
(* Installation and detection                                              *)
(***************************************************************************)
Install(e) ==
    /\ Command /\ "install" \in enabled /\ ~Busy
    /\ installing' = e /\ installer' = "checking"
    /\ enabled' = enabled \ {"start", "install", "auto"}
    /\ UNCHANGED <<workVars, jobVars, detecting, timer, events, dialog, fields, engine, window>>

Installed(ok) ==
    /\ installer' = "idle"
    /\ events' = Append(events, [kind |-> IF ok THEN "installed" ELSE "install_failed",
                                 value |-> installing])

\* download_and_install: an installation that is there is verified and kept, never
\* replaced; otherwise the archive is fetched and its digest compared.
Download ==
    /\ installer = "checking"
    /\ \/ engine[installing] # "absent" /\ Installed(engine[installing] = "whole")
       \/ engine[installing] = "absent" /\ installer' = "staging" /\ UNCHANGED events
       \/ engine[installing] = "absent" /\ Installed(FALSE)
    /\ UNCHANGED <<engine, installing>>

\* install_archive unpacks into a staging directory beside the destination; what goes
\* wrong there goes with the directory.
Unpack ==
    /\ installer = "staging"
    /\ \/ installer' = "renaming" /\ UNCHANGED events
       \/ Installed(FALSE)
    /\ UNCHANGED <<engine, installing>>

\* The staging directory takes the destination's name, if that is still free.
Rename ==
    /\ installer = "renaming"
    /\ \/ /\ engine[installing] # "whole"
          /\ engine' = [engine EXCEPT ![installing] = "whole"] /\ Installed(TRUE)
       \/ Installed(FALSE) /\ UNCHANGED engine
    /\ UNCHANGED installing

InstallStep ==
    /\ window = "open" /\ (Download \/ Unpack \/ Rename)
    /\ UNCHANGED <<workVars, jobVars, detecting, timer, dialog, enabled, fields, window, commands>>

\* read_events on the end of an installation; auto_configure follows a good one.
InstallEnds(e, ok) ==
    /\ installing' = "none"
    /\ enabled' = enabled \cup {"start", "install", "auto"}
    /\ fields' = IF ok THEN [fields EXCEPT ![e] = "default"] ELSE fields
    /\ timer' = (timer \/ ok)
    /\ UNCHANGED <<jobVars, workVars, installer, detecting, dialog, engine, window>>

\* auto_configure captures the two paths and starts the detection thread.
Configure ==
    IF Busy THEN UNCHANGED <<detecting, enabled>>
    ELSE /\ detecting' = [openmvs |-> fields.openmvs, colmap |-> fields.colmap]
         /\ enabled' = enabled \ {"start", "install", "auto"}
AutoConfigure ==
    /\ window = "open"
    /\ \/ timer /\ timer' = FALSE /\ UNCHANGED commands
       \/ Command /\ "auto" \in enabled /\ UNCHANGED timer
    /\ Configure
    /\ UNCHANGED <<workVars, jobVars, installing, installer, events, dialog, fields, engine, window>>

\* _resolve_openmvs, _resolve_colmap: what the path a field held, or the default
\* installation where it was empty, may turn out to be; "" is not ready.  OpenMVS is
\* looked for in its earlier directory too, and COLMAP-CL has to run.
Resolved(e) ==
    CASE detecting[e] \in {"user", "legacy"} -> {"", detecting[e]}
      [] e = "openmvs" /\ engine[e] = "whole" -> {"default"}
      [] e = "openmvs" /\ engine[e] # "whole" -> IF detecting[e] = "" THEN {"", "legacy"} ELSE {""}
      [] OTHER -> IF engine[e] = "whole" THEN {"", "default"} ELSE {""}

\* recommend_mode.
RecommendMode(gpu, colmap, openmvs) ==
    IF gpu /\ colmap # "" THEN "dense-opencl" ELSE IF openmvs # "" THEN "dense-cpu" ELSE "sparse-cpu"

\* detect_hardware_profile: the GPU is verified only for a COLMAP-CL that is ready.
Detect ==
    /\ window = "open" /\ Detecting
    /\ \A i \in DOMAIN events : events[i].kind \notin {"configured", "config_failed"}
    /\ \/ \E mvs \in Resolved("openmvs"), cl \in Resolved("colmap"), verified \in BOOLEAN :
             events' = Append(events, [kind |-> "configured",
                 value |-> [openmvs |-> mvs, colmap |-> cl,
                            mode |-> RecommendMode(verified /\ cl # "", cl, mvs)]])
       \/ events' = Append(events, [kind |-> "config_failed", value |-> 0])
    /\ UNCHANGED <<workVars, jobVars, threadVars, dialog, enabled, fields, engine, window, commands>>

\* Mutant: the detected path always wins.
FillAlways(e, profile) == IF profile[e] # "" THEN profile[e] ELSE fields[e]

\* finish_auto_configuration fills in only the fields that are still empty.
Fill(e, profile) == IF fields[e] = "" THEN profile[e] ELSE fields[e]

Configured(profile) ==
    /\ detecting' = NoFields
    /\ enabled' = enabled \cup {"start", "install", "auto"}
    /\ fields' = [openmvs |-> Fill("openmvs", profile), colmap |-> Fill("colmap", profile),
                  mode |-> profile.mode]
    /\ UNCHANGED <<jobVars, workVars, installing, installer, timer, dialog, engine, window>>
ConfigFailed ==
    /\ detecting' = NoFields
    /\ enabled' = enabled \cup {"start", "install", "auto"}
    /\ fields' = [fields EXCEPT !.mode = "sparse-cpu"]
    /\ UNCHANGED <<jobVars, workVars, installing, installer, timer, dialog, engine, window>>

\* read_events, one event: it runs from a timer, dialog or no dialog.
ReadEvent ==
    /\ window = "open" /\ events # <<>>
    /\ LET e == Head(events) IN
         \/ e.kind = "done" /\ Done(e.value)
         \/ e.kind = "installed" /\ InstallEnds(e.value, TRUE)
         \/ e.kind = "install_failed" /\ InstallEnds(e.value, FALSE)
         \/ e.kind = "configured" /\ Configured(e.value)
         \/ e.kind = "config_failed" /\ ConfigFailed
    /\ events' = Tail(events)
    /\ UNCHANGED commands

(***************************************************************************)
(* Fields, closing, other programs                                         *)
(***************************************************************************)
\* The path rows stay editable and may be cleared; the mode only while nothing is being detected.
EditField ==
    /\ Command
    /\ \/ \E e \in Engines, path \in {"", "user"} : fields' = [fields EXCEPT ![e] = path]
       \/ ~Detecting /\ \E m \in UserModes : fields' = [fields EXCEPT !.mode = m]
    /\ UNCHANGED <<workVars, jobVars, threadVars, events, dialog, enabled, engine, window>>

\* close: refused while an engine is installed, a question while a worker runs.
Close ==
    /\ Command /\ installing = "none"
    /\ IF process THEN dialog' = "close" /\ UNCHANGED window
                  ELSE window' = "destroyed" /\ UNCHANGED dialog
    /\ UNCHANGED <<workVars, jobVars, threadVars, events, enabled, fields, engine>>

\* The answer; by then the job may have ended, and cancel has nothing to do.
CloseAnswered ==
    /\ window = "open" /\ dialog = "close" /\ dialog' = "none"
    /\ \/ UNCHANGED <<closing, enabled, worker, cancelFile, cuts>>
       \/ /\ closing' = TRUE
          /\ IF process THEN RequestStop ELSE UNCHANGED <<enabled, worker, cancelFile, cuts>>
    /\ UNCHANGED <<program, resultVars, outputVars, process, task, threadVars, events,
                   fields, engine, window, commands>>

\* Another program takes a name the mesh or the GLB is to have; another instance of the
\* application installs an engine.
Elsewhere ==
    /\ commands < MaxCommands /\ commands' = commands + 1
    /\ \/ /\ \E n \in DOMAIN outputs : Absent(n) /\ outputs' = [outputs EXCEPT ![n] = "foreign"]
          /\ UNCHANGED engine
       \/ /\ \E e \in Engines : engine[e] = "absent" /\ engine' = [engine EXCEPT ![e] = "whole"]
          /\ UNCHANGED outputs
    /\ UNCHANGED <<worker, cancelFile, program, resultVars, temporary, jobVars, threadVars,
                   events, dialog, enabled, fields, window>>

Work == (WorkerStep \/ ProgramExits \/ ProgramWrites) /\ UNCHANGED appVars

Next ==
    \/ Start \/ AskFiles("mesh") \/ AskFiles("texture") \/ FilesChosen \/ Cancel \/ Consume
    \/ (\E e \in Engines : Install(e)) \/ InstallStep \/ AutoConfigure \/ Detect \/ ReadEvent
    \/ EditField \/ Close \/ CloseAnswered \/ Elsewhere \/ Work

\* The window's loop runs, so do its threads, and a worker that was told to stop does
\* what it has left: COLMAP's stages end when their token is cancelled.  Nothing makes
\* an external program end, and a worker nobody stops may take for ever.
Fairness ==
    /\ WF_vars(ReadEvent) /\ WF_vars(Consume)
    /\ WF_vars(WorkerStep /\ cancelFile /\ UNCHANGED appVars)

Spec == Init /\ [][Next]_vars /\ Fairness

(***************************************************************************)
(* Properties                                                              *)
(***************************************************************************)
WindowTypeOK ==
    /\ process \in BOOLEAN /\ closing \in BOOLEAN /\ timer \in BOOLEAN
    /\ task \in {"none", "reconstruction", "mesh", "texture"}
    /\ installing \in Engines \cup {"none"}
    /\ installer \in {"idle", "checking", "staging", "renaming"}
    /\ dialog \in {"none", "mesh", "texture", "close"}
    /\ enabled \subseteq {"start", "mesh", "preview", "cancel", "install", "auto"}
    /\ fields \in [openmvs : {"", "user", "default", "legacy"}, colmap : {"", "user", "default"},
                  mode : Modes]
    /\ engine \in [Engines -> {"absent", "partial", "whole"}]
    /\ window \in {"open", "destroyed"} /\ commands \in 0..MaxCommands
TypeOK == WindowTypeOK /\ WorkerTypeOK /\ cuts \subseteq {"inspect", "publish_mesh"}

Pending(kinds) == {i \in DOMAIN events : events[i].kind \in kinds}

\* One worker at a time, and the window knows which: a worker is alive only while the
\* window holds it under its task, the event that ends a job is that job's, and an
\* installation and a job never overlap, whatever ran while a dialog was open.
OneJob ==
    /\ TypeOK
    /\ Alive => process /\ task = worker.task
    /\ \A i \in Pending({"done"}) : process /\ ~Alive /\ events[i].value = worker.code
    /\ Cardinality(Pending({"done"})) <= 1
    /\ ~(process /\ installing # "none")
    /\ window = "destroyed" => ~Alive

\* Once the window is idle no partial mesh and no partial report of a job is left,
\* stopped jobs included, and no external program runs on.  The .metadata file of a
\* mesher escapes: its name is made up by the mesher alone, so one that was terminated
\* while it copied leaves it.
IdleIsClean ==
    /\ ~process => temporary \cap {"partial", "reportPartial"} = {} /\ NothingRunsOn
    /\ "metadata" \in temporary => At("mesh", "inspect") \/ "inspect" \in cuts

\* A mesh of the program has its report, and a report that says "succeeded" has its
\* mesh, whatever failed, was taken by another program or was stopped, but for one
\* case: the report is published first, and a mesher terminated before it published the
\* mesh leaves the report alone.
MeshReported ==
    /\ outputs.mesh = "ours" => outputs.meshReport = "ours"
    /\ outputs.meshReport = "ours" /\ outputs.mesh # "ours" =>
          At("mesh", "publish_mesh") \/ "publish_mesh" \in cuts

\* An installation directory is there whole or not at all, also after a failed or a
\* concurrent installation, and a field is filled in only with a whole one.
InstallationsWhole ==
    \A e \in Engines : engine[e] # "partial" /\ (fields[e] = "default" => engine[e] = "whole")

\* A path the user entered is replaced only by the user, or by an installation the
\* user asked for, even when it was entered while the detection was under way.
UserPathKept ==
    [][\A e \in Engines : (fields[e] = "user" /\ fields'[e] # "user")
                             => installing = e \/ commands' # commands]_vars

\* A mode that detection selects has its engine, also when the user cleared the field
\* while the detection was under way: the start that follows does not fail for want of
\* a path the program had itself found.
RecommendationStartable ==
    [][(Detecting /\ detecting' = NoFields) => (HasEngine(fields.mode))']_vars

\* A stop that reached the worker ends the job, and closes the window if that was the
\* reason; the window acts on the exit of every worker that ends.
StopHonoured ==
    /\ (process /\ cancelFile) ~> ~process
    /\ (process /\ ~Alive) ~> ~process
    /\ (process /\ cancelFile /\ closing) ~> (window = "destroyed")

\* Jobs, installations and what they leave on disk are kept apart: one at a time, each
\* cleaned up after, none seen half done, except for what a terminated mesher leaves in
\* the two places that IdleIsClean and MeshReported name; the second is against the
\* application's README.md:109-110, which has no interrupted run marked as successful.
JobsKeptApart == OneJob /\ IdleIsClean /\ MeshReported /\ InstallationsWhole

\* What a worker that succeeded hands over is what it says it is.
ResultsTruthful == ReportTruthful /\ MatchesUnmixed /\ EmbeddedAccepted

\* What is not the program's own is left alone: files of other programs, paths the user
\* entered; and what detection puts in their place can be used.
OthersKept == ForeignKept /\ UserPathKept /\ RecommendationStartable
============================================================================
