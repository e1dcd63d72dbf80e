--------------------------- MODULE ArtifactStore ---------------------------
(***************************************************************************)
(* core/artifacts/artifact_store.cpp: payload files under cas/, one        *)
(* manifest file per artifact instance, rows of the artifacts and          *)
(* artifact_dependencies tables of project.db, and the quarantine.         *)
(*                                                                         *)
(* A content is known by its hash.  The artifacts table is keyed by the    *)
(* instance but content_hash is UNIQUE and rows are written by INSERT OR   *)
(* REPLACE, so there is one row per content, that of the latest instance.  *)
(*                                                                         *)
(* Put, PutInstance and Get run in one thread, the holder of the project   *)
(* lock; every file and every row they write is a step of its own, and the *)
(* process may end between any two of them.  GarbageCollect is a second    *)
(* thread, kept apart from the first unless GcDuringWrite.                 *)
(***************************************************************************)
EXTENDS Naturals, FiniteSets

CONSTANTS
    Hash,          \* contents, by SHA-256
    Uuid,          \* what GenerateUuid may return
    Inputs,        \* [Hash -> SUBSET Hash], input_artifact_hashes of a manifest
    None,
    GcDuringWrite, \* GarbageCollect may be called while the other thread writes
    MaxCrashes,    \* bound on ends of the process
    MaxFlips       \* bound on payload files that rot

ASSUME InputsAssumption == Inputs \in [Hash -> SUBSET Hash]
ASSUME StoreBoundAssumption ==
    GcDuringWrite \in BOOLEAN /\ MaxCrashes \in Nat /\ MaxFlips \in Nat

VARIABLES
    cas,       \* [Hash -> {"absent", "good", "bad"}], the payload files
    corrupt,   \* SUBSET Hash, the files quarantine/<hash>.corrupt
    manifests, \* [Uuid -> Hash \cup {None}], <uuid>/manifest.json
    index,     \* [Hash -> ArtifactIndexRow \cup {None}], the artifacts table
    edges,     \* the artifact_dependencies table, <<input, output>>
    at,        \* where the writing thread is in its call
    arg,       \* the content of the call
    id,        \* artifact_uuid of the call
    todo,      \* the dependencies it has still to record
    reply,     \* what the last call returned
    gc,        \* where GarbageCollect is
    onDisk,    \* on_disk of GarbageCollect
    doomed,    \* unreferenced of GarbageCollect
    dangling,  \* dangling of GarbageCollect
    moving,    \* the payload it has renamed and has still to unlink
    trash,     \* SUBSET Hash, the files quarantine/<hash>.gc
    crashes, flips

files     == <<cas, corrupt, manifests>>
tables    == <<index, edges>>
callVars  == <<at, arg, id, todo, reply>>
moveVars  == <<moving, trash>>
gcVars    == <<gc, onDisk, doomed, dangling, moveVars>>
storeEnv  == <<crashes, flips>>
storeVars == <<files, tables, callVars, gcVars, storeEnv>>

ArtifactIndexRow == [uuid : Uuid, status : {"valid", "degraded"}]

ASSUME StoreNoneAssumption == None \notin Hash \cup Uuid \cup ArtifactIndexRow

StoreTypeOK ==
    /\ cas \in [Hash -> {"absent", "good", "bad"}]
    /\ corrupt \subseteq Hash
    /\ manifests \in [Uuid -> Hash \cup {None}]
    /\ index \in [Hash -> ArtifactIndexRow \cup {None}]
    /\ edges \subseteq Hash \X Hash
    /\ at \in {"idle", "payload", "manifest", "row", "edges", "flag"}
    /\ arg \in Hash \cup {None}
    /\ id \in Uuid \cup {None}
    /\ todo \subseteq Hash
    /\ reply \in {"none", "stored", "deduplicated", "instance", "read", "missing", "mismatch"}
    /\ gc \in {"idle", "check", "manifests", "payloads", "unlink", "dangling"}
    /\ onDisk \subseteq Hash /\ doomed \subseteq Hash /\ dangling \subseteq Uuid
    /\ moving \in Hash \cup {None} /\ trash \subseteq Hash
    /\ crashes \in 0..MaxCrashes /\ flips \in 0..MaxFlips

IsReferenced(h) == index[h] # None

-----------------------------------------------------------------------------
(* Put and PutInstance. *)

\* The writing thread is free to make a call.
Callable == at = "idle" /\ (gc = "idle" \/ GcDuringWrite)

\* Put of a content that has a row returns that row's instance.
PutCall(h) ==
    /\ Callable
    /\ arg' = h
    /\ \/ /\ IsReferenced(h)
          /\ id' = index[h].uuid
          /\ reply' = "deduplicated"
          /\ UNCHANGED at
       \/ /\ ~IsReferenced(h)
          /\ at' = "payload"
          /\ reply' = "none"
          /\ UNCHANGED id
    /\ UNCHANGED <<files, tables, todo, gcVars, storeEnv>>

\* AtomicWrite of the payload, unless the file is there.
PutPayload ==
    /\ at = "payload"
    /\ cas' = IF cas[arg] = "absent" THEN [cas EXCEPT ![arg] = "good"] ELSE cas
    /\ at' = "manifest"
    /\ reply' = "stored"
    /\ UNCHANGED <<corrupt, manifests, tables, arg, id, todo, gcVars, storeEnv>>

\* PutInstance shares a payload file that must exist.
PutInstanceCall(h) ==
    /\ Callable
    /\ arg' = h
    /\ \/ /\ cas[h] = "absent"
          /\ reply' = "missing"
          /\ UNCHANGED at
       \/ /\ cas[h] # "absent"
          /\ at' = "manifest"
          /\ reply' = "instance"
    /\ UNCHANGED <<files, tables, id, todo, gcVars, storeEnv>>

\* A fresh uuid, its directory and its manifest.
WriteManifest ==
    /\ at = "manifest"
    /\ \E u \in Uuid : /\ manifests[u] = None
                       /\ \A h \in Hash : IsReferenced(h) => index[h].uuid # u
                       /\ id' = u
                       /\ manifests' = [manifests EXCEPT ![u] = arg]
    /\ at' = "row"
    /\ UNCHANGED <<cas, corrupt, tables, arg, todo, reply, gcVars, storeEnv>>

\* UpsertArtifact.
WriteRow ==
    /\ at = "row"
    /\ index' = [index EXCEPT ![arg] = [uuid |-> id, status |-> "valid"]]
    /\ todo' = Inputs[arg]
    /\ at' = IF Inputs[arg] = {} THEN "idle" ELSE "edges"
    /\ UNCHANGED <<files, edges, arg, id, reply, gcVars, storeEnv>>

\* RecordDependency, one row per input.
WriteEdge ==
    /\ at = "edges"
    /\ \E h \in todo : /\ edges' = edges \cup {<<h, arg>>}
                       /\ todo' = todo \ {h}
                       /\ at' = IF todo = {h} THEN "idle" ELSE "edges"
    /\ UNCHANGED <<files, index, arg, id, reply, gcVars, storeEnv>>

-----------------------------------------------------------------------------
(* Get. *)

\* Faulty variant: the payload is quarantined and its row left as it was.
GetUnflagged(h) ==
    /\ Callable
    /\ arg' = h
    /\ \/ cas[h] = "absent" /\ reply' = "missing" /\ UNCHANGED <<at, files>>
       \/ cas[h] = "good" /\ reply' = "read" /\ UNCHANGED <<at, files>>
       \/ /\ cas[h] = "bad"
          /\ reply' = "mismatch"
          /\ at' = "idle"
          /\ IF h \in corrupt THEN UNCHANGED files
             ELSE /\ cas' = [cas EXCEPT ![h] = "absent"]
                  /\ corrupt' = corrupt \cup {h}
                  /\ UNCHANGED manifests
    /\ UNCHANGED <<tables, id, todo, gcVars, storeEnv>>

\* A payload that fails the hash check is moved to the quarantine, unless an
\* earlier one of the same name is there, and then its row is flagged.
Get(h) ==
    /\ Callable
    /\ arg' = h
    /\ \/ cas[h] = "absent" /\ reply' = "missing" /\ UNCHANGED <<at, files>>
       \/ cas[h] = "good" /\ reply' = "read" /\ UNCHANGED <<at, files>>
       \/ /\ cas[h] = "bad"
          /\ reply' = "mismatch"
          /\ at' = "flag"
          /\ IF h \in corrupt THEN UNCHANGED files
             ELSE /\ cas' = [cas EXCEPT ![h] = "absent"]
                  /\ corrupt' = corrupt \cup {h}
                  /\ UNCHANGED manifests
    /\ UNCHANGED <<tables, id, todo, gcVars, storeEnv>>

FlagDegraded ==
    /\ at = "flag"
    /\ index' = IF IsReferenced(arg) THEN [index EXCEPT ![arg].status = "degraded"] ELSE index
    /\ at' = "idle"
    /\ UNCHANGED <<files, edges, arg, id, todo, reply, gcVars, storeEnv>>

-----------------------------------------------------------------------------
(* GarbageCollect(dry_run = false). *)

GcScan ==
    /\ gc = "idle"
    /\ at = "idle" \/ GcDuringWrite
    /\ onDisk' = {h \in Hash : cas[h] # "absent"}
    /\ gc' = "check"
    /\ UNCHANGED <<files, tables, callVars, doomed, dangling, moveVars, storeEnv>>

\* Faulty variant: a degraded row does not count as a reference.
GcCheckValidOnly ==
    /\ gc = "check"
    /\ doomed' = {h \in onDisk : ~(IsReferenced(h) /\ index[h].status = "valid")}
    /\ gc' = "manifests"
    /\ UNCHANGED <<files, tables, callVars, onDisk, dangling, moveVars, storeEnv>>

GcCheck ==
    /\ gc = "check"
    /\ doomed' = {h \in onDisk : ~IsReferenced(h)}
    /\ gc' = "manifests"
    /\ UNCHANGED <<files, tables, callVars, onDisk, dangling, moveVars, storeEnv>>

\* Faulty variant: a manifest is dangling when its payload was on no list.
GcManifestsOfDoomed ==
    /\ gc = "manifests"
    /\ dangling' = {u \in Uuid : manifests[u] # None /\ manifests[u] \notin onDisk}
    /\ gc' = "payloads"
    /\ UNCHANGED <<files, tables, callVars, onDisk, doomed, moveVars, storeEnv>>

GcManifests ==
    /\ gc = "manifests"
    /\ dangling' = {u \in Uuid : manifests[u] # None /\ ~IsReferenced(manifests[u])}
    /\ gc' = "payloads"
    /\ UNCHANGED <<files, tables, callVars, onDisk, doomed, moveVars, storeEnv>>

\* A payload that is still there is renamed into the quarantine ...
GcRename ==
    /\ gc = "payloads"
    /\ \/ \E h \in doomed : /\ doomed' = doomed \ {h}
                            /\ IF cas[h] = "absent" THEN UNCHANGED <<gc, cas, moveVars>>
                               ELSE /\ gc' = "unlink"
                                    /\ cas' = [cas EXCEPT ![h] = "absent"]
                                    /\ moving' = h /\ trash' = trash \cup {h}
       \/ doomed = {} /\ gc' = "dangling" /\ UNCHANGED <<cas, doomed, moveVars>>
    /\ UNCHANGED <<corrupt, manifests, tables, callVars, onDisk, dangling, storeEnv>>

\* ... and removed there.
GcUnlink ==
    /\ gc = "unlink"
    /\ gc' = "payloads"
    /\ moving' = None /\ trash' = trash \ {moving}
    /\ UNCHANGED <<files, tables, callVars, onDisk, doomed, dangling, storeEnv>>

GcRemoveManifest ==
    /\ gc = "dangling"
    /\ \/ \E u \in dangling : /\ manifests' = [manifests EXCEPT ![u] = None]
                              /\ dangling' = dangling \ {u}
                              /\ UNCHANGED <<gc, onDisk>>
       \/ dangling = {} /\ gc' = "idle" /\ onDisk' = {} /\ UNCHANGED <<manifests, dangling>>
    /\ UNCHANGED <<cas, corrupt, tables, callVars, doomed, moveVars, storeEnv>>

-----------------------------------------------------------------------------
(* The environment. *)

\* A payload file rots.
Flip(h) ==
    /\ flips < MaxFlips
    /\ cas[h] = "good"
    /\ cas' = [cas EXCEPT ![h] = "bad"]
    /\ flips' = flips + 1
    /\ UNCHANGED <<corrupt, manifests, tables, callVars, gcVars, crashes>>

\* The process ends, or a write throws out of the call or the collection;
\* AtomicWrite and SQLite leave no half-written file or row.
StoreCrash ==
    /\ crashes < MaxCrashes
    /\ crashes' = crashes + 1
    /\ at' = "idle" /\ arg' = None /\ id' = None /\ todo' = {} /\ reply' = "none"
    /\ gc' = "idle" /\ onDisk' = {} /\ doomed' = {} /\ dangling' = {} /\ moving' = None
    /\ UNCHANGED <<files, tables, flips, trash>>

StoreInit ==
    /\ cas = [h \in Hash |-> "absent"] /\ corrupt = {}
    /\ manifests = [u \in Uuid |-> None]
    /\ index = [h \in Hash |-> None] /\ edges = {}
    /\ at = "idle" /\ arg = None /\ id = None /\ todo = {} /\ reply = "none"
    /\ gc = "idle" /\ onDisk = {} /\ doomed = {} /\ dangling = {}
    /\ moving = None /\ trash = {}
    /\ crashes = 0 /\ flips = 0

\* What is left of a call once it was made.
WriteStep == PutPayload \/ WriteManifest \/ WriteRow \/ WriteEdge \/ FlagDegraded

GcStep == GcScan \/ GcCheck \/ GcManifests \/ GcRename \/ GcUnlink \/ GcRemoveManifest

StoreNext ==
    \/ \E h \in Hash : PutCall(h) \/ PutInstanceCall(h) \/ Get(h) \/ Flip(h)
    \/ WriteStep
    \/ GcStep
    \/ StoreCrash

StoreSpec == StoreInit /\ [][StoreNext]_storeVars

-----------------------------------------------------------------------------
(* Properties. *)

\* A row is backed by its payload, unless the payload was quarantined.
PayloadBehindRow == \A h \in Hash : IsReferenced(h) => cas[h] # "absent" \/ h \in corrupt

\* A row leads to the manifest of its instance, and from there to its content.
ManifestBehindRow == \A h \in Hash : IsReferenced(h) => manifests[index[h].uuid] = h

\* Between two writes of a call everything the next one relies on is on disk.
MidCallInv ==
    /\ at # "idle" => arg \in Hash /\ gc = "idle"
    /\ at \in {"manifest", "row"} => cas[arg] # "absent"
    /\ at = "row" => id \in Uuid /\ manifests[id] = arg

\* A collection has listed garbage, all of it, and nothing else.
MidGcInv ==
    /\ gc = "check" => onDisk = {h \in Hash : cas[h] # "absent"}
    /\ \A h \in doomed : ~IsReferenced(h)
    /\ gc \in {"manifests", "payloads", "unlink", "dangling"} =>
          \A h \in Hash : cas[h] # "absent" /\ ~IsReferenced(h) => h \in doomed
    /\ gc = "dangling" => doomed = {}
    /\ \A u \in dangling : manifests[u] # None /\ ~IsReferenced(manifests[u])
    /\ gc \in {"payloads", "unlink", "dangling"} =>
          \A u \in Uuid : manifests[u] # None /\ ~IsReferenced(manifests[u]) => u \in dangling
    /\ gc = "idle" => doomed = {} /\ dangling = {}
    /\ moving # None <=> gc = "unlink"

\* A process that ends between the rename and the unlink leaves one .gc file.
TrashBounded == IsFiniteSet(trash) /\ Cardinality(trash \ {moving}) <= crashes

\* The inductive invariant of Put, PutInstance, Get and GarbageCollect when
\* none of them overlap: rows point at what exists, wherever the process may
\* have ended before.
StoreInv == StoreTypeOK /\ PayloadBehindRow /\ ManifestBehindRow /\ MidCallInv /\ MidGcInv /\ TrashBounded

\* "Deletes only unreferenced payloads" (artifact-format.md, section 8): a
\* payload that has a row only ever goes to the quarantine.
GcKeepsReferenced ==
    [][\A h \in Hash : IsReferenced(h) /\ cas[h] # "absent" /\ cas'[h] = "absent"
          => h \in corrupt' \ corrupt]_storeVars

\* A collection that comes to its end leaves no payload without a row and no
\* manifest of such a payload, whatever ended processes left behind.  Of those it
\* leaves at most one file each, a payload that was renamed to quarantine/<hash>.gc and
\* not unlinked: no collection looks there.
GcLeavesNoGarbage ==
    [][gc = "dangling" /\ gc' = "idle" /\ crashes' = crashes =>
          /\ \A h \in Hash : cas[h] # "absent" => IsReferenced(h)
          /\ \A u \in Uuid : manifests[u] # None => IsReferenced(manifests[u])
          /\ Cardinality(trash) <= crashes]_storeVars

\* "The offending payload is quarantined and its manifest flagged with
\* validation_status: degraded, so the failure is observable" (artifact-format.md,
\* section 6): so it is until the process first ends, whatever is put, collected
\* or instantiated around the two writes of Get.
DegradedOnceQuarantined ==
    crashes = 0 =>
        \A h \in corrupt : at # "flag" /\ cas[h] = "absent" /\ IsReferenced(h)
                           => index[h].status = "degraded"

\* "The graph answers, for any artifact: which inputs ... produced this artifact"
\* (artifact-format.md, section 7): until the process first ends, a content with a
\* row has its edges, but for those the call in progress has still to record.
EdgesRecorded ==
    crashes = 0 =>
        \A h \in Hash : IsReferenced(h) =>
            \A input \in Inputs[h] :
                <<input, h>> \in edges \/ (at = "edges" /\ arg = h /\ input \in todo)

\* Until the process first ends, the index tells a reader what became of a content
\* and what it was made from.
IndexTellsHistory == DegradedOnceQuarantined /\ EdgesRecorded
=============================================================================
