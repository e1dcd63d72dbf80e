----------------------------- MODULE TaskCache -----------------------------
(***************************************************************************)
(* engine/cache/task_cache.cpp over the artifact store: a row of           *)
(* cache_entries leads from a cache key to an artifact instance, whose     *)
(* manifest leads to the content handed to the scheduler.                  *)
(*                                                                         *)
(* The calls come from the thread that writes to the store.  No call of    *)
(* the store removes a manifest that ever had a row; the directory of an   *)
(* instance may still be deleted by hand.                                  *)
(***************************************************************************)
EXTENDS ArtifactStore

CONSTANTS
    Key,      \* cache keys
    OutputOf, \* [Key -> Hash], what the task of a key computes
    MaxLost   \* bound on instances deleted by hand

ASSUME CacheAssumption == OutputOf \in [Key -> Hash] /\ MaxLost \in Nat

VARIABLES
    entries,  \* [Key -> Uuid \cup {None}], artifact_id of the cache_entries row
    lost      \* SUBSET Uuid, the instances deleted by hand

cacheVars == <<entries, lost>>

CacheTypeOK ==
    /\ entries \in [Key -> Uuid \cup {None}]
    /\ lost \subseteq Uuid /\ Cardinality(lost) <= MaxLost

\* What Lookup and ResolveOutput answer for a key; a manifest is all they ask for.
HitOf(k) == IF entries[k] = None THEN None ELSE manifests[entries[k]]

\* Faulty variant: any instance of the output will do, with or without a row.
StoreAnyInstance(k) ==
    /\ Callable
    /\ \E u \in Uuid : manifests[u] = OutputOf[k] /\ entries' = [entries EXCEPT ![k] = u]
    /\ UNCHANGED <<lost, storeVars>>

\* StoreOutput records the instance in the row of the output, if it has one.
StoreOutput(k) ==
    /\ Callable
    /\ IsReferenced(OutputOf[k])
    /\ entries' = [entries EXCEPT ![k] = index[OutputOf[k]].uuid]
    /\ UNCHANGED <<lost, storeVars>>

\* Lookup drops an entry whose manifest is gone.
LookupStale(k) ==
    /\ Callable
    /\ entries[k] # None /\ HitOf(k) = None
    /\ entries' = [entries EXCEPT ![k] = None]
    /\ UNCHANGED <<lost, storeVars>>

\* The directory of an instance is deleted by hand while no call is in progress.
LoseManifest(u) ==
    /\ at = "idle" /\ gc = "idle"
    /\ manifests[u] # None
    /\ Cardinality(lost \cup {u}) <= MaxLost
    /\ lost' = lost \cup {u}
    /\ manifests' = [manifests EXCEPT ![u] = None]
    /\ UNCHANGED <<cas, corrupt, tables, callVars, gcVars, storeEnv, entries>>

\* A step of the store; GenerateUuid does not return the uuid of a lost instance.
StoreStep ==
    /\ StoreNext
    /\ \A u \in lost : manifests'[u] = None
    /\ UNCHANGED cacheVars

CacheInit == StoreInit /\ entries = [k \in Key |-> None] /\ lost = {}

CacheNext ==
    \/ \E k \in Key : StoreOutput(k) \/ LookupStale(k)
    \/ \E u \in Uuid : LoseManifest(u)
    \/ StoreStep

CacheSpec == CacheInit /\ [][CacheNext]_<<storeVars, cacheVars>>

-----------------------------------------------------------------------------
(* Properties. *)

\* A key whose entry leads to a manifest hits the content its task computes, and
\* the payload of that content is there, or Get has moved it to the quarantine:
\* neither a process that ended in the middle of a write, nor a collection, nor a
\* deleted instance breaks it.  The quarantine is an exception because Lookup asks
\* for the manifest only, under the comment "A cache hit must still be backed by
\* the payload in CAS" (task_cache.cpp:66-69).
CacheHitBacked ==
    /\ StoreTypeOK
    /\ CacheTypeOK
    /\ \A k \in Key : entries[k] # None =>
          /\ IsReferenced(OutputOf[k])
          /\ HitOf(k) = IF entries[k] \in lost THEN None ELSE OutputOf[k]
    /\ \A k \in Key : HitOf(k) # None => cas[HitOf(k)] # "absent" \/ HitOf(k) \in corrupt
=============================================================================
