----------------------------- MODULE CloudSave -----------------------------
(***************************************************************************)
(* viewer_host.py: the viewer windows of the photo-to-cloud application    *)
(* that are open on one PLY file, and what their "save into this PLY" does *)
(* to it.  A window is a ViewerHost with its CloudSaveSession; every POST  *)
(* it sends runs in a handler thread of the application, under the one     *)
(* _SAVE_LOCK.                                                             *)
(*                                                                         *)
(* A content of the file is a number, new for every write; a fingerprint   *)
(* (size, times, inode) stands for the content it was taken of.  Torn is   *)
(* a content without its header or its points; a bare one has both and     *)
(* lacks what the header declares after the points, the faces of a mesh.   *)
(***************************************************************************)
EXTENDS Integers, FiniteSets

CONSTANTS
    Windows,        \* viewer windows that may be opened on the file
    MaxContents,    \* contents the file takes, the first one included
    MaxRequests     \* POST requests of all windows

ASSUME WindowsAssumption ==
    /\ IsFiniteSet(Windows) /\ Windows \cap {"none", "builder", "outside"} = {}
    /\ MaxContents \in Nat \ {0} /\ MaxRequests \in Nat

VARIABLES
    cloud,      \* the content of the PLY file
    author,     \* who wrote it: "builder", a window, "outside"
    contents,   \* contents made so far
    ascii,      \* the format the file declares: ASCII or binary
    bare,       \* the contents that end with their points
    deleted,    \* history: the user has deleted or changed a backup
    saveLock,   \* the window whose handler holds _SAVE_LOCK, or NoWindow
    session,    \* window -> its CloudSaveSession, its page and its handler
    requests    \* POST requests so far

Torn == 0
NoWindow == "none"
fileVars == <<cloud, author, contents, ascii, bare, deleted>>
saveVars == <<fileVars, saveLock, session, requests>>

\* pc: "closed" (not opened), "open", "gone" (the application has ended), and where the
\* handler of a POST is; snapshot, backup: contents; kept: the backup is still as the
\* session made it; original: the content its backup must hold; loaded, posted: the
\* contents the page shows and the request was made from; body: the temporary file,
\* "none", "broken" (another structure, or not every point), "points" or "whole".
NoSession == [pc |-> "closed", snapshot |-> 0, backup |-> 0, kept |-> FALSE,
              original |-> 0, loaded |-> 0, posted |-> 0, body |-> "none"]

SaveInit ==
    /\ cloud = 1 /\ author = "builder" /\ contents = 1
    /\ ascii \in BOOLEAN /\ bare = {} /\ deleted = FALSE
    /\ saveLock = NoWindow
    /\ session = [w \in Windows |-> NoSession]
    /\ requests = 0

Body == {"none", "broken", "points", "whole"}
InSave == {"receiving", "received", "checked", "backed", "replacing", "replaced"}
Saving(w) == session[w].pc \in InSave \cup {"waiting"}
Opened(w) == session[w].pc \notin {"closed", "gone"}

\* ViewerHost.__init__: the session takes its snapshot of the file.
OpenWindow(w) ==
    /\ session[w].pc = "closed"
    /\ session' = [session EXCEPT ![w] = [NoSession EXCEPT
                     !.pc = "open", !.snapshot = cloud, !.original = cloud]]
    /\ UNCHANGED <<fileVars, saveLock, requests>>

\* do_GET of the cloud: the page loads what the file holds now, again when it is
\* reloaded, also while an earlier POST of it is under way.
Load(w) ==
    /\ Opened(w) /\ session[w].loaded # cloud
    /\ session' = [session EXCEPT ![w].loaded = cloud]
    /\ UNCHANGED <<fileVars, saveLock, requests>>

\* do_POST accepts the request; its thread waits for the lock.
Post(w) ==
    /\ session[w].pc = "open" /\ session[w].loaded # 0
    /\ requests < MaxRequests /\ requests' = requests + 1
    /\ session' = [session EXCEPT ![w] = [session[w] EXCEPT !.pc = "waiting", !.posted = session[w].loaded]]
    /\ UNCHANGED <<fileVars, saveLock>>

\* _ensure_unchanged.
Unchanged(w) == cloud = session[w].snapshot

\* Mutant: an exception skips the release of the lock.
RefuseLocked(w) ==
    /\ session' = [session EXCEPT ![w].pc = "open"]
    /\ saveLock' = w
    /\ UNCHANGED <<fileVars, requests>>

\* The exception leaves save: the finally clause removes the temporary file, the lock
\* is released, and do_POST answers 409 or 400.
Refuse(w) ==
    /\ session' = [session EXCEPT ![w] = [session[w] EXCEPT !.pc = "open", !.body = "none", !.posted = 0]]
    /\ saveLock' = NoWindow
    /\ UNCHANGED <<fileVars, requests>>

\* Mutant: save without _SAVE_LOCK.
LockableAlways == TRUE

Lockable == saveLock = NoWindow

\* The lock is taken, the file compared with the snapshot, a backup that is gone or
\* changed forgotten, the free space checked, and the temporary file created.
BeginSave(w) ==
    /\ session[w].pc = "waiting" /\ Lockable
    /\ \/ /\ Unchanged(w)
          /\ saveLock' = w
          /\ session' = [session EXCEPT ![w] = [session[w] EXCEPT
               !.pc = "receiving",
               !.backup = IF session[w].kept THEN session[w].backup ELSE 0,
               !.original = IF session[w].kept THEN session[w].original ELSE cloud]]
          /\ UNCHANGED <<fileVars, requests>>
       \/ Refuse(w)

\* The body arrives in the temporary file and is flushed; what the page sent need not
\* be a PLY like the one it loaded.
Receive(w) ==
    /\ session[w].pc = "receiving"
    /\ \E body \in Body \ {"none"} :
          session' = [session EXCEPT ![w] = [session[w] EXCEPT !.pc = "received", !.body = body]]
    /\ UNCHANGED <<fileVars, saveLock, requests>>

\* _check_replacement: the declarations must be those of the file; a binary body must
\* have the size of the file's, an ASCII body only a line for every point.
Acceptable(body) ==
    IF ascii THEN body \notin {"none", "broken"}
    ELSE body = IF cloud \in bare THEN "points" ELSE "whole"

\* The check and the second _ensure_unchanged.
CheckReplacement(w) ==
    /\ session[w].pc = "received" /\ Acceptable(session[w].body) /\ Unchanged(w)
    /\ session' = [session EXCEPT ![w].pc = "checked"]
    /\ UNCHANGED <<fileVars, saveLock, requests>>

\* Mutant: every save takes a new backup.
BackUpAlways(w) ==
    /\ session[w].pc = "checked"
    /\ session' = [session EXCEPT ![w] = [session[w] EXCEPT
                     !.pc = "backed", !.backup = cloud, !.kept = TRUE]]
    /\ UNCHANGED <<fileVars, saveLock, requests>>

\* The first save of a session copies the file, whatever it holds by now.
BackUp(w) ==
    /\ session[w].pc = "checked"
    /\ session' = [session EXCEPT ![w] =
                     IF session[w].backup # 0 THEN [session[w] EXCEPT !.pc = "backed"]
                     ELSE [session[w] EXCEPT !.pc = "backed", !.backup = cloud, !.kept = TRUE]]
    /\ UNCHANGED <<fileVars, saveLock, requests>>

\* The third _ensure_unchanged; chmod and replace are still to come.
Recheck(w) ==
    /\ session[w].pc = "backed" /\ Unchanged(w)
    /\ session' = [session EXCEPT ![w].pc = "replacing"]
    /\ UNCHANGED <<fileVars, saveLock, requests>>

\* os.replace.
Replace(w) ==
    /\ session[w].pc = "replacing" /\ contents < MaxContents
    /\ contents' = contents + 1
    /\ cloud' = IF session[w].body \in {"none", "broken"} THEN Torn ELSE contents'
    /\ bare' = IF session[w].body = "points" THEN bare \cup {contents'} ELSE bare
    /\ author' = w
    /\ session' = [session EXCEPT ![w].pc = "replaced"]
    /\ UNCHANGED <<ascii, deleted, saveLock, requests>>

\* The fingerprint of what is there by now, the end of the lock, and the answer; the
\* page goes on with what it sent, unless it was reloaded meanwhile.
Remember(w) ==
    /\ session[w].pc = "replaced"
    /\ session' = [session EXCEPT ![w] = [session[w] EXCEPT
                     !.pc = "open", !.snapshot = cloud, !.body = "none", !.posted = 0,
                     !.loaded = IF session[w].loaded = session[w].posted THEN cloud
                                ELSE session[w].loaded]]
    /\ saveLock' = NoWindow
    /\ UNCHANGED <<fileVars, requests>>

\* A POST fails on its way: the upload breaks off or stands still for 30 seconds, the
\* structure differs, the file has changed, the disk is full or the system refuses.
SaveFails(w) == session[w].pc \in InSave \ {"replaced"} /\ Refuse(w)

Handle(w) ==
    \/ BeginSave(w) \/ Receive(w) \/ CheckReplacement(w) \/ BackUp(w) \/ Recheck(w)
    \/ Replace(w) \/ Remember(w) \/ SaveFails(w)

\* Another program writes the PLY, a whole one of the same format.
EditOutside ==
    /\ contents < MaxContents
    /\ contents' = contents + 1
    /\ cloud' = contents' /\ author' = "outside"
    /\ UNCHANGED <<ascii, bare, deleted, saveLock, session, requests>>

\* The user deletes or changes a backup.
DeleteBackup(w) ==
    /\ session[w].kept
    /\ session' = [session EXCEPT ![w].kept = FALSE]
    /\ deleted' = TRUE
    /\ UNCHANGED <<cloud, author, contents, ascii, bare, saveLock, requests>>

\* The application ends: its handlers are daemon threads and stop where they are, and
\* of its sessions the backups are left.
EndApplication ==
    /\ \E w \in Windows : Opened(w)
    /\ session' = [w \in Windows |-> [NoSession EXCEPT
                     !.pc = "gone", !.backup = session[w].backup, !.kept = session[w].kept,
                     !.original = session[w].original]]
    /\ saveLock' = NoWindow
    /\ UNCHANGED <<fileVars, requests>>

SaveNext ==
    \/ \E w \in Windows : OpenWindow(w) \/ Load(w) \/ Post(w) \/ Handle(w) \/ DeleteBackup(w)
    \/ EditOutside \/ EndApplication

\* A handler thread goes on; a body that does not come ends in a timeout.
SaveFairness == \A w \in Windows : WF_saveVars(Handle(w))

SaveSpec == SaveInit /\ [][SaveNext]_saveVars /\ SaveFairness

(***************************************************************************)
(* Properties                                                              *)
(***************************************************************************)
CloudSaveSession ==
    [pc : {"closed", "open", "waiting", "gone"} \cup InSave,
     snapshot : 0..MaxContents, backup : 0..MaxContents, kept : BOOLEAN,
     original : 0..MaxContents, loaded : 0..MaxContents, posted : 0..MaxContents,
     body : Body]

SaveTypeOK ==
    /\ cloud \in 0..MaxContents /\ contents \in 1..MaxContents
    /\ ascii \in BOOLEAN /\ bare \subseteq 1..contents /\ deleted \in BOOLEAN
    /\ author \in {"builder", "outside"} \cup Windows
    /\ saveLock \in Windows \cup {NoWindow}
    /\ session \in [Windows -> CloudSaveSession]
    /\ requests \in 0..MaxRequests

\* The PLY has its header and all its points whatever the handlers are doing, whatever
\* body they were sent, and when the application ends under them: save works on a
\* temporary file, compares it with the file and replaces the PLY in one step.  A binary
\* PLY has all it declares as well, since sizes are compared from save to save; an ASCII
\* one may lose what follows its points, for only lines are counted there.
CloudReadable == SaveTypeOK /\ cloud # Torn /\ (bare # {} => ascii)

\* Once a save has cost the PLY what follows its points, a backup with all of it is
\* still there, through later saves, other windows and the end of the application,
\* unless the user has taken a backup away: the session that saved it first had copied
\* the file before, and no session copies over its backup.
WayBack ==
    bare # {} => deleted \/ \E w \in Windows : /\ session[w].kept
                                             /\ session[w].backup \in (1..contents) \ bare

\* Before a window replaces the file, its backup holds the content the window first
\* found there (or found when the user had deleted the earlier backup): a later save
\* does not overwrite it, and a copy taken of something else never gets this far.
BackupOfOriginal ==
    \A w \in Windows :
        session[w].pc = "replacing" => session[w].backup = session[w].original

\* A window never replaces what another window saved by something that was not made
\* from it, though each session compares only with its own snapshot and its page loads
\* the file at a time of its own; only a program outside can slip in between the last
\* comparison and os.replace, or between os.replace and the new fingerprint.
SavesKeepEachOther ==
    [][\A w \in Windows :
          (session[w].pc = "replacing" /\ session'[w].pc = "replaced")
              => (session[w].posted = cloud \/ author \in {w, "outside"})]_saveVars

\* Every POST is answered, also when another window's save stands in its way or an
\* exception leaves the locked region.
PostAnswered == \A w \in Windows : Saving(w) ~> ~Saving(w)

\* Neither the cloud nor the user's way back to the original is ever lost to a save.
CloudKept == CloudReadable /\ WayBack /\ BackupOfOriginal
============================================================================
