--------------------------- MODULE WorkspaceFiles ---------------------------
(***************************************************************************)
(* The files of one workspace in browser storage, and who touches them:    *)
(*   apps/studio/src/workspace/workspace-files.ts, with its callers in     *)
(*   apps/studio/src/App.tsx and the git sync that shares the directory.   *)
(*                                                                         *)
(* Saves of a workspace are serialised and coalesced; each one is a chain  *)
(* of awaits and here one action per await.  A delete drains the queue, a  *)
(* load walks the directory, a pull of the sync engine writes into it.     *)
(*                                                                         *)
(* Data: a set of files is a function from paths to texts.  Curated        *)
(* (read-only) files are never stored, so no snapshot here has one.        *)
(***************************************************************************)
EXTENDS Functions

CONSTANTS
  Path,     \* .rosetta files the editor tracks
  Other,    \* files of a cloned repository the editor does not track
  Text,     \* what the editor can hold for a file
  Foreign,  \* on disk: what a pull wrote, whatever its text
  Env,      \* what else may happen, see Freedom
  Caller,   \* calls whose promise is followed, each used again when settled
  Anyone    \* all other calls

\* "fail": storage refuses a step of a save; "deleteFails": it refuses to
\* remove the directory; "reload": the page dies and comes back; "reopen":
\* the workspace is loaded while a save of it is still running.
Freedom == {"fail", "deleteFails", "reload", "reopen"}

ASSUME EnvIsKnown == Env \subseteq Freedom
ASSUME DataIsNamed == Foreign \notin Text /\ Path \cap Other = {} /\ Anyone \notin Caller

VARIABLES
  kind,     \* the kind in the workspace record, "git" or "plain"
  there,    \* the directory of the workspace exists
  disk,     \* the files below it
  open,     \* the workspace is the one the App has restored
  editor,   \* the files state of the App
  load,     \* a load on its way: the names listed and the files read
  waiting,  \* the followed calls whose promise is open
  last,     \* the last save asked for, and what became of it
  pc,       \* where the running save waits; "off": inFlight = false
  asGit,    \* isGitBacked, as the running save has read it
  running,  \* its snapshot and the calls it will settle
  todo,     \* the paths its loop has left
  pending,  \* the snapshot queued behind it and the calls waiting for that
  known,    \* lastKnownTrackedPaths
  tomb,     \* deletedWorkspaceIds has the workspace
  del,      \* where its deletion is
  added,    \* files a pull brought that were not here, and still unread
  revised   \* files a pull changed after the editor had read them, likewise

app == <<open, editor, load>>
calls == <<waiting, last>>
queue == <<calls, pc, asGit, running, todo, pending, known>>
unread == <<added, revised>>
vars == <<kind, there, disk, app, queue, tomb, del, unread>>

NoFiles == [f \in {} |-> Foreign]
File == Path \cup Other
Contents == UNION {[ps -> Text \cup {Foreign}] : ps \in SUBSET File}
Snapshot == UNION {[ps -> Text] : ps \in SUBSET Path}
Batch == [files : Snapshot, callers : SUBSET (Caller \cup {Anyone})]
NoBatch == [files |-> NoFiles, callers |-> {}]
NoCall == [files |-> NoFiles, outcome |-> "none", clean |-> TRUE]
NoLoad == [on |-> FALSE, todo |-> {}, got |-> NoFiles]

TypeOK ==
  /\ kind \in {"git", "plain"}
  /\ there \in BOOLEAN /\ open \in BOOLEAN /\ asGit \in BOOLEAN /\ tomb \in BOOLEAN
  /\ disk \in Contents /\ editor \in Snapshot
  /\ load \in [on : BOOLEAN, todo : SUBSET Path, got : Snapshot]
  /\ waiting \subseteq Caller
  /\ last \in [files : Snapshot, clean : BOOLEAN,
              outcome : {"none", "waiting", "written", "rejected", "dropped", "lost"}]
  /\ pc \in {"off", "kind", "prepare", "prune", "unlink", "write"}
  /\ running \in Batch /\ pending \in Batch
  /\ todo \subseteq Path /\ known \subseteq Path
  /\ added \subseteq Path /\ revised \subseteq Path
  /\ del \in {"no", "record", "drain", "done", "failed", "orphaned"}

\* A workspace that was saved or cloned earlier and is not open now.
Init ==
  /\ kind \in {"git", "plain"}
  /\ there = TRUE
  /\ \E ps \in SUBSET Path, t \in Text :
       disk = [f \in ps \cup (IF kind = "git" THEN Other ELSE {}) |->
                 IF f \in Other THEN Foreign ELSE t]
  /\ open = FALSE /\ editor = NoFiles /\ load = NoLoad
  /\ waiting = {}
  /\ last = NoCall
  /\ pc = "off" /\ asGit = FALSE
  /\ running = NoBatch /\ todo = {} /\ pending = NoBatch /\ known = {}
  /\ tomb = FALSE /\ del = "no" /\ added = {} /\ revised = {}

-----------------------------------------------------------------------------
Without(f, ps) == Restrict(f, DOMAIN f \ ps)
With(f, p, t) == [q \in DOMAIN f \cup {p} |-> IF q = p THEN t ELSE f[q]]

\* The promises of these calls are resolved or rejected, and with withLast
\* that of the last call.
Settle(ids, how, withLast) ==
  /\ waiting' = waiting \ ids
  /\ last' = IF withLast /\ last.outcome = "waiting"
               THEN [last EXCEPT !.outcome = how, !.clean = @ /\ how # "rejected"]
               ELSE last

next == DOMAIN running.files

\* The paths two sets of files do not agree on.
Changed(f, g) ==
  {p \in Path : \/ (p \in DOMAIN f) # (p \in DOMAIN g)
                \/ p \in DOMAIN f \cap DOMAIN g /\ f[p] # g[p]}

\* The user has met these paths.
Seen(ps) == added' = added \ ps /\ revised' = revised \ ps

-----------------------------------------------------------------------------
(* Saving. *)

\* Slip: the snapshot queued first is kept.
QueueKeeping(s, c) == [files |-> IF pending = NoBatch THEN s ELSE pending.files,
                       callers |-> pending.callers \cup {c}]
\* A newer snapshot supersedes the queued one, whose waiters stay.
Queue(s, c) == [files |-> s, callers |-> pending.callers \cup {c}]

\* saveWorkspaceFiles, up to its first await.
Ask(s, c) ==
  /\ last' = [last EXCEPT !.files = s, !.outcome = IF tomb THEN "dropped" ELSE "waiting"]
  /\ IF tomb THEN UNCHANGED <<waiting, pc, running, pending>>
     ELSE /\ waiting' = waiting \cup ({c} \cap Caller)
          /\ IF pc = "off"
               THEN pc' = "kind" /\ running' = [files |-> s, callers |-> {c}] /\ UNCHANGED pending
               ELSE pending' = Queue(s, c) /\ UNCHANGED <<pc, running>>
  /\ UNCHANGED <<asGit, todo, known>>

\* loadWorkspaceFn: no record, then not git-backed.
ReadKind ==
  /\ pc = "kind" /\ pc' = "prepare"
  /\ asGit' = (kind = "git" /\ del = "no")
  /\ UNCHANGED <<kind, there, disk, app, calls, running, todo, pending, known, tomb, del, unread>>

\* Slip: the paths to unlink are those found on disk.
DroppedFromDisk == (DOMAIN disk \cap Path) \ next
\* Slip: the other files of the repository are not left alone either.
DroppedAll == DOMAIN disk \ next
\* What a save unlinks: the baseline without the snapshot.
Dropped == known \ next

\* The directories are created.
Prepare ==
  /\ pc = "prepare" /\ there' = TRUE
  /\ pc' = CASE ~asGit -> "prune" [] asGit /\ Dropped # {} -> "unlink" [] OTHER -> "write"
  /\ todo' = CASE ~asGit -> {} [] asGit /\ Dropped # {} -> Dropped [] OTHER -> next
  /\ UNCHANGED <<kind, disk, app, calls, asGit, running, pending, known, tomb, del, unread>>

\* removeEntry('files', { recursive: true })
Prune ==
  /\ pc = "prune" /\ pc' = "write" /\ todo' = next
  /\ disk' = NoFiles
  /\ UNCHANGED <<kind, there, app, calls, asGit, running, pending, known, tomb, del, unread>>

Unlink(p) ==
  /\ pc = "unlink" /\ p \in todo
  /\ disk' = Without(disk, {p})
  /\ pc' = IF todo = {p} THEN "write" ELSE "unlink"
  /\ todo' = IF todo = {p} THEN next ELSE todo \ {p}
  /\ UNCHANGED <<kind, there, app, calls, asGit, running, pending, known, tomb, del, unread>>

WriteFile(p) ==
  /\ pc = "write" /\ p \in todo
  /\ disk' = With(disk, p, running.files[p])
  /\ todo' = todo \ {p}
  /\ UNCHANGED <<kind, there, app, calls, pc, asGit, running, pending, known, tomb, del, unread>>

\* Slip: the queued snapshot is forgotten, and those who wait for it.
FinishForgets ==
  /\ pc = "write" /\ todo = {}
  /\ known' = next /\ Settle(running.callers, "written", pending = NoBatch)
  /\ pc' = "off" /\ running' = NoBatch /\ pending' = NoBatch
  /\ UNCHANGED <<kind, there, disk, app, asGit, todo, tomb, del, unread>>

\* The run is over: it settles its calls, the queued snapshot starts.
Finish ==
  /\ pc = "write" /\ todo = {}
  /\ known' = next
  /\ Settle(running.callers, "written", pending = NoBatch)
  /\ pc' = IF pending = NoBatch THEN "off" ELSE "kind"
  /\ asGit' = FALSE
  /\ running' = pending /\ pending' = NoBatch
  /\ UNCHANGED <<kind, there, disk, app, todo, tomb, del, unread>>

\* The queue entry is torn down, with all that waits in it.
TearDown(how) ==
  /\ Settle(running.callers \cup pending.callers, how, pc # "off")
  /\ pc' = "off" /\ running' = NoBatch /\ pending' = NoBatch
  /\ todo' = {} /\ asGit' = FALSE

\* A step of the save throws: every call behind it is rejected too.
Fail ==
  /\ "fail" \in Env
  /\ pc # "off" /\ (pc = "write" => todo # {})
  /\ TearDown("rejected")
  /\ UNCHANGED <<kind, there, disk, app, known, tomb, del, unread>>

-----------------------------------------------------------------------------
(* The App: edit, reset, leave, open. *)

Asker == (Caller \ waiting) \cup {Anyone}

\* handleFilesChange: the whole file set is saved at every change.
Edit(s, c) ==
  /\ open /\ s # editor
  /\ editor' = s
  /\ Seen(Changed(editor, s))
  /\ Ask(s, c)
  /\ UNCHANGED <<kind, there, disk, open, load, tomb, del>>

\* handleReset: an empty set is saved and the start page shown.
Reset(c) ==
  /\ open
  /\ open' = FALSE /\ editor' = NoFiles
  /\ Seen(DOMAIN editor)
  /\ Ask(NoFiles, c)
  /\ UNCHANGED <<kind, there, disk, load, tomb, del>>

\* Another workspace is opened.
Leave ==
  /\ open
  /\ open' = FALSE /\ editor' = NoFiles
  /\ UNCHANGED <<kind, there, disk, load, queue, tomb, del, unread>>

\* loadWorkspaceFiles lists the directory ...
OpenList ==
  /\ ~open /\ ~load.on /\ del = "no"
  /\ "reopen" \in Env \/ pc = "off"
  /\ load' = [on |-> TRUE, todo |-> DOMAIN disk \cap Path, got |-> NoFiles]
  /\ UNCHANGED <<kind, there, disk, open, editor, queue, tomb, del, unread>>

\* ... and reads the files; one that is gone is skipped.
OpenRead(p) ==
  /\ load.on /\ p \in load.todo
  /\ \E t \in Text :
       /\ p \in DOMAIN disk => disk[p] \in {t, Foreign}
       /\ load' = [load EXCEPT !.todo = @ \ {p},
                               !.got = IF p \in DOMAIN disk THEN With(@, p, t) ELSE @]
  /\ UNCHANGED <<kind, there, disk, open, editor, queue, tomb, del, unread>>

\* The baseline is what was read, the editor starts from it; restoreWorkspace opens it unless empty.
Opened ==
  /\ load.on /\ load.todo = {} /\ load' = NoLoad
  /\ known' = DOMAIN load.got
  /\ open' = (load.got # NoFiles) /\ editor' = load.got /\ last' = NoCall
  /\ Seen(DOMAIN load.got)
  /\ UNCHANGED <<kind, there, disk, waiting, pc, asGit, running, todo, pending, tomb, del>>

-----------------------------------------------------------------------------
(* Deletion: handleDeleteWorkspace, deleteWorkspaceFiles. *)

DeleteRecord ==
  /\ del = "no" /\ del' = "record"
  /\ Seen(Path)
  /\ UNCHANGED <<kind, there, disk, app, queue, tomb>>

\* Tombstone and cancel what is queued, without an await between.
Tombstone ==
  /\ del = "record" /\ del' = "drain" /\ tomb' = TRUE
  /\ Settle(pending.callers, "rejected", pending # NoBatch) /\ pending' = NoBatch
  /\ UNCHANGED <<kind, there, disk, app, pc, asGit, running, todo, known, unread>>

\* Slip: the running save is not awaited.
NeedNotWait == TRUE
\* runDone has settled, or there is no queue.
Drained == pc = "off"

\* The directory goes, and the App leaves a workspace it shows.
RemoveDir ==
  /\ del = "drain" /\ Drained
  /\ there' = FALSE /\ disk' = NoFiles /\ del' = "done"
  /\ open' = FALSE /\ editor' = NoFiles
  /\ UNCHANGED <<kind, load, queue, tomb, unread>>

\* Storage refuses: the tombstone is cleared, the workspace stays active.
RemoveDirFails ==
  /\ "deleteFails" \in Env
  /\ del = "drain" /\ Drained
  /\ del' = "failed" /\ tomb' = FALSE
  /\ UNCHANGED <<kind, there, disk, app, queue, unread>>

-----------------------------------------------------------------------------
(* The rest of the world. *)

AtRest == pc = "off" /\ last.outcome \in {"none", "written"}

\* The paths of the saves under way.
Asked == DOMAIN running.files \cup DOMAIN pending.files

\* The sync engine checks out what a collaborator did to p.  (A change to a
\* file whose save is still under way is a conflict, and in neither set.
\* What a sync does to a directory that is being deleted is left out.)
Pull(p) ==
  /\ kind = "git" /\ open /\ del = "no"
  /\ \/ /\ disk' = With(disk, p, Foreign)
        /\ added' = added \cup ({p} \ (known \cup DOMAIN editor \cup Asked))
        /\ revised' = IF AtRest THEN revised \cup ({p} \cap DOMAIN editor) ELSE revised
     \/ /\ p \in DOMAIN disk
        /\ disk' = Without(disk, {p}) /\ Seen({p})
  /\ UNCHANGED <<kind, there, app, queue, tomb, del>>

\* The page dies at any moment; what it held in memory is gone.
Reload ==
  /\ "reload" \in Env
  /\ open' = FALSE /\ editor' = NoFiles /\ load' = NoLoad
  /\ TearDown("lost") /\ known' = {}
  /\ tomb' = FALSE
  /\ del' = IF del \in {"record", "drain"} THEN "orphaned" ELSE del
  /\ UNCHANGED <<kind, there, disk, unread>>

SaveStep ==
  \/ ReadKind \/ Prepare \/ Prune \/ Finish
  \/ \E p \in Path : Unlink(p) \/ WriteFile(p)
LoadStep == Opened \/ \E p \in Path : OpenRead(p)
DeleteStep == Tombstone \/ RemoveDir \/ RemoveDirFails

Next ==
  \/ SaveStep \/ LoadStep \/ DeleteStep
  \/ Fail \/ Leave \/ OpenList \/ DeleteRecord \/ Reload
  \/ \E c \in Asker : Reset(c) \/ \E s \in Snapshot : Edit(s, c)
  \/ \E p \in Path : Pull(p)

Spec == Init /\ [][Next]_vars

\* Storage answers every request, with success or an error.
FairSpec ==
  /\ Spec
  /\ WF_vars(SaveStep) /\ WF_vars(LoadStep)
  /\ WF_vars(Tombstone) /\ WF_vars(RemoveDir \/ RemoveDirFails)

-----------------------------------------------------------------------------
(* Properties. *)

\* saveWorkspaceFiles promises that a burst ends in one save of the final
\* content.  When the last call is reported written, the disk has its
\* snapshot: exactly, in a plain workspace; in a git-backed one up to what
\* a pull has put there since, and without paths the snapshot dropped
\* unless an earlier save of them failed.
LastWrittenWins ==
  LET mine == {p \in DOMAIN disk : disk[p] # Foreign}
  IN (last.outcome = "written" /\ there) =>
       IF kind = "plain"
         THEN disk = last.files
         ELSE /\ \A p \in mine \cap DOMAIN last.files : disk[p] = last.files[p]
              /\ last.clean => mine \subseteq DOMAIN last.files

\* A save of a git-backed workspace never removes or overwrites what the
\* editor does not know: the other files of the repository, and the model
\* files a background sync has added.  (While its record exists.)
UnknownFilesKept ==
  (kind = "git" /\ del = "no") =>
    /\ Other \subseteq DOMAIN disk
    /\ \A p \in added : p \in DOMAIN disk /\ disk[p] = Foreign

\* No save, whenever it was asked for, recreates a workspace whose files
\* are deleted.
NoResurrection == del = "done" => ~there

\* Every save asked for is answered, behind failures, bursts and deletes.
\* (Calls that die with the page are not.)
EveryCallSettles == \A c \in Caller : (c \in waiting) ~> (c \notin waiting)

\* What a collaborator pushed and the user has neither seen nor edited is
\* not reverted by a save.
CollaboratorKept ==
  del = "no" => \A p \in revised : p \in DOMAIN disk /\ disk[p] = Foreign

\* Its safety half: a call without an answer is held by the running save or by
\* the queued one, by one of them only, so that it is answered once; and
\* nobody waits while no save runs.
NoCallForgotten ==
  /\ waiting = Caller \cap (running.callers \cup pending.callers)
  /\ running.callers \cap pending.callers \subseteq {Anyone}
  /\ pc = "off" => running = NoBatch /\ pending = NoBatch
=============================================================================
