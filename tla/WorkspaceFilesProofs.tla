------------------------ MODULE WorkspaceFilesProofs ------------------------
(***************************************************************************)
(* Proofs about WorkspaceFiles for any files, texts, callers and faults.   *)
(***************************************************************************)
EXTENDS WorkspaceFiles, TLAPS

(* Writing and unlinking a file leave a set of files. *)
LEMMA WithType ==
  ASSUME NEW F, NEW T, NEW f \in UNION {[ps -> T] : ps \in SUBSET F}, NEW p \in F, NEW t \in T
  PROVE  With(f, p, t) \in UNION {[ps -> T] : ps \in SUBSET F}
<1>1. PICK ps \in SUBSET F : f \in [ps -> T]
  OBVIOUS
<1>2. With(f, p, t) \in [ps \cup {p} -> T] /\ ps \cup {p} \in SUBSET F
  BY <1>1 DEF With
<1>3. QED
  BY <1>2

LEMMA WithoutType ==
  ASSUME NEW F, NEW T, NEW f \in UNION {[ps -> T] : ps \in SUBSET F}, NEW qs
  PROVE  Without(f, qs) \in UNION {[ps -> T] : ps \in SUBSET F}
<1>1. PICK ps \in SUBSET F : f \in [ps -> T]
  OBVIOUS
<1>2. Without(f, qs) \in [ps \ qs -> T] /\ ps \ qs \in SUBSET F
  BY <1>1 DEF Without, Restrict
<1>3. QED
  BY <1>2

(* The empty set of files, and a queue with nothing in it. *)
LEMMA NoFilesFacts ==
  /\ DOMAIN NoFiles = {}
  /\ NoLoad.on = FALSE
  /\ NoBatch.files = NoFiles /\ NoBatch.callers = {}
  /\ NoLoad.todo = {} /\ NoLoad.got = NoFiles
BY DEF NoFiles, NoLoad, NoBatch

-----------------------------------------------------------------------------
(* A deleted workspace stays deleted. *)

(* Once the directory is gone no save runs, and none can start: either the *)
(* tombstone is there, or the page was reloaded and the workspace cannot   *)
(* be opened again.                                                        *)
Buried ==
  /\ del = "drain" => tomb
  /\ del = "done" => ~there /\ pc = "off" /\ (tomb \/ (~open /\ ~load.on))

(* A call that finds the tombstone starts nothing. *)
LEMMA AskBuried ==
  ASSUME Buried, NEW s, NEW c, Ask(s, c), open, del' = del, there' = there,
         tomb' = tomb
  PROVE  Buried'
<1>1. CASE tomb
  BY <1>1 DEF Buried, Ask
<1>2. CASE ~tomb
  <2>1. del \notin {"drain", "done"}
    BY <1>2 DEF Buried
  <2>2. QED
    BY <2>1 DEF Buried
<1>3. QED
  BY <1>1, <1>2

LEMMA BuriedStep == Buried /\ [Next]_vars => Buried'
<1> SUFFICES ASSUME Buried, [Next]_vars PROVE Buried'
  OBVIOUS
<1>1. ASSUME SaveStep PROVE Buried'
  <2>1. pc # "off" /\ del' = del /\ tomb' = tomb
    BY <1>1 DEF SaveStep, ReadKind, Prepare, Prune, Finish, Unlink, WriteFile
  <2>2. QED
    BY <2>1 DEF Buried
<1>2. ASSUME LoadStep PROVE Buried'
  <2>1. /\ load.on
        /\ <<del, tomb, there, pc>>' = <<del, tomb, there, pc>>
    BY <1>2 DEF LoadStep, Opened, OpenRead, queue
  <2>2. QED
    BY <2>1 DEF Buried
<1>3. ASSUME DeleteStep PROVE Buried'
  BY <1>3 DEF DeleteStep, Tombstone, RemoveDir, RemoveDirFails, Drained, Buried, app, queue
<1>4. ASSUME Fail PROVE Buried'
  BY <1>4 DEF Fail, Buried, app
<1>5. ASSUME Leave PROVE Buried'
  BY <1>5 DEF Leave, Buried, queue
<1>6. ASSUME OpenList PROVE Buried'
  BY <1>6 DEF OpenList, Buried, queue
<1>7. ASSUME DeleteRecord PROVE Buried'
  BY <1>7 DEF DeleteRecord, Buried
<1>8. ASSUME Reload PROVE Buried'
  BY <1>8, NoFilesFacts DEF Reload, Buried, TearDown
<1>9. ASSUME NEW c, Reset(c) PROVE Buried'
  BY <1>9, AskBuried DEF Reset
<1>10. ASSUME NEW s, NEW c, Edit(s, c) PROVE Buried'
  BY <1>10, AskBuried DEF Edit
<1>11. ASSUME NEW p, Pull(p) PROVE Buried'
  BY <1>11 DEF Pull, Buried, app, queue
<1>12. ASSUME UNCHANGED vars PROVE Buried'
  BY <1>12 DEF vars, app, queue, Buried
<1>13. QED
  BY <1>1, <1>2, <1>3, <1>4, <1>5, <1>6, <1>7, <1>8, <1>9, <1>10, <1>11, <1>12 DEF Next

(* deleteWorkspaceFiles removes the directory for good: no save, queued,   *)
(* running or asked for later, recreates it, whatever fails or reloads.    *)
THEOREM DeletedForGood == Spec => []NoResurrection
<1>1. Init => Buried
  BY DEF Init, Buried
<1>2. Buried => NoResurrection
  BY DEF Buried, NoResurrection
<1>3. QED
  BY <1>1, <1>2, BuriedStep, PTL DEF Spec

-----------------------------------------------------------------------------
(* Files the editor does not know survive. *)

Untouched == added \cap (known \cup DOMAIN editor \cup Asked \cup todo) = {}

(* While the record exists a save of a git-backed workspace has read its   *)
(* kind right, and neither the baseline, nor the editor, nor a snapshot,   *)
(* nor the loop of the running save has a path a pull has added.           *)
GitInv ==
  (kind = "git" /\ del = "no") =>
    /\ UnknownFilesKept
    /\ pc # "prune" /\ (pc \in {"prepare", "unlink", "write"} => asGit)
    /\ Untouched
    /\ \/ pc = "unlink" /\ todo \subseteq known
       \/ pc = "write" /\ todo \subseteq next
       \/ todo = {}
    /\ load.on => ~open /\ pc = "off"

(* A call asked for with a snapshot that has none of the added files.      *)
LEMMA AskKeepsFiles ==
  ASSUME GitInv, kind = "git", del = "no", open, NEW s, NEW c, Ask(s, c),
         added' \subseteq added, added' \cap DOMAIN s = {},
         DOMAIN editor' \subseteq DOMAIN s,
         UNCHANGED <<kind, disk, load, del>>
  PROVE  GitInv'
<1>1. Asked' \subseteq Asked \cup DOMAIN s /\ known' = known /\ todo' = todo
  BY NoFilesFacts DEF Ask, Asked, Queue
<1>2. Untouched'
  BY <1>1 DEF GitInv, Untouched
<1>3. UnknownFilesKept'
  BY DEF GitInv, UnknownFilesKept
<1>4. ~load.on
  BY DEF GitInv
<1>5. /\ pc' = pc \/ (pc = "off" /\ pc' = "kind")
      /\ asGit' = asGit
      /\ pc # "off" => running' = running
  BY DEF Ask
<1>6. pc = "write" => next' = next
  BY <1>5 DEF next
<1>7. QED
  BY <1>1, <1>2, <1>3, <1>4, <1>5, <1>6 DEF GitInv

(* The steps of a save.                                                    *)
LEMMA SaveKeepsFiles ==
  ASSUME GitInv, kind = "git", del = "no", SaveStep
  PROVE  GitInv'
<1>1. /\ UNCHANGED <<kind, del, added, editor, open, load>>
      /\ ~load.on /\ pc # "off"
  BY DEF SaveStep, ReadKind, Prepare, Prune, Finish, Unlink, WriteFile, app, unread, GitInv
<1>2. CASE ReadKind
  <2>1. UNCHANGED <<disk, known, running, pending, todo>> /\ pc' = "prepare" /\ asGit'
    BY <1>2 DEF ReadKind, app
  <2>2. todo = {}
    BY <1>2 DEF ReadKind, GitInv
  <2>3. QED
    BY <1>1, <2>1, <2>2 DEF GitInv, UnknownFilesKept, Untouched, Asked
<1>3. CASE Prepare
  <2>1. UNCHANGED <<disk, known, running, pending, asGit>> /\ asGit
    BY <1>3 DEF Prepare, app, calls, GitInv
  <2>2. \/ pc' = "unlink" /\ todo' = Dropped
        \/ pc' = "write" /\ todo' = next
    BY <1>3, <2>1 DEF Prepare
  <2>3. todo' \subseteq known \cup next /\ (pc' = "unlink" => todo' \subseteq known)
        /\ (pc' = "write" => todo' \subseteq next)
    BY <2>2 DEF Dropped
  <2>4. next' = next /\ next \subseteq Asked /\ Asked' = Asked
    BY <2>1 DEF next, Asked
  <2>5. Untouched'
    BY <1>1, <2>1, <2>3, <2>4 DEF GitInv, Untouched
  <2>6. QED
    BY <1>1, <2>1, <2>2, <2>3, <2>4, <2>5 DEF GitInv, UnknownFilesKept
<1>4. CASE Prune
  BY <1>4 DEF Prune, GitInv
<1>5. ASSUME NEW p \in Path, Unlink(p) PROVE GitInv'
  <2>1. /\ UNCHANGED <<known, running, pending, asGit>> /\ asGit
        /\ p \in todo /\ p \notin added /\ p \notin Other
        /\ disk' = Without(disk, {p})
    BY <1>5, DataIsNamed DEF Unlink, app, calls, GitInv, Untouched
  <2>2. UnknownFilesKept'
    BY <1>1, <2>1 DEF GitInv, UnknownFilesKept, Without, Restrict
  <2>3. \/ pc' = "write" /\ todo' = next
        \/ pc' = "unlink" /\ todo' = todo \ {p} /\ todo \subseteq known
    BY <1>5 DEF Unlink, GitInv
  <2>4. next' = next /\ next \subseteq Asked /\ Asked' = Asked
    BY <2>1 DEF next, Asked
  <2>5. Untouched'
    BY <1>1, <2>1, <2>3, <2>4 DEF GitInv, Untouched
  <2>6. QED
    BY <1>1, <2>1, <2>2, <2>3, <2>4, <2>5 DEF GitInv
<1>6. ASSUME NEW p \in Path, WriteFile(p) PROVE GitInv'
  <2>1. /\ UNCHANGED <<known, running, pending, asGit, pc>> /\ asGit /\ pc = "write"
        /\ p \in todo /\ p \notin added /\ todo' = todo \ {p}
    BY <1>6 DEF WriteFile, app, calls, GitInv, Untouched
  <2>2. /\ DOMAIN disk' = DOMAIN disk \cup {p}
        /\ \A q \in DOMAIN disk \ {p} : disk'[q] = disk[q]
    BY <1>6 DEF WriteFile, With
  <2>3. UnknownFilesKept'
    BY <1>1, <2>1, <2>2 DEF GitInv, UnknownFilesKept
  <2>4. next' = next /\ Asked' = Asked
    BY <2>1 DEF next, Asked
  <2>5. QED
    BY <1>1, <2>1, <2>3, <2>4 DEF GitInv, Untouched
<1>7. CASE Finish
  <2>1. /\ known' = next /\ running' = pending /\ pending' = NoBatch
        /\ disk' = disk /\ todo = {} /\ todo' = {} /\ pc' \in {"off", "kind"}
    BY <1>7 DEF Finish, app
  <2>2. next \subseteq Asked /\ Asked' \subseteq Asked
    BY <2>1, NoFilesFacts DEF next, Asked
  <2>3. QED
    BY <1>1, <2>1, <2>2 DEF GitInv, UnknownFilesKept, Untouched
<1>8. QED
  BY <1>2, <1>3, <1>4, <1>5, <1>6, <1>7 DEF SaveStep

LEMMA GitStep ==
  ASSUME "reopen" \notin Env, GitInv, [Next]_vars
  PROVE  GitInv'
<1> SUFFICES ASSUME kind' = "git", del' = "no" PROVE GitInv'
  BY DEF GitInv
<1>0. kind = "git"
  BY DEF Next, vars, SaveStep, ReadKind, Prepare, Prune, Finish, Unlink, WriteFile, LoadStep,
         Opened, OpenRead, DeleteStep, Tombstone, RemoveDir, RemoveDirFails, Fail, Leave,
         OpenList, DeleteRecord, Reload, Reset, Edit, Pull
<1>1. del = "no"
  BY DEF Next, vars, SaveStep, ReadKind, Prepare, Prune, Finish, Unlink, WriteFile, LoadStep,
         Opened, OpenRead, DeleteStep, Tombstone, RemoveDir, RemoveDirFails, Fail, Leave,
         OpenList, DeleteRecord, Reload, Reset, Edit, Pull
<1>2. ASSUME SaveStep PROVE GitInv'
  BY <1>0, <1>1, <1>2, SaveKeepsFiles
<1>3. ASSUME Opened PROVE GitInv'
  <2>1. /\ UNCHANGED <<disk, pc, asGit, running, todo, pending>>
        /\ known' = DOMAIN load.got /\ editor' = load.got
        /\ added' = added \ DOMAIN load.got /\ load.on /\ ~load'.on
    BY <1>3, NoFilesFacts DEF Opened, Seen
  <2>2. pc = "off" /\ todo = {}
    BY <1>0, <1>1, <2>1 DEF GitInv
  <2>3. Asked' = Asked
    BY <2>1 DEF Asked
  <2>4. QED
    BY <1>0, <1>1, <2>1, <2>2, <2>3 DEF GitInv, UnknownFilesKept, Untouched
<1>4. ASSUME NEW p, OpenRead(p) PROVE GitInv'
  BY <1>0, <1>1, <1>4 DEF OpenRead, GitInv, UnknownFilesKept, Untouched, Asked, next, queue, unread
<1>5. ASSUME DeleteStep PROVE GitInv'
  BY <1>1, <1>5 DEF DeleteStep, Tombstone, RemoveDir, RemoveDirFails
<1>6. ASSUME TearDown("rejected") \/ TearDown("lost"), disk' = disk, added' = added,
             DOMAIN editor' \subseteq DOMAIN editor, known' \subseteq known, ~load'.on \/ (~load.on /\ load' = load)
      PROVE  GitInv'
  <2>1. running' = NoBatch /\ pending' = NoBatch /\ todo' = {} /\ pc' = "off"
    BY <1>6 DEF TearDown
  <2>2. Asked' = {}
    BY <2>1, NoFilesFacts DEF Asked
  <2>3. QED
    BY <1>0, <1>1, <1>6, <2>1, <2>2 DEF GitInv, UnknownFilesKept, Untouched
<1>7. ASSUME Fail PROVE GitInv'
  <2>1. ~load.on
    BY <1>0, <1>1, <1>7 DEF Fail, GitInv
  <2>2. QED
    BY <1>6, <1>7, <2>1 DEF Fail, app, unread
<1>8. ASSUME Reload PROVE GitInv'
  BY <1>6, <1>8, NoFilesFacts DEF Reload, unread
<1>9. ASSUME Leave PROVE GitInv'
  BY <1>0, <1>1, <1>9, NoFilesFacts DEF Leave, GitInv, UnknownFilesKept, Untouched, Asked, next, queue, unread
<1>10. ASSUME OpenList PROVE GitInv'
  BY <1>0, <1>1, <1>10 DEF OpenList, GitInv, UnknownFilesKept, Untouched, Asked, next, queue, unread
<1>11. ASSUME DeleteRecord PROVE GitInv'
  BY <1>11 DEF DeleteRecord
<1>12. ASSUME NEW c, Reset(c) PROVE GitInv'
  BY <1>0, <1>1, <1>12, AskKeepsFiles, NoFilesFacts DEF Reset, Seen
<1>13. ASSUME NEW s \in Snapshot, NEW c, Edit(s, c) PROVE GitInv'
  <2>1. DOMAIN s \subseteq Path
    BY DEF Snapshot
  <2>2. added \cap DOMAIN editor = {}
    BY <1>0, <1>1 DEF GitInv, Untouched
  <2>3. added \cap DOMAIN s \subseteq Changed(editor, s)
    BY <2>1, <2>2 DEF Changed
  <2>4. QED
    BY <1>0, <1>1, <1>13, <2>3, AskKeepsFiles DEF Edit, Seen
<1>14. ASSUME NEW p \in Path, Pull(p) PROVE GitInv'
  <2>1. /\ UNCHANGED <<known, editor, running, pending, todo, load, asGit, pc, open>>
        /\ open /\ p \notin Other
    BY <1>14, DataIsNamed DEF Pull, queue, app
  <2>2. Asked' = Asked /\ next' = next
    BY <2>1 DEF Asked, next
  <2>3. todo \subseteq known \cup Asked
    BY <1>0, <1>1 DEF GitInv, Asked, next
  <2>4. CASE disk' = With(disk, p, Foreign) /\ added' = added \cup ({p} \ (known \cup DOMAIN editor \cup Asked))
    <3>1. UnknownFilesKept'
      BY <1>0, <1>1, <2>4 DEF GitInv, UnknownFilesKept, With
    <3>2. Untouched'
      BY <1>0, <1>1, <2>1, <2>2, <2>3, <2>4 DEF GitInv, Untouched
    <3>3. QED
      BY <1>0, <1>1, <2>1, <2>2, <3>1, <3>2 DEF GitInv
  <2>5. CASE disk' = Without(disk, {p}) /\ Seen({p})
    <3>1. UnknownFilesKept'
      BY <1>0, <1>1, <2>1, <2>5 DEF GitInv, UnknownFilesKept, Seen, Without, Restrict
    <3>2. Untouched'
      BY <1>0, <1>1, <2>1, <2>2, <2>5 DEF GitInv, Untouched, Seen
    <3>3. QED
      BY <1>0, <1>1, <2>1, <2>2, <3>1, <3>2 DEF GitInv
  <2>6. QED
    BY <1>14, <2>4, <2>5 DEF Pull
<1>15. ASSUME UNCHANGED vars PROVE GitInv'
  BY <1>15 DEF vars, app, queue, unread, GitInv, UnknownFilesKept, Untouched, Asked, next
<1>16. QED
  BY <1>2, <1>3, <1>4, <1>5, <1>7, <1>8, <1>9, <1>10, <1>11, <1>12, <1>13, <1>14, <1>15 DEF Next, LoadStep

(* A save never removes or overwrites the files of the repository that the *)
(* editor does not know, and whose deletion the next sync would push: for  *)
(* workspaces that are not opened while a save of them still runs.         *)
THEOREM FilesKept ==
  ASSUME "reopen" \notin Env
  PROVE  Spec => []UnknownFilesKept
<1>1. Init => GitInv
  BY NoFilesFacts DEF Init, GitInv, UnknownFilesKept, Untouched, Asked
<1>2. GitInv => UnknownFilesKept
  BY DEF GitInv, UnknownFilesKept
<1>3. GitInv /\ [Next]_vars => GitInv'
  BY GitStep
<1>4. QED
  BY <1>1, <1>2, <1>3, PTL DEF Spec

-----------------------------------------------------------------------------
(* Types. *)

(* The same for the disk and for a snapshot. *)
LEMMA DiskTypes ==
  ASSUME NEW f \in Contents, NEW p \in Path
  PROVE  /\ \A t \in Text \cup {Foreign} : With(f, p, t) \in Contents
         /\ Without(f, {p}) \in Contents
<1>1. p \in File
  BY DEF File
<1>2. ASSUME NEW t \in Text \cup {Foreign} PROVE With(f, p, t) \in Contents
  BY <1>1, WithType DEF Contents
<1>3. Without(f, {p}) \in Contents
  BY WithoutType DEF Contents
<1>4. QED
  BY <1>2, <1>3

LEMMA SnapshotTypes ==
  ASSUME NEW f \in Snapshot
  PROVE  /\ DOMAIN f \subseteq Path
         /\ \A p \in DOMAIN f : f[p] \in Text
         /\ \A p \in Path, t \in Text : With(f, p, t) \in Snapshot
<1>1. PICK ps \in SUBSET Path : f \in [ps -> Text]
  BY DEF Snapshot
<1>2. ASSUME NEW p \in Path, NEW t \in Text PROVE With(f, p, t) \in Snapshot
  BY WithType DEF Snapshot
<1>3. QED
  BY <1>1, <1>2

LEMMA EmptyTypes ==
  /\ NoFiles \in Snapshot /\ NoFiles \in Contents
  /\ NoBatch \in Batch
  /\ NoLoad \in [on : BOOLEAN, todo : SUBSET Path, got : Snapshot]
<1>1. NoFiles \in [{} -> Text] /\ NoFiles \in [{} -> Text \cup {Foreign}]
  BY DEF NoFiles
<1>2. NoFiles \in Snapshot /\ NoFiles \in Contents
  BY <1>1 DEF Snapshot, Contents
<1>3. QED
  BY <1>2 DEF NoBatch, Batch, NoLoad

Outcome == {"none", "waiting", "written", "rejected", "dropped", "lost"}
LastCall == [files : Snapshot, clean : BOOLEAN, outcome : Outcome]

LEMMA SettleType ==
  ASSUME last \in LastCall, waiting \subseteq Caller, NEW ids, NEW how \in Outcome,
         NEW withLast, Settle(ids, how, withLast)
  PROVE  last' \in LastCall /\ waiting' \subseteq Caller
BY DEF LastCall, Settle, Outcome

LEMMA AskType ==
  ASSUME TypeOK, NEW s \in Snapshot, NEW c \in Asker, Ask(s, c)
  PROVE  /\ last' \in LastCall /\ waiting' \subseteq Caller
         /\ running' \in Batch /\ pending' \in Batch
         /\ pc' \in {"off", "kind", "prepare", "prune", "unlink", "write"}
         /\ asGit' \in BOOLEAN /\ todo' \subseteq Path /\ known' \subseteq Path
<1>1. c \in Caller \cup {Anyone}
  BY DEF Asker
<1>2. [files |-> s, callers |-> {c}] \in Batch
  BY <1>1 DEF Batch
<1>3. Queue(s, c) \in Batch
  BY <1>1 DEF Queue, Batch, TypeOK
<1>4. last' \in LastCall
  BY DEF Ask, LastCall, Outcome, TypeOK
<1>5. UNCHANGED <<asGit, todo, known>>
  BY DEF Ask
<1>6. CASE tomb
  BY <1>4, <1>5, <1>6 DEF Ask, TypeOK
<1>7. CASE ~tomb
  BY <1>2, <1>3, <1>4, <1>5, <1>7 DEF Ask, TypeOK
<1>8. QED
  BY <1>6, <1>7

LEMMA TearDownType ==
  ASSUME TypeOK, NEW how \in Outcome, TearDown(how)
  PROVE  /\ last' \in LastCall /\ waiting' \subseteq Caller
         /\ running' \in Batch /\ pending' \in Batch
         /\ pc' = "off" /\ asGit' = FALSE /\ todo' = {}
<1>1. last \in LastCall /\ waiting \subseteq Caller
  BY DEF TypeOK, LastCall, Outcome
<1>2. QED
  BY <1>1, SettleType, EmptyTypes DEF TearDown

(* What is still to be written belongs to the snapshot.                    *)
WritesSnapshot == pc = "write" => todo \subseteq next

LEMMA WritesStep == WritesSnapshot /\ [Next]_vars => WritesSnapshot'
<1> SUFFICES ASSUME WritesSnapshot, [Next]_vars PROVE WritesSnapshot'
  OBVIOUS
<1>1. CASE SaveStep
  BY <1>1 DEF SaveStep, ReadKind, Prepare, Prune, Finish, Unlink, WriteFile, WritesSnapshot, next, calls
<1>2. ASSUME NEW s, NEW c, Ask(s, c) PROVE WritesSnapshot'
  BY <1>2 DEF Ask, WritesSnapshot, next
<1>3. CASE Fail \/ Reload
  BY <1>3 DEF Fail, Reload, TearDown, WritesSnapshot
<1>4. CASE UNCHANGED <<pc, todo, running>>
  BY <1>4 DEF WritesSnapshot, next
<1>5. QED
  BY <1>1, <1>2, <1>3, <1>4 DEF Next, LoadStep, DeleteStep, Opened, OpenRead, Tombstone, RemoveDir,
     RemoveDirFails, Leave, OpenList, DeleteRecord, Edit, Reset, Pull, vars, queue

LEMMA TypeStep == TypeOK /\ WritesSnapshot /\ [Next]_vars => TypeOK'
<1> SUFFICES ASSUME TypeOK, WritesSnapshot, [Next]_vars PROVE TypeOK'
  OBVIOUS
<1>0. last \in LastCall /\ waiting \subseteq Caller /\ next \subseteq Path
  BY SnapshotTypes DEF TypeOK, LastCall, Outcome, next, Batch
<1>1. CASE ReadKind
  BY <1>1 DEF ReadKind, TypeOK, app, calls, unread
<1>2. CASE Prepare
  BY <1>0, <1>2 DEF Prepare, Dropped, TypeOK, app, calls, unread
<1>3. CASE Prune
  BY <1>0, <1>3, EmptyTypes DEF Prune, TypeOK, app, calls, unread
<1>4. ASSUME NEW p \in Path, Unlink(p) PROVE TypeOK'
  <2>1. disk' \in Contents
    BY <1>4, DiskTypes DEF Unlink, TypeOK
  <2>2. QED
    BY <1>0, <1>4, <2>1 DEF Unlink, TypeOK, app, calls, unread
<1>5. ASSUME NEW p \in Path, WriteFile(p) PROVE TypeOK'
  <2>1. running.files \in Snapshot
    BY DEF TypeOK, Batch
  <2>2. p \in DOMAIN running.files
    BY <1>5 DEF WriteFile, WritesSnapshot, next
  <2>3. running.files[p] \in Text
    BY <1>5, <2>1, <2>2, SnapshotTypes
  <2>4. disk' \in Contents
    BY <1>5, <2>3, DiskTypes DEF WriteFile, TypeOK
  <2>5. QED
    BY <1>5, <2>4 DEF WriteFile, TypeOK, app, calls, unread
<1>6. CASE Finish
  <2>1. last' \in LastCall /\ waiting' \subseteq Caller
    BY <1>0, <1>6, SettleType DEF Finish, Outcome
  <2>2. QED
    BY <1>0, <1>6, <2>1, EmptyTypes DEF Finish, TypeOK, app, unread, LastCall, Outcome
<1>7. CASE Fail
  <2>1. "rejected" \in Outcome
    BY DEF Outcome
  <2>2. QED
    BY <1>7, <2>1, TearDownType DEF Fail, TypeOK, app, unread, LastCall, Outcome
<1>8. CASE Reload
  <2>1. "lost" \in Outcome
    BY DEF Outcome
  <2>2. QED
    BY <1>8, <2>1, TearDownType, EmptyTypes DEF Reload, TypeOK, unread, LastCall, Outcome
<1>9. CASE Leave
  <2>1. editor' \in Snapshot /\ open' \in BOOLEAN
    BY <1>9, EmptyTypes DEF Leave
  <2>2. QED
    BY <1>9, <2>1 DEF Leave, TypeOK, queue, calls, unread
<1>10. CASE OpenList
  BY <1>10, EmptyTypes DEF OpenList, TypeOK, queue, calls, unread
<1>11. ASSUME NEW p \in Path, OpenRead(p) PROVE TypeOK'
  <2>1. PICK t \in Text :
          load' = [load EXCEPT !.todo = @ \ {p},
                               !.got = IF p \in DOMAIN disk THEN With(@, p, t) ELSE @]
    BY <1>11 DEF OpenRead
  <2>2. With(load.got, p, t) \in Snapshot
    BY SnapshotTypes DEF TypeOK
  <2>3. load' \in [on : BOOLEAN, todo : SUBSET Path, got : Snapshot]
    BY <2>1, <2>2 DEF TypeOK
  <2>4. QED
    BY <1>11, <2>3 DEF OpenRead, TypeOK, queue, calls, unread
<1>12. CASE Opened
  <2>1. DOMAIN load.got \subseteq Path
    BY SnapshotTypes DEF TypeOK
  <2>2. QED
    BY <1>12, <2>1, EmptyTypes DEF Opened, TypeOK, NoCall, Seen
<1>13. ASSUME NEW c \in Asker, Reset(c) PROVE TypeOK'
  BY <1>13, AskType, EmptyTypes DEF Reset, TypeOK, Seen, LastCall, Outcome
<1>14. ASSUME NEW c \in Asker, NEW s \in Snapshot, Edit(s, c) PROVE TypeOK'
  BY <1>14, AskType DEF Edit, TypeOK, Seen, LastCall, Outcome
<1>15. CASE DeleteRecord
  BY <1>15 DEF DeleteRecord, TypeOK, Seen, app, queue, calls
<1>16. CASE Tombstone
  <2>1. last' \in LastCall /\ waiting' \subseteq Caller
    BY <1>0, <1>16, SettleType DEF Tombstone, Outcome
  <2>2. QED
    BY <1>16, <2>1, EmptyTypes DEF Tombstone, TypeOK, app, unread, LastCall, Outcome
<1>17. CASE RemoveDir \/ RemoveDirFails
  BY <1>17, EmptyTypes DEF RemoveDir, RemoveDirFails, TypeOK, app, queue, calls, unread
<1>18. ASSUME NEW p \in Path, Pull(p) PROVE TypeOK'
  <2>1. With(disk, p, Foreign) \in Contents /\ Without(disk, {p}) \in Contents
    BY DiskTypes DEF TypeOK
  <2>2. QED
    BY <1>18, <2>1 DEF Pull, TypeOK, app, queue, calls, Seen
<1>19. CASE UNCHANGED vars
  BY <1>19 DEF vars, app, queue, calls, unread, TypeOK
<1>20. QED
  BY <1>1, <1>2, <1>3, <1>4, <1>5, <1>6, <1>7, <1>8, <1>9, <1>10, <1>11, <1>12, <1>13, <1>14, <1>15,
     <1>16, <1>17, <1>18, <1>19 DEF Next, SaveStep, LoadStep, DeleteStep

(* Every variable keeps its type. *)
THEOREM TypeCorrect == Spec => []TypeOK
<1>1. Init => TypeOK
  <2> SUFFICES ASSUME Init PROVE TypeOK
    OBVIOUS
  <2>1. disk \in Contents
    BY DEF Init, Contents, File
  <2>2. QED
    BY <2>1, EmptyTypes DEF Init, TypeOK, NoCall
<1>2. Init => WritesSnapshot
  BY DEF Init, WritesSnapshot
<1>3. QED
  BY <1>1, <1>2, TypeStep, WritesStep, PTL DEF Spec

-----------------------------------------------------------------------------
(* In a plain workspace the last save that is reported written is on disk. *)

(* The files a save has written so far are those it has no longer to do,   *)
(* and the last call waits in the newest batch.                            *)
PlainInv ==
  kind = "plain" =>
    /\ ~asGit /\ pc # "unlink"
    /\ pc = "write" => disk = Restrict(running.files, next \ todo)
    /\ pc = "off" => pending = NoBatch
    /\ last.outcome = "waiting" =>
         /\ pc # "off"
         /\ last.files = (IF pending = NoBatch THEN running.files ELSE pending.files)
    /\ last.outcome = "written" => pc = "off" /\ (there => disk = last.files)

(* One more file written.                                                  *)
LEMMA WriteNext ==
  ASSUME NEW f, NEW S, NEW p
  PROVE  With(Restrict(f, S), p, f[p]) = Restrict(f, S \cup {p})
BY DEF With, Restrict

(* A queue somebody waits in is not the empty one.                         *)
LEMMA QueueIsNotEmpty ==
  ASSUME NEW s, NEW c
  PROVE  Queue(s, c) # NoBatch /\ Queue(s, c).files = s
BY DEF Queue, NoBatch

LEMMA PlainAsk ==
  ASSUME PlainInv, last \in LastCall, kind = "plain", NEW s, NEW c, Ask(s, c),
         UNCHANGED <<kind, disk, there>>
  PROVE  PlainInv'
<1>1. /\ last'.files = s
      /\ last'.outcome = IF tomb THEN "dropped" ELSE "waiting"
      /\ UNCHANGED <<asGit, todo, known>>
  BY DEF Ask, LastCall
<1>2. CASE tomb
  BY <1>1, <1>2 DEF Ask, PlainInv, next
<1>3. CASE ~tomb /\ pc = "off"
  <2>1. pc' = "kind" /\ running'.files = s /\ pending' = NoBatch
    BY <1>3 DEF Ask, PlainInv
  <2>2. QED
    BY <1>1, <1>3, <2>1 DEF PlainInv
<1>4. CASE ~tomb /\ pc # "off"
  <2>1. pending' # NoBatch /\ pending'.files = s /\ UNCHANGED <<pc, running>>
    BY <1>4, QueueIsNotEmpty DEF Ask
  <2>2. QED
    BY <1>1, <1>4, <2>1 DEF PlainInv, next
<1>5. QED
  BY <1>2, <1>3, <1>4

LEMMA PlainSave ==
  ASSUME PlainInv, TypeOK, WritesSnapshot, kind = "plain", SaveStep
  PROVE  PlainInv'
<1>0. last \in LastCall /\ running.files \in Snapshot
  BY DEF TypeOK, LastCall, Outcome, Batch
<1>1. CASE ReadKind
  BY <1>1 DEF ReadKind, PlainInv, calls, app
<1>2. CASE Prepare
  BY <1>2 DEF Prepare, PlainInv, calls, app
<1>3. CASE Prune
  <2>1. disk' = Restrict(running.files, next \ todo')
    BY <1>3 DEF Prune, NoFiles, Restrict
  <2>2. /\ UNCHANGED <<kind, there, asGit, last, running, pending>>
        /\ pc = "prune" /\ pc' = "write"
    BY <1>3 DEF Prune, calls
  <2>3. next' = next
    BY <2>2 DEF next
  <2>4. QED
    BY <2>1, <2>2, <2>3 DEF PlainInv
<1>4. ASSUME NEW p \in Path, Unlink(p) PROVE PlainInv'
  BY <1>4 DEF Unlink, PlainInv
<1>5. ASSUME NEW p \in Path, WriteFile(p) PROVE PlainInv'
  <2>1. /\ UNCHANGED <<kind, there, asGit, last, running, pending, pc>>
        /\ pc = "write" /\ p \in todo /\ todo' = todo \ {p}
        /\ disk' = With(disk, p, running.files[p])
    BY <1>5 DEF WriteFile, calls
  <2>2. p \in next
    BY <2>1 DEF WritesSnapshot
  <2>3. disk' = Restrict(running.files, (next \ todo) \cup {p})
    BY <2>1, WriteNext DEF PlainInv
  <2>4. (next \ todo) \cup {p} = next \ todo'
    BY <2>1, <2>2
  <2>5. next' = next
    BY <2>1 DEF next
  <2>6. QED
    BY <2>1, <2>3, <2>4, <2>5 DEF PlainInv
<1>6. CASE Finish
  <2>1. /\ UNCHANGED <<kind, there, disk>> /\ ~asGit' /\ last.outcome # "written"
        /\ running' = pending /\ pending' = NoBatch /\ todo = {} /\ pc = "write"
        /\ pc' = IF pending = NoBatch THEN "off" ELSE "kind"
        /\ Settle(running.callers, "written", pending = NoBatch)
    BY <1>6 DEF Finish, PlainInv
  <2>2. disk = running.files
    <3>1. disk = Restrict(running.files, DOMAIN running.files)
      BY <2>1 DEF PlainInv, next
    <3>2. running.files = [x \in DOMAIN running.files |-> running.files[x]]
      BY <1>0 DEF Snapshot
    <3>3. QED
      BY <3>1, <3>2 DEF Restrict
  <2>3. CASE pending = NoBatch
    <3>1. /\ last'.files = last.files
          /\ last'.outcome = IF last.outcome = "waiting" THEN "written" ELSE last.outcome
      BY <1>0, <2>1, <2>3 DEF Settle, LastCall
    <3>2. QED
      BY <2>1, <2>2, <2>3, <3>1 DEF PlainInv
  <2>4. CASE pending # NoBatch
    <3>1. last' = last
      BY <2>1, <2>4 DEF Settle
    <3>2. QED
      BY <2>1, <2>4, <3>1 DEF PlainInv
  <2>5. QED
    BY <2>3, <2>4
<1>7. QED
  BY <1>1, <1>2, <1>3, <1>4, <1>5, <1>6 DEF SaveStep

(* Settling without success.                                               *)
LEMMA PlainTearDown ==
  ASSUME PlainInv, last \in LastCall, kind = "plain", UNCHANGED <<kind, disk, there>>,
         NEW how, how \in {"rejected", "lost"}, TearDown(how)
  PROVE  PlainInv'
<1>1. /\ last'.files = last.files
      /\ last'.outcome = IF pc # "off" /\ last.outcome = "waiting" THEN how ELSE last.outcome
  BY DEF TearDown, Settle, LastCall
<1>2. pc' = "off" /\ pending' = NoBatch /\ ~asGit'
  BY DEF TearDown
<1>3. QED
  BY <1>1, <1>2 DEF PlainInv

LEMMA PlainStep == PlainInv /\ TypeOK /\ WritesSnapshot /\ [Next]_vars => PlainInv'
<1> SUFFICES ASSUME PlainInv, TypeOK, WritesSnapshot, [Next]_vars, kind' = "plain"
             PROVE PlainInv'
  BY DEF PlainInv
<1>0. last \in LastCall
  BY DEF TypeOK, LastCall, Outcome
<1>1. kind = "plain"
  BY DEF Next, vars, SaveStep, ReadKind, Prepare, Prune, Finish, Unlink, WriteFile, LoadStep,
         Opened, OpenRead, DeleteStep, Tombstone, RemoveDir, RemoveDirFails, Fail, Leave,
         OpenList, DeleteRecord, Reload, Reset, Edit, Pull
<1>2. CASE SaveStep
  BY <1>1, <1>2, PlainSave
<1>3. CASE LoadStep
  <2>1. /\ UNCHANGED <<there, disk, pc, asGit, running, todo, pending>>
        /\ last' = last \/ last' = NoCall
    BY <1>3 DEF LoadStep, Opened, OpenRead, queue, calls
  <2>2. NoCall.outcome = "none"
    BY DEF NoCall
  <2>3. next' = next
    BY <2>1 DEF next
  <2>4. QED
    BY <1>1, <2>1, <2>2, <2>3 DEF PlainInv
<1>4. CASE Tombstone
  <2>1. /\ UNCHANGED <<there, disk, pc, asGit, running, todo>>
        /\ pending' = NoBatch
        /\ Settle(pending.callers, "rejected", pending # NoBatch)
    BY <1>4 DEF Tombstone
  <2>2. /\ last'.files = last.files
        /\ last'.outcome = IF pending # NoBatch /\ last.outcome = "waiting" THEN "rejected" ELSE last.outcome
    BY <1>0, <2>1 DEF Settle, LastCall
  <2>3. next' = next
    BY <2>1 DEF next
  <2>4. QED
    BY <1>1, <2>1, <2>2, <2>3 DEF PlainInv
<1>5. CASE RemoveDir
  <2>1. /\ UNCHANGED <<last, pc, asGit, running, todo, pending>>
        /\ pc = "off" /\ ~there'
    BY <1>5 DEF RemoveDir, Drained, queue, calls
  <2>2. QED
    BY <1>1, <2>1 DEF PlainInv
<1>6. CASE Fail
  BY <1>0, <1>1, <1>6, PlainTearDown DEF Fail
<1>7. CASE Reload
  BY <1>0, <1>1, <1>7, PlainTearDown DEF Reload
<1>8. ASSUME NEW c, Reset(c) PROVE PlainInv'
  BY <1>0, <1>1, <1>8, PlainAsk DEF Reset
<1>9. ASSUME NEW s, NEW c, Edit(s, c) PROVE PlainInv'
  BY <1>0, <1>1, <1>9, PlainAsk DEF Edit
<1>10. CASE UNCHANGED <<disk, there, last, pc, asGit, running, todo, pending>>
  BY <1>1, <1>10 DEF PlainInv, next
<1>11. ~\E p \in Path : Pull(p)
  BY <1>1 DEF Pull
<1>12. QED
  BY <1>2, <1>3, <1>4, <1>5, <1>6, <1>7, <1>8, <1>9, <1>10, <1>11
     DEF Next, DeleteStep, RemoveDirFails, Leave, OpenList, DeleteRecord, vars, queue, calls

(* In a plain workspace, when the last save asked for is reported written, *)
(* the disk has exactly its snapshot: through bursts, failures, reloads,   *)
(* deletes and reopening.                                                  *)
THEOREM LastSaveIsOnDisk == Spec => [](kind = "plain" => LastWrittenWins)
<1>1. Init => PlainInv /\ WritesSnapshot
  BY DEF Init, PlainInv, NoCall, WritesSnapshot
<1>2. PlainInv => (kind = "plain" => LastWrittenWins)
  BY DEF PlainInv, LastWrittenWins
<1>3. QED
  BY <1>1, <1>2, PlainStep, WritesStep, TypeCorrect, PTL DEF Spec

-----------------------------------------------------------------------------
(* In a git-backed workspace the last save reported written is on disk.    *)

(* On disk, but not from a pull: what the saves have left there.           *)
Mine == {f \in DOMAIN disk : disk[f] # Foreign}

(* What the running save, or else the next one, leaves of it.              *)
Spared == CASE pc = "unlink" -> next \cup todo
            [] pc = "write" -> next
            [] OTHER -> known

(* Nobody edits a workspace while it is read, no save of it runs, and the  *)
(* names listed are those of all its files.                                *)
ReadAlone ==
  load.on => ~open /\ pc = "off" /\ Mine \subseteq load.todo \cup DOMAIN load.got

(* While the record exists a running save settles the last call, and the   *)
(* last call waits in the newest batch.                                    *)
LastIsNewest ==
  /\ pc = "off" => pending = NoBatch
  /\ pc # "off" /\ del = "no" => last.outcome = "waiting"
  /\ last.outcome = "waiting" =>
       /\ pc # "off"
       /\ last.files = (IF pending = NoBatch THEN running.files ELSE pending.files)

(* A save unlinks what it knows, or prunes all, as it has read the kind.   *)
ReadsItsKind ==
  /\ pc \in {"off", "kind"} => ~asGit
  /\ pc \in {"prepare", "prune", "unlink", "write"} /\ del = "no" => asGit
  /\ (pc = "unlink" => asGit) /\ (pc = "prune" => ~asGit)

(* Unless a save has failed, the baseline and then the running save have   *)
(* every file an earlier save has left on disk.                            *)
KnowsItsFiles ==
  last.clean /\ (pc # "off" \/ open) /\ (del = "no" \/ asGit) => Mine \subseteq Spared

(* The files written so far have the texts of the snapshot, and what it    *)
(* dropped is gone.                                                        *)
WritesItsSnapshot ==
  pc = "write" =>
    /\ \A f \in Mine \cap (next \ todo) : disk[f] = running.files[f]
    /\ last.clean \/ ~asGit => Mine \subseteq next

WrittenIsThere == last.outcome = "written" => pc = "off" /\ LastWrittenWins

InGit ==
  /\ Mine \subseteq Path
  /\ tomb => del # "no"
  /\ ReadAlone /\ LastIsNewest /\ ReadsItsKind
  /\ KnowsItsFiles /\ WritesItsSnapshot /\ WrittenIsThere

GitSaved == kind = "git" => InGit

(* What becomes of those files when one is written, unlinked or pulled.    *)
LEMMA MineWith ==
  ASSUME NEW p, NEW t, disk' = With(disk, p, t)
  PROVE  /\ Mine' \subseteq Mine \cup {p}
         /\ \A f \in Mine' \ {p} : disk'[f] = disk[f]
         /\ disk'[p] = t
         /\ t = Foreign => Mine' \subseteq Mine \ {p}
BY DEF Mine, With

LEMMA MineWithout ==
  ASSUME NEW p, disk' = Without(disk, {p})
  PROVE  /\ Mine' \subseteq Mine \ {p}
         /\ \A f \in Mine' : disk'[f] = disk[f]
BY DEF Mine, Without, Restrict

(* Another save is asked for in an open workspace.                         *)
LEMMA AskInGit ==
  ASSUME InGit, last \in LastCall, kind = "git", open, NEW s, NEW c, Ask(s, c),
         UNCHANGED <<kind, disk, there, load, tomb, del>>
  PROVE  InGit'
<1>1. /\ last'.files = s /\ last'.clean = last.clean
      /\ last'.outcome = IF tomb THEN "dropped" ELSE "waiting"
      /\ UNCHANGED <<asGit, todo, known>>
  BY DEF Ask, LastCall
<1>2. Mine' = Mine
  BY DEF Mine
<1>3. ~load.on
  BY DEF InGit, ReadAlone
<1>4. \/ UNCHANGED <<pc, running, pending>> /\ tomb
      \/ /\ ~tomb /\ pc = "off" /\ pc' = "kind"
         /\ running'.files = s /\ pending' = NoBatch
      \/ /\ ~tomb /\ pc # "off" /\ UNCHANGED <<pc, running>>
         /\ pending' # NoBatch /\ pending'.files = s
  <2>1. pc = "off" => pending = NoBatch
    BY DEF InGit, LastIsNewest
  <2>2. QED
    BY <2>1, QueueIsNotEmpty DEF Ask
<1>5. \/ pc' = pc /\ next' = next /\ running' = running
      \/ pc = "off" /\ pc' = "kind"
  BY <1>4 DEF next
<1>6. LastIsNewest'
  BY <1>1, <1>4 DEF InGit, LastIsNewest
<1>7. ReadsItsKind'
  BY <1>1, <1>5 DEF InGit, ReadsItsKind
<1>8. KnowsItsFiles'
  BY <1>1, <1>2, <1>5 DEF InGit, KnowsItsFiles, Spared
<1>9. WritesItsSnapshot'
  BY <1>1, <1>2, <1>5 DEF InGit, WritesItsSnapshot
<1>10. ReadAlone' /\ WrittenIsThere'
  BY <1>1, <1>3 DEF ReadAlone, WrittenIsThere
<1>11. QED
  BY <1>2, <1>6, <1>7, <1>8, <1>9, <1>10 DEF InGit

(* The save fails, or the page dies.                                       *)
LEMMA TearDownInGit ==
  ASSUME InGit, last \in LastCall, kind = "git",
         UNCHANGED <<kind, disk, there>>, NEW how, TearDown(how),
         \/ how = "lost" /\ ~open' /\ ~load'.on /\ ~tomb'
         \/ how = "rejected" /\ pc # "off" /\ UNCHANGED <<open, load, del, tomb>>
  PROVE  InGit'
<1>1. /\ last'.files = last.files
      /\ last'.outcome = IF pc # "off" /\ last.outcome = "waiting" THEN how ELSE last.outcome
      /\ last'.clean => last.clean
      /\ how = "rejected" /\ last.outcome = "waiting" => ~last'.clean
  BY DEF TearDown, Settle, LastCall
<1>2. pc' = "off" /\ pending' = NoBatch /\ ~asGit'
  BY DEF TearDown
<1>3. Mine' = Mine
  BY DEF Mine
<1>4. LastIsNewest' /\ ReadsItsKind' /\ WritesItsSnapshot'
  BY <1>1, <1>2 DEF InGit, LastIsNewest, ReadsItsKind, WritesItsSnapshot
<1>5. KnowsItsFiles'
  BY <1>1, <1>2 DEF InGit, LastIsNewest, KnowsItsFiles
<1>6. WrittenIsThere'
  BY <1>1, <1>2 DEF InGit, WrittenIsThere, LastWrittenWins
<1>7. ReadAlone' /\ (tomb' => del' # "no")
  BY <1>2, <1>3 DEF InGit, ReadAlone
<1>8. QED
  BY <1>3, <1>4, <1>5, <1>6, <1>7 DEF InGit

(* The steps of a save.                                                    *)
LEMMA SaveInGit ==
  ASSUME InGit, TypeOK, WritesSnapshot, kind = "git", SaveStep
  PROVE  InGit'
<1>0. /\ last \in LastCall
      /\ UNCHANGED <<kind, open, load, tomb, del>> /\ pc # "off"
  BY DEF SaveStep, ReadKind, Prepare, Prune, Finish, Unlink, WriteFile, app, TypeOK,
         LastCall, Outcome
<1>1. ReadAlone' /\ (tomb' => del' # "no")
  BY <1>0 DEF InGit, ReadAlone
<1>2. last.outcome # "written"
  BY <1>0 DEF InGit, WrittenIsThere
<1>3. CASE ReadKind
  <2>1. /\ UNCHANGED <<last, disk, running, todo, pending, known>> /\ pc = "kind"
        /\ pc' = "prepare" /\ (asGit' <=> del = "no")
    BY <1>3 DEF ReadKind, calls
  <2>2. Mine' = Mine
    BY <2>1 DEF Mine
  <2>3. LastIsNewest' /\ ReadsItsKind' /\ WritesItsSnapshot' /\ WrittenIsThere'
    BY <1>0, <1>2, <2>1 DEF InGit, LastIsNewest, ReadsItsKind, WritesItsSnapshot, WrittenIsThere
  <2>4. KnowsItsFiles'
    BY <1>0, <2>1, <2>2 DEF InGit, KnowsItsFiles, Spared
  <2>5. QED
    BY <1>1, <2>2, <2>3, <2>4 DEF InGit
<1>4. CASE Prepare
  <2>1. /\ UNCHANGED <<last, disk, running, asGit, pending, known>> /\ pc = "prepare"
        /\ \/ ~asGit /\ pc' = "prune"
           \/ asGit /\ pc' = "unlink" /\ todo' = known \ next
           \/ asGit /\ pc' = "write" /\ todo' = next /\ known \subseteq next
    BY <1>4 DEF Prepare, calls, Dropped
  <2>2. Mine' = Mine /\ next' = next
    BY <2>1 DEF Mine, next
  <2>3. LastIsNewest' /\ ReadsItsKind' /\ WrittenIsThere'
    BY <1>0, <1>2, <2>1 DEF InGit, LastIsNewest, ReadsItsKind, WrittenIsThere
  <2>4. last.clean /\ asGit => Mine \subseteq known
    BY <2>1 DEF InGit, KnowsItsFiles, Spared
  <2>5. KnowsItsFiles'
    BY <1>0, <2>1, <2>2, <2>4 DEF InGit, ReadsItsKind, KnowsItsFiles, Spared
  <2>6. WritesItsSnapshot'
    BY <2>1, <2>2, <2>4 DEF WritesItsSnapshot
  <2>7. QED
    BY <1>1, <2>2, <2>3, <2>5, <2>6 DEF InGit
<1>5. CASE Prune
  <2>1. /\ UNCHANGED <<last, running, asGit, pending, known>> /\ pc = "prune" /\ pc' = "write"
        /\ disk' = NoFiles
    BY <1>5 DEF Prune, calls
  <2>2. Mine' = {}
    BY <2>1, NoFilesFacts DEF Mine
  <2>3. LastIsNewest' /\ ReadsItsKind' /\ WrittenIsThere'
    BY <1>0, <1>2, <2>1 DEF InGit, LastIsNewest, ReadsItsKind, WrittenIsThere
  <2>4. KnowsItsFiles' /\ WritesItsSnapshot'
    BY <2>2 DEF KnowsItsFiles, WritesItsSnapshot
  <2>5. QED
    BY <1>1, <2>2, <2>3, <2>4 DEF InGit
<1>6. ASSUME NEW p \in Path, Unlink(p) PROVE InGit'
  <2>1. /\ UNCHANGED <<last, running, asGit, pending, known>> /\ pc = "unlink" /\ p \in todo
        /\ \/ pc' = "unlink" /\ todo' = todo \ {p}
           \/ pc' = "write" /\ todo' = next /\ todo = {p}
    BY <1>6 DEF Unlink, calls
  <2>2. Mine' \subseteq Mine \ {p} /\ next' = next
    BY <1>6, <2>1, MineWithout DEF Unlink, next
  <2>3. LastIsNewest' /\ ReadsItsKind' /\ WrittenIsThere'
    BY <1>0, <1>2, <2>1 DEF InGit, LastIsNewest, ReadsItsKind, WrittenIsThere
  <2>4. asGit /\ (last.clean => Mine \subseteq next \cup todo)
    BY <2>1 DEF InGit, ReadsItsKind, KnowsItsFiles, Spared
  <2>5. KnowsItsFiles' /\ WritesItsSnapshot'
    BY <2>1, <2>2, <2>4 DEF KnowsItsFiles, Spared, WritesItsSnapshot
  <2>6. QED
    BY <1>1, <2>2, <2>3, <2>5 DEF InGit
<1>7. ASSUME NEW p \in Path, WriteFile(p) PROVE InGit'
  <2>1. /\ UNCHANGED <<last, running, asGit, pending, known, pc>> /\ pc = "write" /\ p \in todo
        /\ todo' = todo \ {p}
    BY <1>7 DEF WriteFile, calls
  <2>2. /\ Mine' \subseteq Mine \cup {p} /\ next' = next /\ p \in next
        /\ \A f \in Mine' \ {p} : disk'[f] = disk[f]
        /\ disk'[p] = running.files[p]
    BY <1>7, <2>1, MineWith DEF WriteFile, next, WritesSnapshot
  <2>3. LastIsNewest' /\ ReadsItsKind' /\ WrittenIsThere'
    BY <1>0, <1>2, <2>1 DEF InGit, LastIsNewest, ReadsItsKind, WrittenIsThere
  <2>4. last.clean \/ ~asGit => Mine' \subseteq next
    BY <2>1, <2>2 DEF InGit, WritesItsSnapshot
  <2>5. \A f \in Mine' \cap (next \ todo') : disk'[f] = running.files[f]
    <3>1. ASSUME NEW f \in Mine' \cap (next \ todo'), f # p PROVE disk'[f] = running.files[f]
      <4>1. f \in Mine /\ f \in next \ todo /\ disk'[f] = disk[f]
        BY <2>1, <2>2, <3>1 DEF Mine
      <4>2. QED
        BY <2>1, <4>1 DEF InGit, WritesItsSnapshot
    <3>2. QED
      BY <2>2, <3>1
  <2>6. KnowsItsFiles' /\ WritesItsSnapshot'
    BY <2>1, <2>2, <2>4, <2>5 DEF KnowsItsFiles, Spared, WritesItsSnapshot
  <2>7. QED
    BY <1>1, <2>2, <2>3, <2>6 DEF InGit
<1>8. CASE Finish
  <2>1. /\ disk' = disk /\ ~asGit' /\ pc = "write" /\ todo = {} /\ known' = next
        /\ running' = pending /\ pending' = NoBatch
        /\ pc' = IF pending = NoBatch THEN "off" ELSE "kind"
        /\ Settle(running.callers, "written", pending = NoBatch)
    BY <1>8 DEF Finish
  <2>2. Mine' = Mine
    BY <2>1 DEF Mine
  <2>3. /\ last'.files = last.files /\ last'.clean = last.clean
        /\ last'.outcome = IF pending = NoBatch /\ last.outcome = "waiting"
                             THEN "written" ELSE last.outcome
    BY <1>0, <2>1 DEF Settle, LastCall, TypeOK
  <2>4. ReadsItsKind' /\ WritesItsSnapshot' /\ LastIsNewest'
    BY <1>0, <2>1, <2>3 DEF InGit, ReadsItsKind, WritesItsSnapshot, LastIsNewest
  <2>5. /\ \A f \in Mine \cap next : disk[f] = running.files[f]
        /\ last.clean => Mine \subseteq next
    BY <2>1 DEF InGit, WritesItsSnapshot
  <2>6. KnowsItsFiles'
    BY <2>1, <2>2, <2>3, <2>5 DEF KnowsItsFiles, Spared
  <2>7. WrittenIsThere'
    <3>1. SUFFICES ASSUME last'.outcome = "written" PROVE pc' = "off" /\ LastWrittenWins'
      BY DEF WrittenIsThere
    <3>2. pending = NoBatch /\ last.files = running.files /\ pc' = "off"
      BY <1>2, <2>1, <2>3, <3>1 DEF InGit, LastIsNewest
    <3>3. QED
      BY <1>0, <2>1, <2>3, <2>5, <3>2 DEF LastWrittenWins, Mine, next
  <2>8. QED
    BY <1>1, <2>2, <2>4, <2>6, <2>7 DEF InGit
<1>9. QED
  BY <1>3, <1>4, <1>5, <1>6, <1>7, <1>8 DEF SaveStep

(* A step that leaves the files and the saves alone.                       *)
LEMMA QuietInGit ==
  ASSUME InGit, UNCHANGED <<kind, disk, there, last, pc, asGit, running, todo, pending, known>>,
         open' => open, del' = "no" => del = "no"
  PROVE  /\ Mine' = Mine
         /\ LastIsNewest' /\ ReadsItsKind' /\ KnowsItsFiles' /\ WritesItsSnapshot' /\ WrittenIsThere'
<1>1. Mine' = Mine /\ next' = next /\ Spared' = Spared
  BY DEF Mine, next, Spared
<1>2. LastIsNewest' /\ ReadsItsKind' /\ KnowsItsFiles' /\ WritesItsSnapshot'
  BY <1>1 DEF InGit, LastIsNewest, ReadsItsKind, KnowsItsFiles, WritesItsSnapshot
<1>3. WrittenIsThere'
  BY DEF InGit, WrittenIsThere, LastWrittenWins
<1>4. QED
  BY <1>1, <1>2, <1>3

LEMMA GitSavedStep ==
  ASSUME "reopen" \notin Env, GitSaved, TypeOK, WritesSnapshot, [Next]_vars
  PROVE  GitSaved'
<1> SUFFICES ASSUME kind' = "git" PROVE InGit'
  BY DEF GitSaved
<1>1. kind' = kind
  BY DEF Next, vars, SaveStep, ReadKind, Prepare, Prune, Finish, Unlink, WriteFile, LoadStep,
         Opened, OpenRead, DeleteStep, Tombstone, RemoveDir, RemoveDirFails, Fail, Leave,
         OpenList, DeleteRecord, Reload, Reset, Edit, Pull
<1>2. InGit /\ last \in LastCall
  BY <1>1 DEF GitSaved, TypeOK, LastCall, Outcome
<1>3. CASE SaveStep
  BY <1>1, <1>2, <1>3, SaveInGit
<1>4. CASE Fail
  BY <1>1, <1>2, <1>4, TearDownInGit DEF Fail, app
<1>5. CASE Reload
  BY <1>1, <1>2, <1>5, TearDownInGit, NoFilesFacts DEF Reload
<1>6. ASSUME NEW c, Reset(c) PROVE InGit'
  BY <1>1, <1>2, <1>6, AskInGit DEF Reset
<1>7. ASSUME NEW s, NEW c, Edit(s, c) PROVE InGit'
  BY <1>1, <1>2, <1>7, AskInGit DEF Edit
<1>8. CASE Opened
  <2>1. /\ UNCHANGED <<disk, there, pc, asGit, running, todo, pending, tomb, del>>
        /\ known' = DOMAIN load.got /\ last' = NoCall /\ ~load'.on
        /\ load.on /\ load.todo = {}
    BY <1>8, NoFilesFacts DEF Opened
  <2>2. Mine' = Mine /\ Mine \subseteq known' /\ pc = "off"
    BY <1>2, <2>1 DEF InGit, ReadAlone, Mine
  <2>3. LastIsNewest' /\ ReadsItsKind' /\ WritesItsSnapshot' /\ WrittenIsThere' /\ ReadAlone'
    BY <1>2, <2>1, <2>2 DEF InGit, LastIsNewest, ReadsItsKind, WritesItsSnapshot, WrittenIsThere,
       ReadAlone, NoCall
  <2>4. KnowsItsFiles'
    BY <2>1, <2>2 DEF KnowsItsFiles, Spared
  <2>5. QED
    BY <1>2, <2>1, <2>2, <2>3, <2>4 DEF InGit
<1>9. CASE OpenList
  <2>1. /\ UNCHANGED <<disk, there, open, last, pc, asGit, running, todo, pending, known, tomb, del>>
        /\ ~open /\ pc = "off" /\ load'.todo = DOMAIN disk \cap Path
    BY <1>2, <1>9 DEF OpenList, queue, calls
  <2>2. Mine \subseteq load'.todo
    BY <1>2, <2>1 DEF InGit, Mine
  <2>3. QED
    BY <1>1, <1>2, <2>1, <2>2, QuietInGit DEF InGit, ReadAlone
<1>10. ASSUME NEW p \in Path, OpenRead(p) PROVE InGit'
  <2>1. PICK t \in Text :
          load' = [load EXCEPT !.todo = @ \ {p},
                               !.got = IF p \in DOMAIN disk THEN With(@, p, t) ELSE @]
    BY <1>10 DEF OpenRead
  <2>2. /\ UNCHANGED <<disk, there, open, last, pc, asGit, running, todo, pending, known, tomb, del>>
        /\ load.on
    BY <1>10 DEF OpenRead, queue, calls
  <2>3. /\ load'.todo = load.todo \ {p}
        /\ DOMAIN load.got \subseteq DOMAIN load'.got
        /\ p \in DOMAIN disk => p \in DOMAIN load'.got
    BY <2>1 DEF TypeOK, With
  <2>4. Mine \subseteq load'.todo \cup DOMAIN load'.got
    BY <1>2, <2>2, <2>3 DEF InGit, ReadAlone, Mine
  <2>5. QED
    BY <1>1, <1>2, <2>2, <2>4, QuietInGit DEF InGit, ReadAlone
<1>11. CASE DeleteRecord \/ Leave \/ RemoveDirFails
  <2>1. /\ UNCHANGED <<disk, there, load, last, pc, asGit, running, todo, pending, known>>
        /\ (open' => open) /\ (del' = "no" => del = "no") /\ (tomb' => tomb /\ (del # "no" => del' # "no"))
    BY <1>11 DEF DeleteRecord, Leave, RemoveDirFails, app, queue, calls
  <2>2. QED
    BY <1>1, <1>2, <2>1, QuietInGit DEF InGit, ReadAlone
<1>12. CASE Tombstone
  <2>1. /\ UNCHANGED <<disk, there, open, load, pc, asGit, running, todo, known>>
        /\ pending' = NoBatch /\ del' = "drain" /\ del # "no"
        /\ Settle(pending.callers, "rejected", pending # NoBatch)
    BY <1>12 DEF Tombstone, app
  <2>2. /\ last'.files = last.files
        /\ last'.outcome = IF pending # NoBatch /\ last.outcome = "waiting"
                             THEN "rejected" ELSE last.outcome
    BY <1>2, <2>1 DEF Settle, LastCall
  <2>3. last'.clean => last.clean
    BY <1>2, <2>1 DEF Settle, LastCall
  <2>4. Mine' = Mine
    BY <2>1 DEF Mine
  <2>5. LastIsNewest' /\ ReadsItsKind'
    BY <1>2, <2>1, <2>2, <2>3 DEF InGit, LastIsNewest, ReadsItsKind
  <2>6. WritesItsSnapshot' /\ KnowsItsFiles'
    BY <1>2, <2>1, <2>3, <2>4 DEF InGit, WritesItsSnapshot, KnowsItsFiles, Spared, next
  <2>7. WrittenIsThere'
    BY <1>1, <1>2, <2>1, <2>2, <2>3 DEF InGit, WrittenIsThere, LastWrittenWins
  <2>8. QED
    BY <1>2, <2>1, <2>4, <2>5, <2>6, <2>7 DEF InGit, ReadAlone
<1>13. CASE RemoveDir
  <2>1. /\ UNCHANGED <<load, last, pc, asGit, running, todo, pending, known, tomb>>
        /\ ~there' /\ disk' = NoFiles /\ del' = "done" /\ ~open' /\ pc = "off"
    BY <1>13 DEF RemoveDir, Drained, queue, calls
  <2>2. Mine' = {}
    BY <2>1, NoFilesFacts DEF Mine
  <2>3. LastIsNewest' /\ ReadsItsKind' /\ WritesItsSnapshot' /\ WrittenIsThere'
    BY <1>2, <2>1 DEF InGit, LastIsNewest, ReadsItsKind, WritesItsSnapshot, WrittenIsThere,
       LastWrittenWins
  <2>4. QED
    BY <1>2, <2>1, <2>2, <2>3 DEF InGit, ReadAlone, KnowsItsFiles
<1>14. ASSUME NEW p \in Path, Pull(p) PROVE InGit'
  <2>1. /\ UNCHANGED <<there, open, load, last, pc, asGit, running, todo, pending, known, tomb, del>>
        /\ open
    BY <1>14 DEF Pull, app, queue, calls
  <2>2. Mine' \subseteq Mine /\ \A f \in Mine' : disk'[f] = disk[f]
    BY <1>14, MineWith, MineWithout DEF Pull
  <2>3. ~load.on
    BY <1>2, <2>1 DEF InGit, ReadAlone
  <2>4. LastIsNewest' /\ ReadsItsKind'
    BY <1>2, <2>1 DEF InGit, LastIsNewest, ReadsItsKind
  <2>5. WritesItsSnapshot' /\ KnowsItsFiles'
    BY <1>2, <2>1, <2>2 DEF InGit, WritesItsSnapshot, KnowsItsFiles, Spared, next
  <2>6. WrittenIsThere'
    BY <1>1, <1>2, <2>1, <2>2 DEF InGit, WrittenIsThere, LastWrittenWins, Mine
  <2>7. QED
    BY <1>2, <2>1, <2>2, <2>3, <2>4, <2>5, <2>6 DEF InGit, ReadAlone
<1>15. CASE UNCHANGED vars
  BY <1>2, <1>15 DEF vars, app, queue, calls, unread, InGit, ReadAlone, LastIsNewest, ReadsItsKind,
     KnowsItsFiles, WritesItsSnapshot, WrittenIsThere, LastWrittenWins, Mine, Spared, next
<1>16. QED
  BY <1>3, <1>4, <1>5, <1>6, <1>7, <1>8, <1>9, <1>10, <1>11, <1>12, <1>13, <1>14,
     <1>15 DEF Next, LoadStep, DeleteStep

(* Whatever the kind of the workspace: when the last save asked for is     *)
(* reported written, the disk has its snapshot, and in a git-backed one no *)
(* file it dropped unless an earlier save has failed.  For workspaces that *)
(* are not opened while a save of them still runs; a plain one needs no    *)
(* such assumption (LastSaveIsOnDisk).                                     *)
THEOREM LastSaveWins ==
  ASSUME "reopen" \notin Env
  PROVE  Spec => []LastWrittenWins
<1>1. Init => GitSaved
  <2> SUFFICES ASSUME Init, kind = "git" PROVE InGit
    BY DEF GitSaved
  <2>1. Mine \subseteq Path
    BY DEF Init, Mine
  <2>2. QED
    BY <2>1, NoFilesFacts DEF Init, InGit, ReadAlone, LastIsNewest, ReadsItsKind, KnowsItsFiles,
       WritesItsSnapshot, WrittenIsThere, NoCall
<1>2. GitSaved /\ TypeOK /\ (kind = "plain" => LastWrittenWins) => LastWrittenWins
  BY DEF GitSaved, InGit, WrittenIsThere, LastWrittenWins, TypeOK
<1>3. GitSaved /\ TypeOK /\ WritesSnapshot /\ [Next]_vars => GitSaved'
  BY GitSavedStep
<1>4. Init => WritesSnapshot
  BY DEF Init, WritesSnapshot
<1>5. QED
  BY <1>1, <1>2, <1>3, <1>4, WritesStep, TypeCorrect, LastSaveIsOnDisk, PTL DEF Spec

-----------------------------------------------------------------------------
(* No call is forgotten. *)

(* A call that is made is held by exactly one save: by the one it starts,  *)
(* or by the one queued behind the running save.                           *)
LEMMA AskHolds ==
  ASSUME NoCallForgotten, NEW s, NEW c \in Asker, Ask(s, c)
  PROVE  NoCallForgotten'
<1>1. CASE tomb
  BY <1>1 DEF Ask, NoCallForgotten
<1>2. CASE ~tomb /\ pc = "off"
  <2>1. /\ waiting' = waiting \cup ({c} \cap Caller) /\ pc' = "kind"
        /\ running' = [files |-> s, callers |-> {c}] /\ pending' = pending
    BY <1>2 DEF Ask
  <2>2. running.callers = {} /\ pending.callers = {}
    BY <1>2, NoFilesFacts DEF NoCallForgotten
  <2>3. running'.callers = {c} /\ pending'.callers = {}
    BY <2>1, <2>2
  <2>4. QED
    BY <2>1, <2>2, <2>3 DEF NoCallForgotten
<1>3. CASE ~tomb /\ pc # "off"
  <2>1. /\ waiting' = waiting \cup ({c} \cap Caller) /\ pc' = pc /\ running' = running
        /\ pending'.callers = pending.callers \cup {c}
    BY <1>3 DEF Ask, Queue
  <2>2. c = Anyone \/ c \notin running.callers
    BY DEF Asker, NoCallForgotten
  <2>3. QED
    BY <1>3, <2>1, <2>2 DEF NoCallForgotten
<1>4. QED
  BY <1>1, <1>2, <1>3

LEMMA HoldsStep == NoCallForgotten /\ [Next]_vars => NoCallForgotten'
<1> SUFFICES ASSUME NoCallForgotten, [Next]_vars PROVE NoCallForgotten'
  OBVIOUS
<1>0. NoBatch.callers = {} /\ Anyone \notin Caller
  BY NoFilesFacts, DataIsNamed
<1>1. CASE Finish
  <2>1. /\ waiting' = waiting \ running.callers
        /\ running' = pending /\ pending' = NoBatch
        /\ pc' = IF pending = NoBatch THEN "off" ELSE "kind"
    BY <1>1 DEF Finish, Settle
  <2>2. waiting' = Caller \cap pending.callers
    BY <1>0, <2>1 DEF NoCallForgotten
  <2>3. QED
    BY <1>0, <2>1, <2>2 DEF NoCallForgotten
<1>2. CASE Tombstone
  <2>1. waiting' = waiting \ pending.callers /\ pending' = NoBatch /\ UNCHANGED <<pc, running>>
    BY <1>2 DEF Tombstone, Settle
  <2>2. waiting' = Caller \cap running.callers
    BY <1>0, <2>1 DEF NoCallForgotten
  <2>3. QED
    BY <1>0, <2>1, <2>2 DEF NoCallForgotten
<1>3. CASE Fail \/ Reload
  <2>1. /\ waiting' = waiting \ (running.callers \cup pending.callers)
        /\ running' = NoBatch /\ pending' = NoBatch
    BY <1>3 DEF Fail, Reload, TearDown, Settle
  <2>2. QED
    BY <1>0, <2>1 DEF NoCallForgotten
<1>4. CASE \E c \in Asker : Reset(c) \/ \E s \in Snapshot : Edit(s, c)
  BY <1>4, AskHolds DEF Reset, Edit
<1>5. CASE UNCHANGED <<waiting, running, pending>> /\ (pc' = "off" => pc = "off")
  BY <1>5 DEF NoCallForgotten
<1>6. CASE ReadKind \/ Prepare \/ Prune \/ \E p \in Path : Unlink(p) \/ WriteFile(p)
  BY <1>5, <1>6 DEF ReadKind, Prepare, Prune, Unlink, WriteFile, calls
<1>7. CASE \/ LoadStep \/ RemoveDir \/ RemoveDirFails \/ Leave \/ OpenList \/ DeleteRecord
           \/ UNCHANGED vars \/ \E p \in Path : Pull(p)
  BY <1>5, <1>7 DEF LoadStep, Opened, OpenRead, RemoveDir, RemoveDirFails, Leave, OpenList, DeleteRecord,
     vars, Pull, queue, calls
<1>8. QED
  BY <1>1, <1>2, <1>3, <1>4, <1>6, <1>7 DEF Next, SaveStep, DeleteStep

(* Every call of saveWorkspaceFiles that has no answer is held by the save *)
(* that will answer it, running or queued, and by one only: no burst,      *)
(* failure, delete or reload loses a promise or settles it twice.  That a  *)
(* save ends is left to the runs.                                          *)
THEOREM NoCallIsForgotten == Spec => []NoCallForgotten
<1>1. Init => NoCallForgotten
  BY NoFilesFacts DEF Init, NoCallForgotten
<1>2. QED
  BY <1>1, HoldsStep, PTL DEF Spec
=============================================================================
