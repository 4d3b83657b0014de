------------------------------ MODULE GitSync ------------------------------
(***************************************************************************)
(* Two-way git synchronisation of one git-backed workspace:                *)
(*   packages/git-sync-engine/src/{engine,git-ops,force-with-lease}.ts     *)
(*   apps/studio/src/services/git-sync.ts, interactive-conflict-policy.ts  *)
(*                                                                         *)
(* An engine runs commit -> fetch -> fast-forward or merge -> push, one    *)
(* action per await.  The repository (working tree, index, local and       *)
(* remote-tracking branch) outlives the engines that work on it; the       *)
(* remote is shared with collaborators.                                    *)
(*                                                                         *)
(* Data: a file tree is the set of edits in it and whether it holds        *)
(* conflict markers.  A branch is the set of the commits it reaches;       *)
(* commits are numbered in the order they are made, so the tip of a branch *)
(* is its largest commit, and store maps a commit to its tree.             *)
(***************************************************************************)
EXTENDS Naturals, Sequences, FiniteSetsExt

CONSTANTS
  Engine,   \* engines created for the workspace, one after the other
  Mine,     \* edits the user can save in the studio
  Theirs,   \* edits collaborators can push to the remote
  Clash,    \* sets of edits that touch the same lines
  Env,      \* what else the environment may do, see Freedom
  MaxCommits \* a policy answers "merged" only below this number of commits

Faults == {"network", "auth", "access", "local"}

\* "edit": save while a sync runs; "race": push between the fetch and the
\* push of a lease; "switch": leave the workspace and come back; "reload":
\* the page dies at any moment; "block", "merged": a conflict policy other
\* than the interactive one answers so.
Freedom == Faults \cup {"edit", "race", "switch", "reload", "block", "merged"}

ASSUME EnvIsKnown == Env \subseteq Freedom
ASSUME CommitsAreBounded == MaxCommits \in Nat
ASSUME EditsAreNamed == Mine \cap Theirs = {} /\ Clash \subseteq SUBSET (Mine \cup Theirs)

VARIABLES
  work,        \* the working tree, /<id>/files
  index,       \* the git index
  store,       \* the trees of all commits, here and on the remote
  head,        \* refs/heads/<ref>
  tracking,    \* refs/remotes/origin/<ref>
  remote,      \* the branch on the server
  life,        \* "new", "live" (in the engines map) or "gone"
  pc,          \* where the run of an engine waits; "off": running = null
  status,      \* what the engine last emitted
  timer,       \* the debounce timer is armed
  again,       \* pendingSync
  retried,     \* the run is past its first rejected push
  lease,       \* remoteSha as read when the conflict was found
  pendingDirty \* a save was notified while no engine was there

repo == <<work, index, store, head, tracking, remote>>
local == <<life, pc, status, timer, again, retried, lease>>
vars == <<repo, local, pendingDirty>>

\* After a forced checkout: the step that follows it.
AfterCheckout == [co_push |-> "push", co_lease |-> "lease", co_done |-> "settle"]

PC == {"off", "stage", "commit", "fetch", "count", "ff", "merge", "push",
       "ask", "lease", "force", "reset", "restage", "recommit", "repush", "settle"}
      \cup DOMAIN AfterCheckout

\* idle, the four syncing phases, blocked with conflictPaths, blocked with an
\* error code, offline
Status == {"idle", "syncing", "conflict", "auth", "no_push_access",
           "non_fast_forward", "offline"}

Edit == Mine \cup Theirs
Tree == [edits : SUBSET Edit, marked : BOOLEAN]
Branch == SUBSET (Nat \ {0})

Empty == [edits |-> {}, marked |-> FALSE]
TreeOf(b) == store[Max(b)]

TypeOK ==
  /\ work \in Tree /\ index \in Tree
  /\ store \in Seq(Tree)
  /\ \A b \in {head, tracking, remote} : b # {} /\ b \subseteq 1 .. Len(store)
  /\ life \in [Engine -> {"new", "live", "gone"}]
  /\ pc \in [Engine -> PC]
  /\ status \in [Engine -> Status]
  /\ timer \in [Engine -> BOOLEAN] /\ again \in [Engine -> BOOLEAN]
  /\ retried \in [Engine -> BOOLEAN]
  /\ lease \in [Engine -> Branch]
  /\ pendingDirty \in BOOLEAN

\* A freshly cloned repository.
Init ==
  /\ work = Empty /\ index = Empty /\ store = <<Empty>>
  /\ head = {1} /\ tracking = {1} /\ remote = {1}
  /\ life = [e \in Engine |-> "new"]
  /\ pc = [e \in Engine |-> "off"]
  /\ status = [e \in Engine |-> "idle"]
  /\ timer = [e \in Engine |-> FALSE]
  /\ again = [e \in Engine |-> FALSE]
  /\ retried = [e \in Engine |-> FALSE]
  /\ lease = [e \in Engine |-> {}]
  /\ pendingDirty = FALSE

-----------------------------------------------------------------------------
(* Git. *)

NewCommit(tree) == Append(store, tree)
\* Slip: the new commit gets the number after the next one.
WithNewSkips(b) == b \cup {Len(store) + 2}
WithNew(b) == b \cup {Len(store) + 1}

\* Both sides changed the same lines, differently.
Conflicts(l, r, b) ==
  \E c \in Clash : /\ l \cap c # b \cap c
                   /\ r \cap c # b \cap c
                   /\ l \cap c # r \cap c

MergedEdits(l, r, b) == (l \cap r) \cup (l \ b) \cup (r \ b)

Base == TreeOf(head \cap tracking)
Merged == MergedEdits(TreeOf(head).edits, TreeOf(tracking).edits, Base.edits)

-----------------------------------------------------------------------------
(* The environment: the user, collaborators, the page. *)

At(e, p) == pc[e] = p
Goto(e, p) == pc' = [pc EXCEPT ![e] = p]
Emit(e, s) == status' = [status EXCEPT ![e] = s]

\* A save reaches the disk and is notified: notifySyncOnSave.
Save(m) ==
  /\ m \notin work.edits
  /\ \A b \in 1 .. Len(store) : m \notin store[b].edits
  /\ "edit" \in Env \/ \A e \in Engine : At(e, "off")
  /\ work' = [work EXCEPT !.edits = @ \cup {m}]
  /\ timer' = [e \in Engine |-> timer[e] \/ life[e] = "live"]
  /\ pendingDirty' = (pendingDirty \/ \A e \in Engine : life[e] # "live")
  /\ UNCHANGED <<index, store, head, tracking, remote, life, pc, status, again, retried, lease>>

\* A collaborator pushes on top of the remote branch.
Collaborate(t) ==
  /\ \A b \in 1 .. Len(store) : t \notin store[b].edits
  /\ "race" \in Env \/ \A e \in Engine : ~At(e, "force")
  /\ store' = NewCommit([TreeOf(remote) EXCEPT !.edits = @ \cup {t}])
  /\ remote' = WithNew(remote)
  /\ UNCHANGED <<work, index, head, tracking, local, pendingDirty>>

\* getOrCreateSyncEngine: replay a save that came before the engine.
Create(e) ==
  /\ life[e] = "new"
  /\ \A d \in Engine : life[d] # "live"
  /\ life' = [life EXCEPT ![e] = "live"]
  /\ timer' = [timer EXCEPT ![e] = pendingDirty]
  /\ pendingDirty' = FALSE
  /\ UNCHANGED <<repo, pc, status, again, retried, lease>>

\* disposeSyncEngine: the timer is cleared, a run in flight goes on.
Dispose(e) ==
  /\ "switch" \in Env
  /\ life[e] = "live"
  /\ life' = [life EXCEPT ![e] = "gone"]
  /\ timer' = [timer EXCEPT ![e] = FALSE]
  /\ pendingDirty' = FALSE
  /\ UNCHANGED <<repo, pc, status, again, retried, lease>>

\* The page is reloaded: every engine and run is gone, the repository stays.
Reload ==
  /\ "reload" \in Env
  /\ \E e \in Engine : life[e] = "live"
  /\ life' = [e \in Engine |-> IF life[e] = "live" THEN "gone" ELSE life[e]]
  /\ pc' = [e \in Engine |-> "off"]
  /\ timer' = [e \in Engine |-> FALSE]
  /\ again' = [e \in Engine |-> FALSE]
  /\ pendingDirty' = FALSE
  /\ UNCHANGED <<repo, status, retried, lease>>

-----------------------------------------------------------------------------
(* The scheduler: scheduleSync, syncNow and the end of a run. *)

Begin(e) ==
  /\ Goto(e, "stage")
  /\ Emit(e, "syncing")
  /\ retried' = [retried EXCEPT ![e] = FALSE]

\* Slip: a request during a run is dropped.
TimerFiresForgetful(e) ==
  /\ timer[e]
  /\ timer' = [timer EXCEPT ![e] = FALSE]
  /\ \/ /\ ~At(e, "off")
        /\ UNCHANGED <<again, pc, status, retried>>
     \/ /\ At(e, "off")
        /\ Begin(e)
        /\ UNCHANGED again
  /\ UNCHANGED <<repo, life, lease, pendingDirty>>

\* The debounce timer fires: syncNow starts a run or asks for another one.
TimerFires(e) ==
  /\ timer[e]
  /\ timer' = [timer EXCEPT ![e] = FALSE]
  /\ \/ /\ ~At(e, "off")
        /\ again' = [again EXCEPT ![e] = TRUE]
        /\ UNCHANGED <<pc, status, retried>>
     \/ /\ At(e, "off")
        /\ Begin(e)
        /\ UNCHANGED again
  /\ UNCHANGED <<repo, life, lease, pendingDirty>>

\* running.finally(): the pending request starts the next run at once.
Settle(e) ==
  /\ At(e, "settle")
  /\ \/ /\ again[e]
        /\ again' = [again EXCEPT ![e] = FALSE]
        /\ timer' = [timer EXCEPT ![e] = FALSE]
        /\ Begin(e)
     \/ /\ ~again[e]
        /\ Goto(e, "off")
        /\ UNCHANGED <<again, timer, status, retried>>
  /\ UNCHANGED <<repo, life, lease, pendingDirty>>

End(e, s) ==
  /\ Goto(e, "settle")
  /\ Emit(e, s)

-----------------------------------------------------------------------------
(* runSync. *)

\* stageAll: also the first half of a "merged" answer.
Stage(e) ==
  /\ At(e, "stage") \/ At(e, "restage")
  /\ index' = work
  /\ LET changed == work # TreeOf(head) \/ index # TreeOf(head) IN
       Goto(e, IF At(e, "stage") THEN IF changed THEN "commit" ELSE "fetch"
                                 ELSE IF changed THEN "recommit" ELSE "repush")
  /\ UNCHANGED <<work, store, head, tracking, remote, life, status, timer, again, retried, lease, pendingDirty>>

Commit(e) ==
  /\ At(e, "commit") \/ At(e, "recommit")
  /\ store' = NewCommit(index)
  /\ head' = WithNew(head)
  /\ Goto(e, IF At(e, "commit") THEN "fetch" ELSE "repush")
  /\ UNCHANGED <<work, index, tracking, remote, life, status, timer, again, retried, lease, pendingDirty>>

Fetch(e) ==
  /\ At(e, "fetch")
  /\ tracking' = remote
  /\ Goto(e, "count")
  /\ UNCHANGED <<work, index, store, head, remote, life, status, timer, again, retried, lease, pendingDirty>>

Ahead == head \ tracking # {}
Behind == tracking \ head # {}

\* Slip: fast-forward whenever the remote has news.
CountAlwaysFF(e) ==
  /\ At(e, "count")
  /\ Goto(e, IF Behind THEN "ff" ELSE "push")
  /\ UNCHANGED <<repo, life, status, timer, again, retried, lease, pendingDirty>>

\* computeAheadBehind, in runSync and again after a rejected push.
Count(e) ==
  /\ At(e, "count")
  /\ Goto(e, IF ~Behind THEN "push" ELSE IF Ahead THEN "merge" ELSE "ff")
  /\ UNCHANGED <<repo, life, status, timer, again, retried, lease, pendingDirty>>

\* The writeRef of fastForward; its checkout follows.
FastForward(e) ==
  /\ At(e, "ff")
  /\ head' = tracking
  /\ Goto(e, "co_push")
  /\ UNCHANGED <<work, index, store, tracking, remote, life, status, timer, again, retried, lease, pendingDirty>>

\* Slip: conflict markers are written, but the merge is reported as clean.
MergeIgnoresConflict(e) ==
  /\ At(e, "merge")
  /\ store' = NewCommit([edits |-> Merged,
                         marked |-> Conflicts(TreeOf(head).edits, TreeOf(tracking).edits, Base.edits)])
  /\ head' = WithNew(head \cup tracking)
  /\ Goto(e, "co_push")
  /\ UNCHANGED <<work, index, tracking, remote, life, status, timer, again, retried, lease, pendingDirty>>

\* git.merge: a merge commit, or conflict markers in the working tree and a
\* question to the policy about the remote as it is known now.
Merge(e) ==
  /\ At(e, "merge")
  /\ LET l == TreeOf(head)
         r == TreeOf(tracking)
     IN \/ /\ ~Conflicts(l.edits, r.edits, Base.edits)
           /\ store' = NewCommit([edits |-> Merged, marked |-> l.marked \/ r.marked])
           /\ head' = WithNew(head \cup tracking)
           /\ Goto(e, "co_push")
           /\ UNCHANGED <<work, index, status, lease>>
        \/ /\ Conflicts(l.edits, r.edits, Base.edits)
           /\ work' = [edits |-> Merged, marked |-> TRUE]
           /\ index' = work'
           /\ lease' = [lease EXCEPT ![e] = tracking]
           /\ Emit(e, "conflict")
           /\ Goto(e, "ask")
           /\ UNCHANGED <<store, head>>
  /\ UNCHANGED <<tracking, remote, life, timer, again, retried, pendingDirty>>

\* git.checkout with force: working tree and index become the branch's tree.
Checkout(e) ==
  /\ pc[e] \in DOMAIN AfterCheckout
  /\ work' = TreeOf(head)
  /\ index' = TreeOf(head)
  /\ Goto(e, AfterCheckout[pc[e]])
  /\ IF At(e, "co_done") THEN Emit(e, "idle") ELSE UNCHANGED status
  /\ UNCHANGED <<store, head, tracking, remote, life, timer, again, retried, lease, pendingDirty>>

-----------------------------------------------------------------------------
(* doPush and pushForceWithLease. *)

\* Slip: a push that is rejected a second time is taken for done.
PushShrugs(e) ==
  /\ At(e, "push")
  /\ \/ /\ remote \subseteq head
        /\ remote' = head
        /\ tracking' = head
        /\ End(e, "idle")
        /\ UNCHANGED retried
     \/ /\ ~(remote \subseteq head)
        /\ IF retried[e] THEN End(e, "idle") ELSE Goto(e, "fetch") /\ UNCHANGED status
        /\ retried' = [retried EXCEPT ![e] = TRUE]
        /\ UNCHANGED <<remote, tracking>>
  /\ UNCHANGED <<work, index, store, head, life, timer, again, lease, pendingDirty>>

\* Rejected unless it is a fast-forward of the remote; one retry.
Push(e) ==
  /\ At(e, "push")
  /\ \/ /\ remote \subseteq head
        /\ remote' = head
        /\ tracking' = head
        /\ End(e, "idle")
        /\ UNCHANGED retried
     \/ /\ ~(remote \subseteq head)
        /\ ~retried[e]
        /\ retried' = [retried EXCEPT ![e] = TRUE]
        /\ Goto(e, "fetch")
        /\ UNCHANGED <<remote, tracking, status>>
     \/ /\ ~(remote \subseteq head)
        /\ retried[e]
        /\ End(e, "non_fast_forward")
        /\ UNCHANGED <<remote, tracking, retried>>
  /\ UNCHANGED <<work, index, store, head, life, timer, again, lease, pendingDirty>>

\* Slip: a lost lease leaves the conflict on display.
LeaseKeepsConflict(e) ==
  /\ At(e, "lease")
  /\ tracking' = remote
  /\ IF remote = lease[e] THEN Goto(e, "force") /\ UNCHANGED status
                          ELSE End(e, "conflict")
  /\ UNCHANGED <<work, index, store, head, remote, life, timer, again, retried, lease, pendingDirty>>

\* Slip: the lease is not compared.
LeaseUnchecked(e) ==
  /\ At(e, "lease")
  /\ tracking' = remote
  /\ Goto(e, "force")
  /\ UNCHANGED <<work, index, store, head, remote, life, status, timer, again, retried, lease, pendingDirty>>

\* A fresh fetch, compared with what the user was shown.
Lease(e) ==
  /\ At(e, "lease")
  /\ tracking' = remote
  /\ IF remote = lease[e] THEN Goto(e, "force") /\ UNCHANGED status
                          ELSE End(e, "non_fast_forward")
  /\ UNCHANGED <<work, index, store, head, remote, life, timer, again, retried, lease, pendingDirty>>

ForcePush(e) ==
  /\ At(e, "force")
  /\ remote' = head
  /\ tracking' = head
  /\ End(e, "idle")
  /\ UNCHANGED <<work, index, store, head, life, timer, again, retried, lease, pendingDirty>>

-----------------------------------------------------------------------------
(* handleConflict: the answer of the policy. *)

\* The user's click reaches the policy of the live engine only.
KeepMine(e) ==
  /\ At(e, "ask") /\ life[e] = "live"
  /\ Goto(e, "co_lease")
  /\ UNCHANGED <<repo, life, status, timer, again, retried, lease, pendingDirty>>

TakeRemote(e) ==
  /\ At(e, "ask") /\ life[e] = "live"
  /\ Goto(e, "reset")
  /\ UNCHANGED <<repo, life, status, timer, again, retried, lease, pendingDirty>>

Block(e) ==
  /\ "block" \in Env
  /\ At(e, "ask")
  /\ End(e, "conflict")
  /\ UNCHANGED <<repo, life, timer, again, retried, lease, pendingDirty>>

\* The policy has written a resolved tree.
MergedByPolicy(e) ==
  /\ "merged" \in Env /\ Len(store) < MaxCommits
  /\ At(e, "ask")
  /\ work' = [work EXCEPT !.marked = FALSE]
  /\ Goto(e, "restage")
  /\ UNCHANGED <<index, store, head, tracking, remote, life, status, timer, again, retried, lease, pendingDirty>>

\* Its tree is committed: conflictPaths is cleared and doPush starts over.
PushMerged(e) ==
  /\ At(e, "repush")
  /\ Goto(e, "push")
  /\ Emit(e, "syncing")
  /\ retried' = [retried EXCEPT ![e] = FALSE]
  /\ UNCHANGED <<repo, life, timer, again, lease, pendingDirty>>

\* The writeRef of resetTo; its checkout follows.
Reset(e) ==
  /\ At(e, "reset")
  /\ head' = tracking
  /\ Goto(e, "co_done")
  /\ UNCHANGED <<work, index, store, tracking, remote, life, status, timer, again, retried, lease, pendingDirty>>

-----------------------------------------------------------------------------
(* An operation throws; the run ends as its error is classified. *)

MayFail(p) ==
  CASE p \in {"fetch", "push", "lease", "force"} -> Faults \ {"local"}
    [] p \in {"stage", "commit", "ff", "merge", "reset", "restage", "recommit"} -> {"local"}
    [] p \in DOMAIN AfterCheckout -> {"local"}
    [] OTHER -> {}

Fail(e) ==
  /\ \E f \in MayFail(pc[e]) \cap Env :
       End(e, CASE f = "auth" -> "auth" [] f = "access" -> "no_push_access" [] OTHER -> "offline")
  /\ UNCHANGED <<repo, life, timer, again, retried, lease, pendingDirty>>

Run(e) ==
  \/ Stage(e) \/ Commit(e) \/ Fetch(e) \/ Count(e) \/ FastForward(e) \/ Merge(e)
  \/ Checkout(e) \/ Push(e) \/ Lease(e) \/ ForcePush(e) \/ Reset(e) \/ PushMerged(e)
  \/ Settle(e)

Next ==
  \/ \E m \in Mine : Save(m)
  \/ \E t \in Theirs : Collaborate(t)
  \/ Reload
  \/ \E e \in Engine :
       \/ Create(e) \/ Dispose(e) \/ TimerFires(e) \/ Run(e) \/ Fail(e)
       \/ KeepMine(e) \/ TakeRemote(e) \/ Block(e) \/ MergedByPolicy(e)

Spec == Init /\ [][Next]_vars

\* Timers fire and awaited operations come back; users owe nothing.
FairSpec == Spec /\ \A e \in Engine : WF_vars(TimerFires(e)) /\ WF_vars(Run(e))

-----------------------------------------------------------------------------
(* Properties. *)

(***************************************************************************)
(* "No network outcome can lose edits" (github-push-back-design.md, 5.4):  *)
(* a saved edit leaves the working tree only when the user takes the       *)
(* remote's side.                                                          *)
(***************************************************************************)
NoEditLost ==
  [][\A m \in Mine : m \in work.edits =>
       m \in work'.edits \/ \E e \in Engine : At(e, "co_done")]_vars

(***************************************************************************)
(* What the code does guarantee of it: an edit that a run has staged, and  *)
(* so every edit saved before the run, is not overwritten by the checkouts *)
(* that follow.                                                            *)
(***************************************************************************)
StagedEditKept ==
  [][\A m \in Mine : m \in work.edits /\ m \in index.edits =>
       m \in work'.edits \/ \E e \in Engine : At(e, "co_done")]_vars

(***************************************************************************)
(* The same once the edit is committed: the local branch forgets it only   *)
(* when it is reset to the remote's side.                                  *)
(***************************************************************************)
CommittedKept ==
  [][\A m \in Mine : m \in TreeOf(head).edits =>
       m \in TreeOf(head)'.edits \/ \E e \in Engine : At(e, "reset")]_vars

(***************************************************************************)
(* --force-with-lease: what a collaborator has pushed is taken off the     *)
(* remote only by a user who kept his side knowing of it.                  *)
(***************************************************************************)
TheirsKept ==
  [][\A t \in Theirs : t \in TreeOf(remote).edits =>
       \/ t \in TreeOf(remote)'.edits
       \/ \E e \in Engine : At(e, "force") /\ t \in TreeOf(lease[e]).edits]_vars

(***************************************************************************)
(* The badge says "Synced" only of a branch the remote has.                *)
(***************************************************************************)
IdleMeansPushed ==
  \A e \in Engine : At(e, "settle") /\ status[e] = "idle" => head \subseteq remote

(***************************************************************************)
(* keepMine "discards conflict markers": none is ever pushed.              *)
(***************************************************************************)
MarkersNeverPushed == \A b \in remote : ~store[b].marked

(***************************************************************************)
(* The badge shows the resolve buttons only while the engine still has a   *)
(* run that waits for the choice or carries it out (SyncStatusBadge.tsx).  *)
(***************************************************************************)
ButtonsWork ==
  \A e \in Engine : life[e] = "live" /\ status[e] = "conflict" => pc[e] \notin {"off", "settle"}

(***************************************************************************)
(* "Saving in the studio commits and syncs in the background": a saved     *)
(* edit is committed, unless the engine stops with a message, the engine   *)
(* is gone, or the edit is.                                                *)
(***************************************************************************)
Uncommitted(m) == m \in work.edits /\ m \notin TreeOf(head).edits
Stopped(e) == status[e] \notin {"idle", "syncing"}

EditsGetCommitted ==
  \A e \in Engine, m \in Mine :
    (life[e] = "live" /\ Uncommitted(m)) ~> (life[e] # "live" \/ ~Uncommitted(m) \/ Stopped(e))

(***************************************************************************)
(* Its safety half: while an engine lives, what makes it commit a saved    *)
(* edit is there at every moment: a timer, a request for another run, or a *)
(* run that has not yet taken it; or the engine has stopped and said so.   *)
(* (At "co_done" the user has taken the remote's side.)                    *)
(***************************************************************************)
Attended(e, m) ==
  \/ timer[e]
  \/ again[e] /\ ~At(e, "off")
  \/ pc[e] \in {"stage", "restage"}
  \/ pc[e] \in {"commit", "recommit"} /\ m \in index.edits
  \/ At(e, "co_done")
  \/ pc[e] \in {"settle", "off"} /\ Stopped(e)

NoEditForgotten ==
  \A e \in Engine, m \in Mine : life[e] = "live" /\ Uncommitted(m) => Attended(e, m)
=============================================================================
