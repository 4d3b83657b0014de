--------------------------- MODULE GitSyncProofs ---------------------------
(***************************************************************************)
(* Proofs about GitSync for any engines, edits and clashes.                *)
(***************************************************************************)
EXTENDS GitSync, TLAPS, WellFoundedInduction

-----------------------------------------------------------------------------
(* The tip of a branch. *)

(* A set of naturals that is not empty has a least element. *)
LEMMA Least ==
  ASSUME NEW T \in SUBSET Nat, T # {}
  PROVE  \E x \in T : \A y \in T : x <= y
<1> DEFINE R == OpToRel(<, Nat)
<1>1. \A x, y \in Nat : <<y, x>> \in R <=> y < x
  BY DEF OpToRel
<1>2. \E x \in T : \A y \in T : ~ (<<y, x>> \in R)
  BY NatLessThanWellFounded, WFMin
<1> HIDE DEF R
<1>3. PICK x \in T : \A y \in T : ~ (<<y, x>> \in R)
  BY <1>2
<1>4. \A y \in T : <<y, x>> \in R <=> y < x
  BY <1>1
<1>5. \A y \in T : ~ (y < x)
  BY <1>3, <1>4
<1>6. QED
  BY <1>5

(* So a branch has a tip, its largest commit. *)
LEMMA Tip ==
  ASSUME NEW n \in Nat, NEW b \in SUBSET (1 .. n), b # {}
  PROVE  Max(b) \in b /\ Max(b) \in 1 .. n /\ \A c \in b : c <= Max(b)
<1> DEFINE gaps == {n - c : c \in b}
<1>1. gaps \subseteq Nat
  <2>1. \A c \in 1 .. n : n - c \in Nat
    OBVIOUS
  <2>2. QED
    BY <2>1
<1>2. gaps # {}
  OBVIOUS
<1>3. PICK g \in gaps : \A h \in gaps : g <= h
  <2> HIDE DEF gaps
  <2>1. QED
    BY <1>1, <1>2, Least
<1>4. PICK c \in b : g = n - c
  OBVIOUS
<1>5. \A d \in b : c >= d
  BY <1>3, <1>4
<1>6. Max(b) \in b /\ \A d \in b : Max(b) >= d
  BY <1>5 DEF Max
<1>7. QED
  BY <1>6

(* A new commit is the tip of the branches it is made on, and no other tree *)
(* changes.                                                                 *)
LEMMA TipOfNew ==
  ASSUME store \in Seq(Tree), NEW b \in SUBSET (1 .. Len(store))
  PROVE  /\ Max(WithNew(b)) = Len(store) + 1
         /\ WithNew(b) # {} /\ WithNew(b) \subseteq 1 .. Len(store) + 1
<1> DEFINE n == Len(store) + 1
<1>1. n \in Nat /\ Len(store) \in Nat
  OBVIOUS
<1>2. WithNew(b) \in SUBSET (1 .. n) /\ n \in WithNew(b)
  <2>1. n \in 1 .. n /\ \A c \in 1 .. Len(store) : c \in 1 .. n
    BY <1>1
  <2>2. QED
    BY <2>1 DEF WithNew
<1>3. Max(WithNew(b)) \in 1 .. n /\ n <= Max(WithNew(b))
  <2> HIDE DEF n
  <2>1. QED
    BY <1>1, <1>2, Tip
<1>4. QED
  BY <1>1, <1>2, <1>3

LEMMA NewCommitType ==
  ASSUME store \in Seq(Tree), NEW t \in Tree
  PROVE  /\ NewCommit(t) \in Seq(Tree)
         /\ Len(NewCommit(t)) = Len(store) + 1
         /\ NewCommit(t)[Len(store) + 1] = t
         /\ \A c \in 1 .. Len(store) : NewCommit(t)[c] = store[c]
BY DEF NewCommit

LEMMA TreeType ==
  ASSUME TypeOK, NEW b \in {head, tracking, remote}
  PROVE  TreeOf(b) \in Tree /\ Max(b) \in b /\ Max(b) \in 1 .. Len(store)
<1>1. Len(store) \in Nat /\ b \in SUBSET (1 .. Len(store)) /\ b # {}
  BY DEF TypeOK
<1>2. Max(b) \in b /\ Max(b) \in 1 .. Len(store)
  BY <1>1, Tip
<1>3. QED
  BY <1>2 DEF TypeOK, TreeOf

(* Both sides' edits, minus some that both had and one of them dropped. *)
LEMMA MergedType ==
  ASSUME TypeOK
  PROVE  Merged \subseteq TreeOf(head).edits \cup TreeOf(tracking).edits /\ Merged \in SUBSET Edit
<1>1. TreeOf(head) \in Tree /\ TreeOf(tracking) \in Tree
  BY TreeType
<1>2. TreeOf(head).edits \in SUBSET Edit /\ TreeOf(tracking).edits \in SUBSET Edit
  BY <1>1 DEF Tree
<1>3. QED
  BY <1>2 DEF Merged, MergedEdits

-----------------------------------------------------------------------------
(* Types. *)

(* A new commit on one branch: that branch and the others stay branches. *)
LEMMA CommitTypes ==
  ASSUME TypeOK, NEW t \in Tree, store' = NewCommit(t)
  PROVE  /\ store' \in Seq(Tree)
         /\ \A b \in SUBSET (1 .. Len(store)) :
              /\ b \subseteq 1 .. Len(store')
              /\ WithNew(b) # {} /\ WithNew(b) \subseteq 1 .. Len(store')
<1>1. store \in Seq(Tree) /\ Len(store) \in Nat
  BY DEF TypeOK
<1>2. store' \in Seq(Tree) /\ Len(store') = Len(store) + 1
  BY <1>1, NewCommitType
<1>3. ASSUME NEW b \in SUBSET (1 .. Len(store))
      PROVE  /\ b \subseteq 1 .. Len(store')
             /\ WithNew(b) # {} /\ WithNew(b) \subseteq 1 .. Len(store')
  BY <1>1, <1>2, TipOfNew
<1>4. QED
  BY <1>2, <1>3

LEMMA BranchType ==
  ASSUME TypeOK, NEW b \in {head, tracking, remote}
  PROVE  b \in Branch /\ b \in SUBSET (1 .. Len(store))
<1>1. Len(store) \in Nat /\ b \subseteq 1 .. Len(store)
  BY DEF TypeOK
<1>2. QED
  BY <1>1 DEF Branch

LEMMA CommitOnHead ==
  ASSUME TypeOK, NEW t \in Tree, NEW b \in SUBSET (1 .. Len(store)),
         store' = NewCommit(t), head' = WithNew(b), UNCHANGED <<tracking, remote>>
  PROVE  /\ store' \in Seq(Tree)
         /\ \A c \in {head', tracking', remote'} : c # {} /\ c \subseteq 1 .. Len(store')
<1>1. /\ store' \in Seq(Tree)
      /\ \A c \in SUBSET (1 .. Len(store)) :
           /\ c \subseteq 1 .. Len(store')
           /\ WithNew(c) # {} /\ WithNew(c) \subseteq 1 .. Len(store')
  BY CommitTypes
<1>2. tracking \in SUBSET (1 .. Len(store)) /\ remote \in SUBSET (1 .. Len(store))
  BY BranchType
<1>3. tracking # {} /\ remote # {}
  BY DEF TypeOK
<1>4. head' # {} /\ head' \subseteq 1 .. Len(store')
  BY <1>1
<1>5. tracking' # {} /\ tracking' \subseteq 1 .. Len(store')
  BY <1>1, <1>2, <1>3
<1>6. remote' # {} /\ remote' \subseteq 1 .. Len(store')
  BY <1>1, <1>2, <1>3
<1>7. QED
  BY <1>1, <1>4, <1>5, <1>6

(* Where a run goes next is a place it can be. *)
LEMMA GotoType ==
  ASSUME TypeOK, NEW e \in Engine, NEW p \in PC, Goto(e, p)
  PROVE  pc' \in [Engine -> PC]
BY DEF TypeOK, Goto

LEMMA EmitType ==
  ASSUME TypeOK, NEW e \in Engine, NEW s \in Status, Emit(e, s)
  PROVE  status' \in [Engine -> Status]
BY DEF TypeOK, Emit

LEMMA Places ==
  /\ {"off", "stage", "commit", "fetch", "count", "ff", "merge", "push", "ask", "lease",
      "force", "reset", "restage", "recommit", "repush", "settle"} \subseteq PC
  /\ {"co_push", "co_lease", "co_done"} \subseteq PC
  /\ DOMAIN AfterCheckout = {"co_push", "co_lease", "co_done"}
  /\ AfterCheckout["co_push"] = "push" /\ AfterCheckout["co_lease"] = "lease"
  /\ AfterCheckout["co_done"] = "settle"
BY DEF PC, AfterCheckout

LEMMA EnvironmentType ==
  ASSUME TypeOK,
         \/ \E m \in Mine : Save(m)
         \/ \E t \in Theirs : Collaborate(t)
         \/ Reload
         \/ \E e \in Engine : Create(e) \/ Dispose(e) \/ TimerFires(e) \/ Settle(e)
  PROVE  TypeOK'
<1>1. ASSUME NEW m \in Mine, Save(m) PROVE TypeOK'
  <2>1. work' \in Tree
    BY <1>1 DEF Save, TypeOK, Tree, Edit
  <2>2. QED
    BY <1>1, <2>1 DEF Save, TypeOK
<1>2. ASSUME NEW t \in Theirs, Collaborate(t) PROVE TypeOK'
  <2>1. TreeOf(remote) \in Tree
    BY TreeType
  <2>2. [TreeOf(remote) EXCEPT !.edits = @ \cup {t}] \in Tree
    BY <2>1 DEF Tree, Edit
  <2>3. store' \in Seq(Tree) /\ \A b \in {head', tracking', remote'} : b # {} /\ b \subseteq 1 .. Len(store')
    BY <1>2, <2>2, CommitTypes, BranchType DEF Collaborate, TypeOK
  <2>4. QED
    BY <1>2, <2>3 DEF Collaborate, TypeOK, local
<1>3. CASE Reload
  BY <1>3, Places DEF Reload, TypeOK, repo
<1>4. ASSUME NEW e \in Engine, Create(e) \/ Dispose(e) PROVE TypeOK'
  <2>1. life' \in [Engine -> {"new", "live", "gone"}]
    BY <1>4 DEF Create, Dispose, TypeOK
  <2>2. timer' \in [Engine -> BOOLEAN]
    BY <1>4, ZenonT(30) DEF Create, Dispose, TypeOK
  <2>3. UNCHANGED <<repo, pc, status, again, retried, lease>> /\ pendingDirty' = FALSE
    BY <1>4 DEF Create, Dispose
  <2>4. QED
    BY <2>1, <2>2, <2>3 DEF TypeOK, repo
<1>5. ASSUME NEW e \in Engine, Begin(e)
      PROVE  pc' \in [Engine -> PC] /\ status' \in [Engine -> Status] /\ retried' \in [Engine -> BOOLEAN]
  BY <1>5, Places DEF Begin, Goto, Emit, TypeOK, Status
<1>6. ASSUME NEW e \in Engine, TimerFires(e) PROVE TypeOK'
  BY <1>5, <1>6 DEF TimerFires, TypeOK, repo
<1>7. ASSUME NEW e \in Engine, Settle(e) PROVE TypeOK'
  BY <1>5, <1>7, Places, GotoType DEF Settle, TypeOK, repo
<1>8. QED
  BY <1>1, <1>2, <1>3, <1>4, <1>6, <1>7

LEMMA RunType ==
  ASSUME TypeOK, NEW e \in Engine,
         \/ Stage(e) \/ Commit(e) \/ Fetch(e) \/ Count(e) \/ FastForward(e) \/ Merge(e)
         \/ Checkout(e) \/ Push(e) \/ Lease(e) \/ ForcePush(e) \/ Reset(e) \/ PushMerged(e)
  PROVE  TypeOK'
<1> USE Places, GotoType, EmitType
<1>1. /\ head \in SUBSET (1 .. Len(store)) /\ tracking \in SUBSET (1 .. Len(store))
      /\ remote \in SUBSET (1 .. Len(store)) /\ head # {} /\ tracking # {} /\ remote # {}
      /\ tracking \in Branch
  BY BranchType DEF TypeOK
<1>2. CASE Stage(e)
  <2>1. pc' \in [Engine -> PC]
    BY <1>2 DEF Stage, Goto, TypeOK
  <2>2. QED
    BY <1>2, <2>1 DEF Stage, TypeOK
<1>3. CASE Commit(e)
  <2>1. store' \in Seq(Tree) /\ \A b \in {head', tracking', remote'} : b # {} /\ b \subseteq 1 .. Len(store')
    <3>1. index \in Tree
      BY DEF TypeOK
    <3>2. QED
      BY <1>1, <1>3, <3>1, CommitOnHead DEF Commit
  <2>2. pc' \in [Engine -> PC]
    BY <1>3 DEF Commit
  <2>3. QED
    BY <1>3, <2>1, <2>2 DEF Commit, TypeOK
<1>4. CASE Fetch(e)
  BY <1>4 DEF Fetch, TypeOK
<1>5. CASE Count(e)
  <2>1. pc' \in [Engine -> PC]
    BY <1>5 DEF Count
  <2>2. QED
    BY <1>5, <2>1 DEF Count, TypeOK, repo
<1>6. CASE FastForward(e)
  BY <1>6 DEF FastForward, TypeOK
<1>7. CASE Merge(e)
  <2>1. Merged \in SUBSET Edit
    BY MergedType
  <2>2. TreeOf(head) \in Tree /\ TreeOf(tracking) \in Tree
    BY TreeType
  <2>3. CASE ~Conflicts(TreeOf(head).edits, TreeOf(tracking).edits, Base.edits)
    <3>1. [edits |-> Merged, marked |-> TreeOf(head).marked \/ TreeOf(tracking).marked] \in Tree
      BY <2>1, <2>2 DEF Tree
    <3>2. head \cup tracking \in SUBSET (1 .. Len(store))
      BY <1>1
    <3>3. /\ store' = NewCommit([edits |-> Merged, marked |-> TreeOf(head).marked \/ TreeOf(tracking).marked])
          /\ head' = WithNew(head \cup tracking)
          /\ Goto(e, "co_push")
          /\ UNCHANGED <<work, index, status, lease, tracking, remote, life, timer, again, retried, pendingDirty>>
      BY <1>7, <2>3 DEF Merge
    <3>4. store' \in Seq(Tree) /\ \A b \in {head', tracking', remote'} : b # {} /\ b \subseteq 1 .. Len(store')
      BY <3>1, <3>2, <3>3, CommitOnHead
    <3>5. QED
      BY <3>3, <3>4 DEF TypeOK
  <2>4. CASE Conflicts(TreeOf(head).edits, TreeOf(tracking).edits, Base.edits)
    <3>1. [edits |-> Merged, marked |-> TRUE] \in Tree
      BY <2>1 DEF Tree
    <3>2. /\ work' = [edits |-> Merged, marked |-> TRUE] /\ index' = work'
          /\ lease' = [lease EXCEPT ![e] = tracking]
          /\ Emit(e, "conflict") /\ Goto(e, "ask")
          /\ UNCHANGED <<store, head, tracking, remote, life, timer, again, retried, pendingDirty>>
      BY <1>7, <2>4 DEF Merge
    <3>3. status' \in [Engine -> Status] /\ pc' \in [Engine -> PC]
      BY <3>2 DEF Status
    <3>4. lease' \in [Engine -> Branch]
      BY <1>1, <3>2 DEF TypeOK
    <3>5. QED
      BY <3>1, <3>2, <3>3, <3>4 DEF TypeOK
  <2>5. QED
    BY <2>3, <2>4
<1>8. CASE Checkout(e)
  <2>1. TreeOf(head) \in Tree
    BY TreeType
  <2>2. AfterCheckout[pc[e]] \in PC
    BY <1>8 DEF Checkout
  <2>3. pc' \in [Engine -> PC]
    BY <1>8, <2>2 DEF Checkout
  <2>4. status' \in [Engine -> Status]
    BY <1>8 DEF Checkout, Status, TypeOK
  <2>5. QED
    BY <1>8, <2>1, <2>3, <2>4 DEF Checkout, TypeOK
<1>9. ASSUME NEW s \in Status, End(e, s)
      PROVE  pc' \in [Engine -> PC] /\ status' \in [Engine -> Status]
  BY <1>9 DEF End
<1>10. CASE Push(e)
  <2>1. pc' \in [Engine -> PC] /\ status' \in [Engine -> Status]
    BY <1>9, <1>10 DEF Push, Status, TypeOK
  <2>2. retried' \in [Engine -> BOOLEAN]
    BY <1>10 DEF Push, TypeOK
  <2>3. \A b \in {head', tracking', remote'} : b # {} /\ b \subseteq 1 .. Len(store')
    BY <1>1, <1>10 DEF Push
  <2>4. QED
    BY <1>10, <2>1, <2>2, <2>3 DEF Push, TypeOK
<1>11. CASE Lease(e)
  <2>1. pc' \in [Engine -> PC] /\ status' \in [Engine -> Status]
    BY <1>9, <1>11 DEF Lease, Status, TypeOK
  <2>2. QED
    BY <1>1, <1>11, <2>1 DEF Lease, TypeOK
<1>12. CASE ForcePush(e)
  <2>1. pc' \in [Engine -> PC] /\ status' \in [Engine -> Status]
    BY <1>9, <1>12 DEF ForcePush, Status
  <2>2. QED
    BY <1>1, <1>12, <2>1 DEF ForcePush, TypeOK
<1>13. CASE Reset(e)
  BY <1>1, <1>13 DEF Reset, TypeOK
<1>14. CASE PushMerged(e)
  <2>1. pc' \in [Engine -> PC] /\ status' \in [Engine -> Status]
    BY <1>14 DEF PushMerged, Status
  <2>2. QED
    BY <1>14, <2>1 DEF PushMerged, TypeOK, repo
<1>15. QED
  BY <1>2, <1>3, <1>4, <1>5, <1>6, <1>7, <1>8, <1>10, <1>11, <1>12, <1>13, <1>14

LEMMA AnswerType ==
  ASSUME TypeOK, NEW e \in Engine,
         Fail(e) \/ KeepMine(e) \/ TakeRemote(e) \/ Block(e) \/ MergedByPolicy(e)
  PROVE  TypeOK'
<1> USE Places, GotoType, EmitType
<1>1. ASSUME NEW s \in Status, End(e, s)
      PROVE  pc' \in [Engine -> PC] /\ status' \in [Engine -> Status]
  BY <1>1 DEF End
<1>2. CASE Fail(e)
  <2>1. PICK s \in {"auth", "no_push_access", "offline"} : End(e, s)
    BY <1>2 DEF Fail
  <2>2. pc' \in [Engine -> PC] /\ status' \in [Engine -> Status]
    BY <1>1, <2>1 DEF Status
  <2>3. QED
    BY <1>2, <2>2 DEF Fail, TypeOK, repo
<1>3. CASE KeepMine(e)
  BY <1>3 DEF KeepMine, TypeOK, repo
<1>4. CASE TakeRemote(e)
  BY <1>4 DEF TakeRemote, TypeOK, repo
<1>5. CASE Block(e)
  <2>1. pc' \in [Engine -> PC] /\ status' \in [Engine -> Status]
    BY <1>1, <1>5 DEF Block, Status
  <2>2. QED
    BY <1>5, <2>1 DEF Block, TypeOK, repo
<1>6. CASE MergedByPolicy(e)
  <2>1. work' \in Tree
    BY <1>6 DEF MergedByPolicy, TypeOK, Tree
  <2>2. QED
    BY <1>6, <2>1 DEF MergedByPolicy, TypeOK
<1>7. QED
  BY <1>2, <1>3, <1>4, <1>5, <1>6

LEMMA TypeInit == Init => TypeOK
<1>1. Empty \in Tree
  BY DEF Empty, Tree
<1>2. <<Empty>> \in Seq(Tree) /\ Len(<<Empty>>) = 1
  BY <1>1
<1>3. {1} # {} /\ {1} \subseteq 1 .. 1 /\ {} \in Branch
  BY DEF Branch
<1>4. ASSUME Init
      PROVE  \A b \in {head, tracking, remote} : b # {} /\ b \subseteq 1 .. Len(store)
  BY <1>2, <1>3, <1>4 DEF Init
<1>5. ASSUME Init
      PROVE  /\ pc \in [Engine -> PC] /\ status \in [Engine -> Status]
             /\ life \in [Engine -> {"new", "live", "gone"}]
             /\ lease \in [Engine -> Branch]
  BY <1>3, <1>5, Places DEF Init, Status
<1>6. ASSUME Init
      PROVE  /\ timer \in [Engine -> BOOLEAN] /\ again \in [Engine -> BOOLEAN]
             /\ retried \in [Engine -> BOOLEAN] /\ pendingDirty \in BOOLEAN
  BY <1>6 DEF Init
<1>7. QED
  BY <1>1, <1>2, <1>4, <1>5, <1>6 DEF Init, TypeOK

LEMMA TypeStep ==
  ASSUME TypeOK, [Next]_vars
  PROVE  TypeOK'
<1>1. CASE UNCHANGED vars
  BY <1>1 DEF vars, repo, local, TypeOK
<1>2. CASE Next
  BY <1>2, EnvironmentType, RunType, AnswerType DEF Next, Run
<1>3. QED
  BY <1>1, <1>2

(* Every variable of the repository and of its engines keeps its type. *)
THEOREM TypeCorrect == Spec => []TypeOK
BY TypeInit, TypeStep, PTL DEF Spec

-----------------------------------------------------------------------------
(* Scheduling: one run at a time. *)

\* The user either saves nothing while a sync runs, or stays in the workspace.
\* With both, a disposed engine and its successor work on one repository
\* (git_edit_during_sync), and the properties of this section fail.
OneRun == "edit" \notin Env \/ "switch" \notin Env

\* While an engine runs no other one runs or is about to.
Alone ==
  \A d, e \in Engine : d # e /\ pc[d] # "off" => pc[e] = "off" /\ ~timer[e]

Scheduled(e) ==
  /\ timer[e] => life[e] = "live"
  /\ life[e] = "live" => ~pendingDirty
  /\ pendingDirty \/ life[e] = "new" => pc[e] = "off"
  /\ "switch" \notin Env /\ pc[e] # "off" => life[e] = "live"

OneLive == \A d, e \in Engine : life[d] = "live" /\ life[e] = "live" => d = e

SchedInv == Alone /\ OneLive /\ \A e \in Engine : Scheduled(e)

\* A step of a run that neither starts nor ends it.
Moves(e) ==
  /\ pc[e] # "off"
  /\ \E p \in PC \ {"off"} : Goto(e, p)
  /\ UNCHANGED <<life, timer, pendingDirty>>

LEMMA RunMoves ==
  ASSUME TypeOK, NEW e \in Engine,
         \/ Stage(e) \/ Commit(e) \/ Fetch(e) \/ Count(e) \/ FastForward(e) \/ Merge(e)
         \/ Checkout(e) \/ Push(e) \/ Lease(e) \/ ForcePush(e) \/ Reset(e) \/ PushMerged(e)
         \/ Fail(e) \/ KeepMine(e) \/ TakeRemote(e) \/ Block(e) \/ MergedByPolicy(e)
  PROVE  Moves(e)
<1> USE DEF At
<1>1. CASE Stage(e) \/ Commit(e) \/ Fetch(e) \/ Count(e) \/ FastForward(e)
  BY <1>1, Places DEF Stage, Commit, Fetch, Count, FastForward, Moves, repo
<1>2. CASE Merge(e)
  BY <1>2, Places DEF Merge, Moves
<1>3. CASE Checkout(e)
  <2>1. AfterCheckout[pc[e]] \in PC \ {"off"} /\ pc[e] # "off"
    BY <1>3, Places DEF Checkout
  <2>2. QED
    BY <1>3, <2>1 DEF Checkout, Moves
<1>4. CASE Push(e) \/ Lease(e) \/ ForcePush(e) \/ Reset(e) \/ PushMerged(e)
  BY <1>4, Places DEF Push, Lease, ForcePush, Reset, PushMerged, Moves, End
<1>5. CASE Fail(e)
  <2>1. MayFail("off") = {}
    BY Places DEF MayFail
  <2>2. PICK s \in {"auth", "no_push_access", "offline"} : End(e, s)
    BY <1>5 DEF Fail
  <2>3. pc[e] # "off"
    BY <1>5, <2>1 DEF Fail
  <2>4. QED
    BY <1>5, <2>2, <2>3, Places DEF Fail, Moves, End
<1>6. CASE KeepMine(e) \/ TakeRemote(e) \/ Block(e) \/ MergedByPolicy(e)
  BY <1>6, Places DEF KeepMine, TakeRemote, Block, MergedByPolicy, Moves, End
<1>7. QED
  BY <1>1, <1>2, <1>3, <1>4, <1>5, <1>6

LEMMA MovesAlone ==
  ASSUME TypeOK, SchedInv, NEW e \in Engine, Moves(e)
  PROVE  SchedInv' /\ \A d \in Engine \ {e} : pc'[d] = "off"
<1>1. \A d \in Engine \ {e} : pc[d] = "off" /\ ~timer[d]
  BY DEF SchedInv, Alone, Moves
<1>2. pc'[e] # "off" /\ \A d \in Engine \ {e} : pc'[d] = pc[d]
  BY DEF Moves, Goto, TypeOK
<1>3. Alone'
  BY <1>1, <1>2 DEF Alone, Moves
<1>4. ASSUME NEW d \in Engine PROVE Scheduled(d)'
  BY <1>1, <1>2 DEF SchedInv, Scheduled, Moves
<1>5. QED
  BY <1>1, <1>2, <1>3, <1>4 DEF SchedInv, OneLive, Moves

LEMMA SchedInit == Init => SchedInv
BY DEF Init, SchedInv, Alone, OneLive, Scheduled

LEMMA SchedStep ==
  ASSUME OneRun, TypeOK, SchedInv, [Next]_vars
  PROVE  SchedInv'
<1> USE DEF At
<1>1. ASSUME NEW m \in Mine, Save(m) PROVE SchedInv'
  <2>1. UNCHANGED <<pc, life>>
    BY <1>1 DEF Save
  <2>2. \A e \in Engine : timer'[e] <=> (timer[e] \/ life[e] = "live")
    BY <1>1 DEF Save
  <2>3. pendingDirty' <=> (pendingDirty \/ \A e \in Engine : life[e] # "live")
    BY <1>1 DEF Save
  <2>4. (\A e \in Engine : pc[e] = "off") \/ "switch" \notin Env
    BY <1>1 DEF Save, OneRun
  <2>5. Alone'
    BY <2>1, <2>2, <2>4 DEF SchedInv, Alone, OneLive, Scheduled
  <2>6. ASSUME NEW e \in Engine PROVE Scheduled(e)'
    BY <2>1, <2>2, <2>3, <2>4 DEF SchedInv, Scheduled
  <2>7. QED
    BY <2>1, <2>5, <2>6 DEF SchedInv, OneLive
<1>2. CASE \E t \in Theirs : Collaborate(t)
  BY <1>2 DEF Collaborate, local, SchedInv, Alone, OneLive, Scheduled
<1>3. CASE Reload
  <2>1. \A e \in Engine : pc'[e] = "off" /\ ~timer'[e] /\ life'[e] # "live"
    BY <1>3 DEF Reload, TypeOK
  <2>2. ~pendingDirty'
    BY <1>3 DEF Reload
  <2>3. QED
    BY <2>1, <2>2 DEF SchedInv, Alone, OneLive, Scheduled
<1>4. ASSUME NEW e \in Engine, Create(e) PROVE SchedInv'
  <2>1. pc' = pc /\ ~pendingDirty'
    BY <1>4 DEF Create
  <2>2. \A d \in Engine : (timer'[d] <=> IF d = e THEN pendingDirty ELSE timer[d])
    BY <1>4, ZenonT(30) DEF Create, TypeOK
  <2>3. \A d \in Engine : life[d] # "live"
    BY <1>4 DEF Create
  <2>4. \A d \in Engine : life'[d] = IF d = e THEN "live" ELSE life[d]
    BY <1>4 DEF Create, TypeOK
  <2>5. pc[e] = "off"
    BY <1>4 DEF Create, SchedInv, Scheduled
  <2>6. Alone'
    BY <2>1, <2>2, <2>5 DEF SchedInv, Alone, Scheduled
  <2>7. ASSUME NEW d \in Engine PROVE Scheduled(d)'
    BY <2>1, <2>2, <2>3, <2>4 DEF SchedInv, Scheduled
  <2>8. QED
    BY <2>3, <2>4, <2>6, <2>7 DEF SchedInv, OneLive
<1>5. ASSUME NEW e \in Engine, Dispose(e) PROVE SchedInv'
  <2>1. pc' = pc /\ ~pendingDirty' /\ "switch" \in Env
    BY <1>5 DEF Dispose
  <2>2. \A d \in Engine : (timer'[d] <=> d # e /\ timer[d])
    BY <1>5, ZenonT(30) DEF Dispose, TypeOK
  <2>3. \A d \in Engine : life'[d] = IF d = e THEN "gone" ELSE life[d]
    BY <1>5 DEF Dispose, TypeOK
  <2>4. Alone'
    BY <2>1, <2>2 DEF SchedInv, Alone
  <2>5. ASSUME NEW d \in Engine PROVE Scheduled(d)'
    BY <2>1, <2>2, <2>3 DEF SchedInv, Scheduled
  <2>6. QED
    BY <2>3, <2>4, <2>5 DEF SchedInv, OneLive
<1>6. ASSUME NEW e \in Engine, timer[e] \/ pc[e] # "off",
             \A d \in Engine \ {e} : timer'[d] = timer[d] /\ pc'[d] = pc[d],
             ~timer'[e] \/ timer'[e] = timer[e], UNCHANGED <<life, pendingDirty>>
      PROVE  SchedInv'
  <2>1. \A d \in Engine \ {e} : pc[d] = "off" /\ ~timer[d]
    BY <1>6 DEF SchedInv, Alone, OneLive, Scheduled
  <2>2. Alone'
    BY <1>6, <2>1 DEF Alone
  <2>3. life[e] = "live" \/ pc[e] # "off"
    BY <1>6 DEF SchedInv, Scheduled
  <2>4. ASSUME NEW d \in Engine PROVE Scheduled(d)'
    BY <1>6, <2>1, <2>3 DEF SchedInv, Scheduled
  <2>5. QED
    BY <1>6, <2>2, <2>4 DEF SchedInv, OneLive
<1>7. ASSUME NEW e \in Engine, TimerFires(e) PROVE SchedInv'
  <2>1. timer[e] /\ timer' = [timer EXCEPT ![e] = FALSE] /\ UNCHANGED <<life, pendingDirty>>
    BY <1>7 DEF TimerFires
  <2>2. \A d \in Engine \ {e} : timer'[d] = timer[d] /\ pc'[d] = pc[d]
    BY <1>7, <2>1 DEF TimerFires, Begin, Goto, TypeOK
  <2>3. QED
    BY <1>6, <2>1, <2>2 DEF TypeOK
<1>8. ASSUME NEW e \in Engine, Settle(e) PROVE SchedInv'
  <2>1. pc[e] # "off" /\ UNCHANGED <<life, pendingDirty>>
    BY <1>8 DEF Settle
  <2>2. timer' = [timer EXCEPT ![e] = FALSE] \/ timer' = timer
    BY <1>8 DEF Settle
  <2>3. \A d \in Engine \ {e} : timer'[d] = timer[d] /\ pc'[d] = pc[d]
    BY <1>8, <2>2 DEF Settle, Begin, Goto, TypeOK
  <2>4. QED
    BY <1>6, <2>1, <2>2, <2>3 DEF TypeOK
<1>9. CASE UNCHANGED vars
  BY <1>9 DEF vars, local, SchedInv, Alone, OneLive, Scheduled
<1>10. QED
  BY <1>1, <1>2, <1>3, <1>4, <1>5, <1>7, <1>8, <1>9, RunMoves, MovesAlone DEF Next, Run

-----------------------------------------------------------------------------
(* The user's edits in the repository. *)

Own(tree) == tree.edits \cap Mine

\* A branch whose tip has every edit, of those in S, of the commits below it.
Keeps(s, b, S) == \A c \in b : s[c].edits \cap S \subseteq s[Max(b)].edits

History(S) == \A b \in {head, tracking, remote} : Keeps(store, b, S)

Rooted == 1 \in head /\ 1 \in tracking /\ 1 \in remote

\* Where the user's edits are: each of these places has what the one before
\* has, and the remote has what was last fetched or pushed.
Chain ==
  /\ Own(TreeOf(remote)) = Own(TreeOf(tracking))
  /\ Own(TreeOf(tracking)) \subseteq TreeOf(head).edits
  /\ Own(TreeOf(head)) \subseteq index.edits
  /\ Own(index) \subseteq work.edits

\* From the commit of a run on, what is staged is committed.
Committed == {"fetch", "count", "ff", "merge", "push", "ask", "lease", "force",
              "reset", "restage", "repush", "co_push", "co_lease"}

Placed(e) ==
  /\ At(e, "ff") \/ At(e, "co_done") => head \subseteq tracking
  /\ pc[e] \in Committed => Own(index) \subseteq TreeOf(head).edits
  /\ At(e, "settle") /\ status[e] = "idle" => head \subseteq remote

RepoInv == Rooted /\ tracking \subseteq remote /\ History(Mine) /\ Chain

OwnInv == RepoInv /\ \A e \in Engine : Placed(e)

\* What CommittedKept and StagedEditKept say of one step.
NoneForgotten ==
  \A m \in Mine : m \in TreeOf(head).edits =>
    m \in TreeOf(head)'.edits \/ \E e \in Engine : At(e, "reset")
NoneOverwritten ==
  \A m \in Mine : m \in work.edits /\ m \in index.edits =>
    m \in work'.edits \/ \E e \in Engine : At(e, "co_done")
Harmless == NoneForgotten /\ NoneOverwritten

LEMMA KeepsOld ==
  ASSUME store \in Seq(Tree), NEW t \in Tree, NEW S,
         NEW b \in SUBSET (1 .. Len(store)), b # {}, Keeps(store, b, S)
  PROVE  Keeps(NewCommit(t), b, S) /\ NewCommit(t)[Max(b)] = store[Max(b)]
<1>1. Max(b) \in 1 .. Len(store)
  <2>1. Len(store) \in Nat
    OBVIOUS
  <2>2. QED
    BY <2>1, Tip
<1>2. \A c \in 1 .. Len(store) : NewCommit(t)[c] = store[c]
  BY NewCommitType
<1>3. QED
  BY <1>1, <1>2 DEF Keeps

LEMMA KeepsNew ==
  ASSUME store \in Seq(Tree), NEW t \in Tree, NEW S,
         NEW b \in SUBSET (1 .. Len(store)), \A c \in b : store[c].edits \cap S \subseteq t.edits
  PROVE  Keeps(NewCommit(t), WithNew(b), S) /\ NewCommit(t)[Max(WithNew(b))] = t
<1>1. Max(WithNew(b)) = Len(store) + 1
  BY TipOfNew
<1>2. NewCommit(t)[Len(store) + 1] = t /\ \A c \in 1 .. Len(store) : NewCommit(t)[c] = store[c]
  BY NewCommitType
<1>3. QED
  BY <1>1, <1>2 DEF Keeps, WithNew

(* A commit on the local branch, or on it and what was fetched. *)
LEMMA CommitKeeps ==
  ASSUME TypeOK, NEW S, History(S), NEW t \in Tree, NEW b \in SUBSET (1 .. Len(store)),
         \A c \in b : store[c].edits \cap S \subseteq t.edits,
         store' = NewCommit(t), head' = WithNew(b), UNCHANGED <<tracking, remote>>
  PROVE  /\ History(S)' /\ TreeOf(head)' = t
         /\ TreeOf(tracking)' = TreeOf(tracking) /\ TreeOf(remote)' = TreeOf(remote)
<1>1. /\ store \in Seq(Tree)
      /\ tracking \in SUBSET (1 .. Len(store)) /\ tracking # {}
      /\ remote \in SUBSET (1 .. Len(store)) /\ remote # {}
  BY BranchType DEF TypeOK
<1>2. Keeps(store, tracking, S) /\ Keeps(store, remote, S)
  BY DEF History
<1>3. /\ Keeps(NewCommit(t), tracking, S) /\ NewCommit(t)[Max(tracking)] = store[Max(tracking)]
      /\ Keeps(NewCommit(t), remote, S) /\ NewCommit(t)[Max(remote)] = store[Max(remote)]
  BY <1>1, <1>2, KeepsOld
<1>4. Keeps(NewCommit(t), WithNew(b), S) /\ NewCommit(t)[Max(WithNew(b))] = t
  BY <1>1, KeepsNew
<1>5. QED
  BY <1>3, <1>4 DEF History, TreeOf

(* A collaborator's push. *)
LEMMA CollaborateKeeps ==
  ASSUME TypeOK, NEW S, History(S), NEW t \in Theirs, Collaborate(t)
  PROVE  /\ History(S)' /\ TreeOf(remote)' = [TreeOf(remote) EXCEPT !.edits = @ \cup {t}]
         /\ TreeOf(tracking)' = TreeOf(tracking) /\ TreeOf(head)' = TreeOf(head)
<1> DEFINE u == [TreeOf(remote) EXCEPT !.edits = @ \cup {t}]
<1>1. /\ store \in Seq(Tree)
      /\ tracking \in SUBSET (1 .. Len(store)) /\ tracking # {}
      /\ head \in SUBSET (1 .. Len(store)) /\ head # {}
      /\ remote \in SUBSET (1 .. Len(store))
  BY BranchType DEF TypeOK
<1>2. Keeps(store, tracking, S) /\ Keeps(store, head, S) /\ Keeps(store, remote, S)
  BY DEF History
<1>3. TreeOf(remote) \in Tree
  BY TreeType
<1>4. u \in Tree /\ u.edits = TreeOf(remote).edits \cup {t}
  BY <1>3 DEF Tree, Edit
<1>5. \A c \in remote : store[c].edits \cap S \subseteq u.edits
  BY <1>2, <1>4 DEF Keeps, TreeOf
<1>6. store' = NewCommit(u) /\ remote' = WithNew(remote) /\ UNCHANGED <<tracking, head>>
  BY DEF Collaborate
<1> HIDE DEF u
<1>7. /\ Keeps(NewCommit(u), tracking, S) /\ NewCommit(u)[Max(tracking)] = store[Max(tracking)]
      /\ Keeps(NewCommit(u), head, S) /\ NewCommit(u)[Max(head)] = store[Max(head)]
  BY <1>1, <1>2, <1>4, KeepsOld
<1>8. Keeps(NewCommit(u), WithNew(remote), S) /\ NewCommit(u)[Max(WithNew(remote))] = u
  BY <1>1, <1>4, <1>5, KeepsNew
<1>9. QED
  BY <1>6, <1>7, <1>8 DEF History, TreeOf, u

(* What a merge keeps: with histories kept on both sides, the edits of both. *)
LEMMA MergeKeeps ==
  ASSUME TypeOK, NEW S, History(S), Rooted
  PROVE  \A x \in S : x \in TreeOf(head).edits \/ x \in TreeOf(tracking).edits => x \in Merged
<1> DEFINE b == head \cap tracking
<1>1. b \in SUBSET (1 .. Len(store)) /\ b # {} /\ Len(store) \in Nat
  BY BranchType DEF TypeOK, Rooted
<1>2. Max(b) \in b
  BY <1>1, Tip
<1>3. /\ Base.edits \cap S \subseteq TreeOf(head).edits
      /\ Base.edits \cap S \subseteq TreeOf(tracking).edits
  BY <1>2 DEF History, Keeps, Base, TreeOf
<1>4. QED
  BY <1>3 DEF Merged, MergedEdits

(* Unless an engine moves, or with the repository as it was, all stays put. *)
LEMMA SamePlaces ==
  ASSUME TypeOK, OwnInv, UNCHANGED repo
  PROVE  RepoInv' /\ Harmless
<1>1. RepoInv'
  BY DEF OwnInv, RepoInv, repo, Rooted, History, Keeps, Chain, Own, TreeOf
<1>2. Harmless
  BY DEF repo, Harmless, NoneForgotten, NoneOverwritten, TreeOf
<1>3. QED
  BY <1>1, <1>2

(* The engines that do not move are off, so only the one that moves counts. *)
LEMMA OnePlace ==
  ASSUME TypeOK, SchedInv, NEW e \in Engine, Moves(e), Placed(e)', RepoInv'
  PROVE  OwnInv'
<1>1. \A d \in Engine \ {e} : pc'[d] = "off"
  BY MovesAlone
<1>2. \A d \in Engine \ {e} : Placed(d)'
  BY <1>1 DEF Placed, At, Committed
<1>3. QED
  BY <1>2 DEF OwnInv

(* What a save, a collaborator, the page and the scheduler do to the edits. *)
LEMMA OwnEnvironment ==
  ASSUME TypeOK, OwnInv, SchedInv,
         \/ \E m \in Mine : Save(m)
         \/ \E t \in Theirs : Collaborate(t)
         \/ Reload
         \/ \E e \in Engine : Create(e) \/ Dispose(e) \/ TimerFires(e) \/ Settle(e)
  PROVE  OwnInv' /\ Harmless
<1>1. ASSUME NEW m \in Mine, Save(m) PROVE OwnInv' /\ Harmless
  <2>1. /\ UNCHANGED <<index, store, head, tracking, remote, pc, status>>
        /\ work' = [work EXCEPT !.edits = @ \cup {m}]
    BY <1>1 DEF Save
  <2>2. work.edits \subseteq work'.edits
    BY <2>1 DEF TypeOK, Tree
  <2>3. RepoInv'
    BY <2>1, <2>2 DEF OwnInv, RepoInv, Rooted, History, Keeps, Chain, Own, TreeOf
  <2>4. \A e \in Engine : Placed(e)'
    BY <2>1 DEF OwnInv, Placed, At, Own, TreeOf
  <2>5. Harmless
    BY <2>1, <2>2 DEF Harmless, NoneForgotten, NoneOverwritten, TreeOf
  <2>6. QED
    BY <2>3, <2>4, <2>5 DEF OwnInv
<1>2. ASSUME NEW t \in Theirs, Collaborate(t) PROVE OwnInv' /\ Harmless
  <2>1. UNCHANGED <<work, index, head, tracking, pc, status>> /\ remote' = WithNew(remote)
    BY <1>2 DEF Collaborate, local
  <2>2. /\ History(Mine)' /\ TreeOf(remote)' = [TreeOf(remote) EXCEPT !.edits = @ \cup {t}]
        /\ TreeOf(tracking)' = TreeOf(tracking) /\ TreeOf(head)' = TreeOf(head)
    BY <1>2, CollaborateKeeps DEF OwnInv, RepoInv
  <2>3. remote \subseteq remote'
    BY <2>1 DEF WithNew
  <2>4. Own(TreeOf(remote))' = Own(TreeOf(remote))
    <3>1. TreeOf(remote) \in Tree /\ t \notin Mine
      BY TreeType, EditsAreNamed
    <3>2. TreeOf(remote)'.edits = TreeOf(remote).edits \cup {t}
      BY <2>2, <3>1 DEF Tree
    <3>3. QED
      BY <3>1, <3>2 DEF Own
  <2>5. Own(TreeOf(tracking))' = Own(TreeOf(tracking)) /\ Own(TreeOf(head))' = Own(TreeOf(head))
    BY <2>2 DEF Own
  <2>6. RepoInv'
    BY <2>1, <2>2, <2>3, <2>4, <2>5 DEF OwnInv, RepoInv, Rooted, Chain, Own
  <2>7. \A e \in Engine : Placed(e)'
    BY <2>1, <2>2, <2>3 DEF OwnInv, Placed, At, Own
  <2>8. Harmless
    BY <2>1, <2>2 DEF Harmless, NoneForgotten, NoneOverwritten
  <2>9. QED
    BY <2>6, <2>7, <2>8 DEF OwnInv
<1>3. CASE Reload
  <2>1. UNCHANGED repo /\ \A e \in Engine : pc'[e] = "off"
    BY <1>3 DEF Reload
  <2>2. \A e \in Engine : Placed(e)'
    BY <2>1 DEF Placed, At, Committed
  <2>3. QED
    BY <2>1, <2>2, SamePlaces DEF OwnInv
<1>4. ASSUME NEW e \in Engine, Create(e) \/ Dispose(e) PROVE OwnInv' /\ Harmless
  <2>1. UNCHANGED <<repo, pc, status>>
    BY <1>4 DEF Create, Dispose
  <2>2. \A d \in Engine : Placed(d)'
    BY <2>1 DEF OwnInv, Placed, At, Own, TreeOf, repo
  <2>3. QED
    BY <2>1, <2>2, SamePlaces DEF OwnInv
<1>5. ASSUME NEW e \in Engine, TimerFires(e) \/ Settle(e) PROVE OwnInv' /\ Harmless
  <2>1. UNCHANGED repo
    BY <1>5 DEF TimerFires, Settle
  <2>2. \/ UNCHANGED <<pc, status>>
        \/ pc' = [pc EXCEPT ![e] = "stage"] /\ status' = [status EXCEPT ![e] = "syncing"]
        \/ pc' = [pc EXCEPT ![e] = "off"] /\ UNCHANGED status
    BY <1>5 DEF TimerFires, Settle, Begin, Goto, Emit
  <2>3. \A d \in Engine : pc'[d] \in {"stage", "off"} \/ (pc'[d] = pc[d] /\ status'[d] = status[d])
    BY <2>2 DEF TypeOK
  <2>4. \A d \in Engine : Placed(d)'
    BY <2>1, <2>3 DEF OwnInv, Placed, At, Committed, Own, TreeOf, repo
  <2>5. QED
    BY <2>1, <2>4, SamePlaces DEF OwnInv
<1>6. QED
  BY <1>1, <1>2, <1>3, <1>4, <1>5

(* What the steps of a run do to the edits. *)
LEMMA OwnRun ==
  ASSUME TypeOK, OwnInv, SchedInv, NEW e \in Engine,
         \/ Stage(e) \/ Commit(e) \/ Fetch(e) \/ Count(e) \/ FastForward(e) \/ Merge(e)
         \/ Checkout(e) \/ Push(e) \/ Lease(e) \/ ForcePush(e) \/ Reset(e) \/ PushMerged(e)
         \/ Fail(e) \/ KeepMine(e) \/ TakeRemote(e) \/ Block(e) \/ MergedByPolicy(e)
  PROVE  OwnInv' /\ Harmless
<1>1. Moves(e)
  BY RunMoves
<1>2. SUFFICES RepoInv' /\ Placed(e)' /\ Harmless
  BY <1>1, OnePlace
<1>3. RepoInv /\ Placed(e) /\ pc \in [Engine -> PC] /\ status \in [Engine -> Status]
  BY DEF OwnInv, TypeOK
<1>4. /\ head \in SUBSET (1 .. Len(store)) /\ tracking \in SUBSET (1 .. Len(store))
      /\ store \in Seq(Tree) /\ TreeOf(head) \in Tree /\ TreeOf(tracking) \in Tree
      /\ Max(head) \in head
  BY BranchType, TreeType DEF TypeOK
\* A step that leaves the repository alone.
<1>5. ASSUME UNCHANGED repo, Placed(e)' PROVE RepoInv' /\ Placed(e)' /\ Harmless
  BY <1>5, SamePlaces
<1>6. CASE Stage(e)
  <2>1. /\ UNCHANGED <<work, store, head, tracking, remote, status>> /\ index' = work
        /\ \/ pc'[e] \in {"commit", "recommit"}
           \/ index' = TreeOf(head)
        /\ pc'[e] \in {"commit", "recommit", "fetch", "repush"}
    BY <1>3, <1>6 DEF Stage, Goto, At
  <2>2. RepoInv'
    BY <1>3, <2>1 DEF RepoInv, Rooted, History, Keeps, Chain, Own, TreeOf
  <2>3. Placed(e)'
    BY <2>1 DEF Placed, At, Committed, Own, TreeOf
  <2>4. Harmless
    BY <2>1 DEF Harmless, NoneForgotten, NoneOverwritten, TreeOf
  <2>5. QED
    BY <2>2, <2>3, <2>4
<1>7. CASE Commit(e)
  <2>1. /\ UNCHANGED <<work, index, tracking, remote, status>>
        /\ store' = NewCommit(index) /\ head' = WithNew(head)
        /\ pc'[e] \in {"fetch", "repush"}
    BY <1>3, <1>7 DEF Commit, Goto
  <2>2. \A c \in head : store[c].edits \cap Mine \subseteq index.edits
    BY <1>3 DEF RepoInv, History, Keeps, Chain, Own, TreeOf
  <2>3. /\ History(Mine)' /\ TreeOf(head)' = index
        /\ TreeOf(tracking)' = TreeOf(tracking) /\ TreeOf(remote)' = TreeOf(remote)
    BY <1>3, <1>4, <2>1, <2>2, CommitKeeps DEF RepoInv, TypeOK
  <2>4. RepoInv'
    <3>1. Rooted' /\ (tracking \subseteq remote)'
      BY <1>3, <2>1 DEF RepoInv, Rooted, WithNew
    <3>2. Chain'
      BY <1>3, <2>1, <2>3 DEF RepoInv, Chain, Own
    <3>3. QED
      BY <2>3, <3>1, <3>2 DEF RepoInv
  <2>5. Placed(e)'
    BY <2>1, <2>3 DEF Placed, At, Committed, Own
  <2>6. Harmless
    BY <1>3, <2>1, <2>3 DEF Harmless, NoneForgotten, NoneOverwritten, RepoInv, Chain, Own
  <2>7. QED
    BY <2>4, <2>5, <2>6
<1>8. CASE Fetch(e) \/ Lease(e)
  <2>1. /\ UNCHANGED <<work, index, store, head, remote>> /\ tracking' = remote
        /\ pc[e] \in Committed
        /\ pc'[e] \in {"count", "force"} \/ (pc'[e] = "settle" /\ status'[e] # "idle")
    BY <1>3, <1>8 DEF Fetch, Lease, Goto, End, Emit, At, Committed
  <2>2. RepoInv'
    BY <1>3, <2>1 DEF RepoInv, Rooted, History, Keeps, Chain, Own, TreeOf
  <2>3. Placed(e)'
    BY <1>3, <2>1 DEF Placed, At, Committed, Own, TreeOf
  <2>4. Harmless
    BY <2>1 DEF Harmless, NoneForgotten, NoneOverwritten, TreeOf
  <2>5. QED
    BY <2>2, <2>3, <2>4
<1>9. CASE Count(e)
  <2>1. /\ UNCHANGED <<repo, status>> /\ pc[e] \in Committed
        /\ pc'[e] \in {"push", "merge"} \/ (pc'[e] = "ff" /\ ~Ahead)
    BY <1>3, <1>9 DEF Count, Goto, At, Committed
  <2>2. Placed(e)'
    BY <1>3, <2>1 DEF Placed, At, Committed, Own, TreeOf, Ahead, repo
  <2>3. QED
    BY <1>5, <2>1, <2>2
<1>10. CASE FastForward(e)
  <2>1. /\ UNCHANGED <<work, index, store, tracking, remote>> /\ head' = tracking
        /\ pc[e] = "ff" /\ pc'[e] = "co_push"
    BY <1>3, <1>10 DEF FastForward, Goto, At
  <2>2. head \subseteq tracking /\ Own(index) \subseteq TreeOf(head).edits
    BY <1>3, <2>1 DEF Placed, At, Committed
  <2>3. TreeOf(head)' = TreeOf(tracking)
    BY <2>1 DEF TreeOf
  <2>4. Own(TreeOf(head)) \subseteq TreeOf(tracking).edits
    BY <1>3, <1>4, <2>2 DEF RepoInv, History, Keeps, Own, TreeOf
  <2>5. Own(TreeOf(head)') = Own(TreeOf(head))
    BY <1>3, <2>3, <2>4 DEF RepoInv, Chain, Own
  <2>6. RepoInv'
    <3>1. Rooted' /\ (tracking \subseteq remote)' /\ History(Mine)'
      BY <1>3, <2>1 DEF RepoInv, Rooted, History, Keeps
    <3>2. TreeOf(tracking)' = TreeOf(tracking) /\ TreeOf(remote)' = TreeOf(remote)
      BY <2>1 DEF TreeOf
    <3>3. Chain'
      BY <1>3, <2>1, <2>3, <2>5, <3>2 DEF RepoInv, Chain, Own
    <3>4. QED
      BY <3>1, <3>3 DEF RepoInv
  <2>7. Placed(e)'
    BY <2>1, <2>2, <2>5 DEF Placed, At, Committed, Own
  <2>8. Harmless
    BY <2>1, <2>3, <2>4 DEF Harmless, NoneForgotten, NoneOverwritten, Own
  <2>9. QED
    BY <2>6, <2>7, <2>8
<1>11. CASE Merge(e)
  <2>1. pc[e] \in Committed /\ UNCHANGED <<tracking, remote>>
    BY <1>11 DEF Merge, At, Committed
  <2>2. Own(index) \subseteq TreeOf(head).edits
    BY <1>3, <2>1 DEF Placed
  <2>3. \A x \in Mine : x \in TreeOf(head).edits \/ x \in TreeOf(tracking).edits => x \in Merged
    BY <1>3, MergeKeeps DEF RepoInv
  <2>4. \A x \in Mine : x \in Merged => x \in TreeOf(head).edits
    BY <1>3, MergedType DEF RepoInv, Chain, Own
  <2>5. CASE ~Conflicts(TreeOf(head).edits, TreeOf(tracking).edits, Base.edits)
    <3> DEFINE t == [edits |-> Merged, marked |-> TreeOf(head).marked \/ TreeOf(tracking).marked]
               b == head \cup tracking
    <3>1. t \in Tree /\ t.edits = Merged
      BY <1>4, MergedType DEF Tree
    <3>2. b \in SUBSET (1 .. Len(store)) /\ 1 \in b
      BY <1>3, <1>4 DEF RepoInv, Rooted
    <3>3. store' = NewCommit(t) /\ head' = WithNew(b) /\ UNCHANGED <<work, index, status>>
          /\ pc'[e] = "co_push"
      BY <1>3, <1>11, <2>5 DEF Merge, Goto
    <3>4. \A c \in b : store[c].edits \cap Mine \subseteq t.edits
      <4>1. ASSUME NEW c \in b, NEW m \in Mine, m \in store[c].edits PROVE m \in Merged
        BY <1>3, <2>3, <4>1 DEF RepoInv, History, Keeps, TreeOf
      <4>2. QED
        BY <3>1, <4>1
    <3> HIDE DEF t, b
    <3>5. /\ History(Mine)' /\ TreeOf(head)' = t
          /\ TreeOf(tracking)' = TreeOf(tracking) /\ TreeOf(remote)' = TreeOf(remote)
      BY <1>3, <2>1, <3>1, <3>2, <3>3, <3>4, CommitKeeps DEF RepoInv
    <3>6. Own(TreeOf(head)') = Own(TreeOf(head))
      BY <2>3, <2>4, <3>1, <3>5 DEF Own
    <3>7. RepoInv'
      <4>1. Rooted' /\ (tracking \subseteq remote)'
        BY <1>3, <2>1, <3>2, <3>3 DEF RepoInv, Rooted, WithNew
      <4>2. Chain'
        BY <1>3, <3>3, <3>5, <3>6 DEF RepoInv, Chain, Own
      <4>3. QED
        BY <3>5, <4>1, <4>2 DEF RepoInv
    <3>8. Placed(e)'
      BY <2>2, <3>3, <3>6 DEF Placed, At, Committed, Own
    <3>9. Harmless
      BY <3>3, <3>6 DEF Harmless, NoneForgotten, NoneOverwritten, Own
    <3>10. QED
      BY <3>7, <3>8, <3>9
  <2>6. CASE Conflicts(TreeOf(head).edits, TreeOf(tracking).edits, Base.edits)
    <3>1. /\ work' = [edits |-> Merged, marked |-> TRUE] /\ index' = work'
          /\ UNCHANGED <<store, head>> /\ pc'[e] = "ask"
      BY <1>3, <1>11, <2>6 DEF Merge, Goto
    <3>2. work'.edits = Merged /\ index'.edits = Merged
      BY <3>1
    <3>3. RepoInv'
      BY <1>3, <2>1, <2>3, <3>1, <3>2 DEF RepoInv, Rooted, History, Keeps, Chain, Own, TreeOf
    <3>4. Placed(e)'
      BY <2>1, <2>4, <3>1, <3>2 DEF Placed, At, Committed, Own, TreeOf
    <3>5. Harmless
      BY <2>2, <2>3, <3>1, <3>2 DEF Harmless, NoneForgotten, NoneOverwritten, Own, TreeOf
    <3>6. QED
      BY <3>3, <3>4, <3>5
  <2>7. QED
    BY <2>5, <2>6
<1>12. CASE Checkout(e)
  <2>1. /\ UNCHANGED <<store, head, tracking, remote>>
        /\ work' = TreeOf(head) /\ index' = TreeOf(head)
        /\ pc[e] \in {"co_push", "co_lease", "co_done"}
        /\ pc'[e] = AfterCheckout[pc[e]]
    BY <1>3, <1>12, Places DEF Checkout, Goto
  <2>2. pc'[e] \in {"push", "lease"} \/ (pc'[e] = "settle" /\ pc[e] = "co_done")
    BY <2>1, Places
  <2>3. RepoInv'
    BY <1>3, <2>1 DEF RepoInv, Rooted, History, Keeps, Chain, Own, TreeOf
  <2>4. pc[e] = "co_done" => head \subseteq remote
    BY <1>3 DEF Placed, At, RepoInv
  <2>5. Placed(e)'
    BY <2>1, <2>2, <2>4 DEF Placed, At, Committed, Own, TreeOf
  <2>6. pc[e] # "co_done" => Own(index) \subseteq TreeOf(head).edits
    BY <1>3, <2>1 DEF Placed, Committed
  <2>7. Harmless
    BY <2>1, <2>6 DEF Harmless, NoneForgotten, NoneOverwritten, At, Own, TreeOf
  <2>8. QED
    BY <2>3, <2>5, <2>7
<1>13. CASE Push(e) \/ ForcePush(e)
  <2>1. UNCHANGED <<work, index, store, head>> /\ pc[e] \in Committed
    BY <1>13 DEF Push, ForcePush, At, Committed
  <2>2. \/ remote' = head /\ tracking' = head /\ pc'[e] = "settle"
        \/ UNCHANGED <<remote, tracking>> /\ (pc'[e] = "fetch" \/ (pc'[e] = "settle" /\ status'[e] # "idle"))
    BY <1>3, <1>13 DEF Push, ForcePush, Goto, End, Emit
  <2>3. RepoInv'
    BY <1>3, <2>1, <2>2 DEF RepoInv, Rooted, History, Keeps, Chain, Own, TreeOf
  <2>4. Placed(e)'
    BY <1>3, <2>1, <2>2 DEF Placed, At, Committed, Own, TreeOf
  <2>5. Harmless
    BY <2>1 DEF Harmless, NoneForgotten, NoneOverwritten, TreeOf
  <2>6. QED
    BY <2>3, <2>4, <2>5
<1>14. CASE Reset(e)
  <2>1. /\ UNCHANGED <<work, index, store, tracking, remote>> /\ head' = tracking
        /\ pc[e] = "reset" /\ pc'[e] = "co_done"
    BY <1>3, <1>14 DEF Reset, Goto, At
  <2>2. RepoInv'
    BY <1>3, <2>1 DEF RepoInv, Rooted, History, Keeps, Chain, Own, TreeOf
  <2>3. Placed(e)' /\ Harmless
    BY <2>1 DEF Placed, At, Committed, Harmless, NoneForgotten, NoneOverwritten
  <2>4. QED
    BY <2>2, <2>3
<1>15. CASE Fail(e) \/ Block(e)
  <2>1. UNCHANGED repo
    BY <1>15 DEF Fail, Block
  <2>2. \E s \in {"auth", "no_push_access", "offline", "conflict"} : End(e, s)
    BY <1>15 DEF Fail, Block
  <2>3. pc'[e] = "settle" /\ status'[e] # "idle"
    BY <1>3, <2>2 DEF End, Goto, Emit
  <2>4. Placed(e)'
    BY <2>3 DEF Placed, At, Committed
  <2>5. QED
    BY <1>5, <2>1, <2>4
<1>16. CASE KeepMine(e) \/ TakeRemote(e) \/ PushMerged(e)
  <2>1. UNCHANGED repo /\ pc[e] \in Committed /\ pc'[e] \in {"co_lease", "reset", "push"}
    BY <1>3, <1>16 DEF KeepMine, TakeRemote, PushMerged, Goto, At, Committed
  <2>2. Placed(e)'
    BY <1>3, <2>1 DEF Placed, At, Committed, Own, TreeOf, repo
  <2>3. QED
    BY <1>5, <2>1, <2>2
<1>17. CASE MergedByPolicy(e)
  <2>1. /\ UNCHANGED <<index, store, head, tracking, remote>> /\ work' = [work EXCEPT !.marked = FALSE]
        /\ pc[e] \in Committed /\ pc'[e] = "restage"
    BY <1>3, <1>17 DEF MergedByPolicy, Goto, At, Committed
  <2>2. work'.edits = work.edits
    BY <2>1 DEF TypeOK, Tree
  <2>3. RepoInv'
    BY <1>3, <2>1, <2>2 DEF RepoInv, Rooted, History, Keeps, Chain, Own, TreeOf
  <2>4. Placed(e)'
    BY <1>3, <2>1 DEF Placed, At, Committed, Own, TreeOf
  <2>5. Harmless
    BY <2>1, <2>2 DEF Harmless, NoneForgotten, NoneOverwritten, TreeOf
  <2>6. QED
    BY <2>3, <2>4, <2>5
<1>18. QED
  BY <1>6, <1>7, <1>8, <1>9, <1>10, <1>11, <1>12, <1>13, <1>14, <1>15, <1>16, <1>17

LEMMA OwnInit == Init => OwnInv
<1> SUFFICES ASSUME Init PROVE OwnInv
  OBVIOUS
<1>1. /\ head = {1} /\ tracking = {1} /\ remote = {1} /\ store = <<Empty>>
      /\ work = Empty /\ index = Empty /\ \A e \in Engine : pc[e] = "off"
  BY DEF Init
<1>2. Max({1}) = 1
  BY DEF Max
<1>3. TreeOf(head) = Empty /\ TreeOf(tracking) = Empty /\ TreeOf(remote) = Empty
  BY <1>1, <1>2 DEF TreeOf
<1>4. RepoInv
  BY <1>1, <1>2, <1>3 DEF RepoInv, Rooted, History, Keeps, Chain, Own
<1>5. \A e \in Engine : Placed(e)
  BY <1>1 DEF Placed, At, Committed
<1>6. QED
  BY <1>4, <1>5 DEF OwnInv

LEMMA OwnStep ==
  ASSUME TypeOK, OwnInv, SchedInv, [Next]_vars
  PROVE  OwnInv' /\ Harmless
<1>1. CASE UNCHANGED vars
  <2>1. UNCHANGED <<repo, pc, status>>
    BY <1>1 DEF vars, local
  <2>2. \A e \in Engine : Placed(e)'
    BY <2>1 DEF OwnInv, Placed, At, Own, TreeOf, repo
  <2>3. QED
    BY <2>1, <2>2, SamePlaces DEF OwnInv
<1>2. CASE Next
  BY <1>2, OwnEnvironment, OwnRun DEF Next, Run
<1>3. QED
  BY <1>1, <1>2

LEMMA OwnAlways ==
  ASSUME OneRun
  PROVE  Spec => [](TypeOK /\ SchedInv /\ OwnInv)
<1>1. Init => TypeOK /\ SchedInv /\ OwnInv
  BY TypeInit, SchedInit, OwnInit
<1>2. TypeOK /\ SchedInv /\ OwnInv /\ [Next]_vars => (TypeOK /\ SchedInv /\ OwnInv)'
  BY TypeStep, SchedStep, OwnStep
<1>3. QED
  BY <1>1, <1>2, PTL DEF Spec

(* With one run at a time the local branch forgets none of the user's edits *)
(* except by being reset to the remote (git-ops.ts), whatever fails, and     *)
(* wherever the page is reloaded.                                            *)
THEOREM CommittedEditsAreKept ==
  ASSUME OneRun
  PROVE  Spec => CommittedKept
<1>1. TypeOK /\ SchedInv /\ OwnInv /\ [Next]_vars => [NoneForgotten]_vars
  BY OwnStep DEF Harmless
<1>2. Spec => [][NoneForgotten]_vars
  BY <1>1, OwnAlways, PTL DEF Spec
<1>3. QED
  BY <1>2, PTL DEF CommittedKept, NoneForgotten

(* No checkout of a run overwrites what it staged (git-ops.ts, fastForward  *)
(* and merge), unless the user took the remote's side.                      *)
THEOREM StagedEditsAreKept ==
  ASSUME OneRun
  PROVE  Spec => StagedEditKept
<1>1. TypeOK /\ SchedInv /\ OwnInv /\ [Next]_vars => [NoneOverwritten]_vars
  BY OwnStep DEF Harmless
<1>2. Spec => [][NoneOverwritten]_vars
  BY <1>1, OwnAlways, PTL DEF Spec
<1>3. QED
  BY <1>2, PTL DEF StagedEditKept, NoneOverwritten

(* An engine that reports idle at the end of a run has pushed (engine.ts).  *)
THEOREM IdleIsPushed ==
  ASSUME OneRun
  PROVE  Spec => []IdleMeansPushed
<1>1. OwnInv => IdleMeansPushed
  BY DEF OwnInv, Placed, IdleMeansPushed
<1>2. QED
  BY <1>1, OwnAlways, PTL

-----------------------------------------------------------------------------
(* The resolve buttons. *)

\* Where a run is between its conflict and the end of the answer to it.
Resolving == {"ask", "co_lease", "lease", "force", "reset", "co_done",
              "restage", "recommit", "repush"}

Badge(e) ==
  /\ timer[e] => life[e] = "live"
  /\ life[e] = "new" => pc[e] = "off" /\ status[e] = "idle"
  /\ life[e] = "live" /\ status[e] = "conflict" => pc[e] \in Resolving

BadgeInv == \A e \in Engine : Badge(e)

LEMMA BadgeStep ==
  ASSUME "block" \notin Env, TypeOK, BadgeInv, [Next]_vars
  PROVE  BadgeInv'
<1> USE DEF BadgeInv
<1> SUFFICES ASSUME NEW d \in Engine PROVE Badge(d)'
  OBVIOUS
<1>1. Badge(d) /\ pc \in [Engine -> PC] /\ status \in [Engine -> Status]
  BY DEF TypeOK
<1>2. ASSUME NEW m \in Mine, Save(m) PROVE Badge(d)'
  <2>1. timer'[d] <=> (timer[d] \/ life[d] = "live")
    BY <1>2 DEF Save
  <2>2. QED
    BY <1>1, <1>2, <2>1 DEF Save, Badge
<1>3. CASE \E t \in Theirs : Collaborate(t)
  BY <1>1, <1>3 DEF Collaborate, local, Badge
<1>4. CASE Reload
  <2>1. pc'[d] = "off" /\ ~timer'[d] /\ status' = status
    BY <1>4 DEF Reload
  <2>2. life'[d] = IF life[d] = "live" THEN "gone" ELSE life[d]
    BY <1>4 DEF Reload
  <2>3. QED
    BY <1>1, <2>1, <2>2 DEF Badge
<1>5. ASSUME NEW e \in Engine, Create(e) \/ Dispose(e) PROVE Badge(d)'
  <2>1. UNCHANGED <<pc, status>>
    BY <1>5 DEF Create, Dispose
  <2>2. d # e => timer'[d] = timer[d] /\ life'[d] = life[d]
    BY <1>5 DEF Create, Dispose, TypeOK
  <2>3. d = e => \/ life'[d] = "live" /\ life[d] = "new"
                 \/ life'[d] = "gone" /\ ~timer'[d]
    BY <1>5 DEF Create, Dispose, TypeOK
  <2>4. QED
    BY <1>1, <2>1, <2>2, <2>3 DEF Badge
<1>6. ASSUME NEW e \in Engine, TimerFires(e) \/ Settle(e) PROVE Badge(d)'
  <2>1. d # e => timer'[d] = timer[d] /\ pc'[d] = pc[d] /\ status'[d] = status[d]
    BY <1>6 DEF TimerFires, Settle, Begin, Goto, Emit, TypeOK
  <2>2. life[e] # "new"
    BY <1>6 DEF TimerFires, Settle, At, Badge
  <2>3. timer'[e] => timer[e]
    BY <1>6 DEF TimerFires, Settle, TypeOK
  <2>4. \/ pc'[e] = pc[e] /\ status'[e] = status[e]
        \/ status'[e] = "syncing"
        \/ pc[e] = "settle" /\ status'[e] = status[e]
    BY <1>1, <1>6 DEF TimerFires, Settle, Begin, Goto, Emit, At
  <2>5. life' = life
    BY <1>6 DEF TimerFires, Settle
  <2>6. QED
    BY <1>1, <2>1, <2>2, <2>3, <2>4, <2>5 DEF Badge, Resolving
<1>7. ASSUME NEW e \in Engine, Moves(e),
             \A c \in Engine \ {e} : status'[c] = status[c],
             life[e] = "live" /\ status'[e] = "conflict" => pc'[e] \in Resolving
      PROVE  Badge(d)'
  <2>1. UNCHANGED <<life, timer>> /\ pc[e] # "off"
    BY <1>7 DEF Moves
  <2>2. d # e => pc'[d] = pc[d]
    BY <1>7 DEF Moves, Goto, TypeOK
  <2>3. life[e] # "new"
    BY <2>1 DEF Badge
  <2>4. QED
    BY <1>1, <1>7, <2>1, <2>2, <2>3 DEF Badge
<1>8. ASSUME NEW e \in Engine,
             \/ Stage(e) \/ Commit(e) \/ Fetch(e) \/ Count(e) \/ FastForward(e) \/ Merge(e)
             \/ Checkout(e) \/ Push(e) \/ Lease(e) \/ ForcePush(e) \/ Reset(e) \/ PushMerged(e)
             \/ Fail(e) \/ KeepMine(e) \/ TakeRemote(e) \/ MergedByPolicy(e)
      PROVE  Badge(d)'
  <2>1. Moves(e)
    BY <1>8, RunMoves
  <2>2. life[e] = "live" /\ status[e] = "conflict" => pc[e] \in Resolving
    BY DEF Badge
  <2>3. status' = status \/ \E s \in Status : Emit(e, s)
    BY <1>8 DEF Stage, Commit, Fetch, Count, FastForward, Merge, Checkout, Push, Lease, ForcePush,
                Reset, PushMerged, Fail, KeepMine, TakeRemote, MergedByPolicy, Status, End
  <2>4. \A c \in Engine \ {e} : status'[c] = status[c]
    BY <1>1, <2>3 DEF Emit
  <2>5. \/ status'[e] # "conflict"
        \/ pc'[e] \in Resolving
        \/ status'[e] = status[e] /\ pc[e] \notin Resolving
    <3> USE <1>1 DEF At, Goto, Emit, End, Resolving
    <3>1. CASE Stage(e) \/ Commit(e) \/ Fetch(e) \/ Count(e) \/ FastForward(e)
      BY <3>1 DEF Stage, Commit, Fetch, Count, FastForward
    <3>2. CASE Merge(e)
      BY <3>2 DEF Merge
    <3>3. CASE Checkout(e)
      BY <3>3, Places DEF Checkout
    <3>4. CASE Push(e) \/ Lease(e) \/ ForcePush(e) \/ Reset(e) \/ PushMerged(e)
      BY <3>4 DEF Push, Lease, ForcePush, Reset, PushMerged
    <3>5. CASE Fail(e)
      BY <3>5 DEF Fail
    <3>6. CASE KeepMine(e) \/ TakeRemote(e) \/ MergedByPolicy(e)
      BY <3>6 DEF KeepMine, TakeRemote, MergedByPolicy
    <3>7. QED
      BY <1>8, <3>1, <3>2, <3>3, <3>4, <3>5, <3>6
  <2>6. QED
    BY <1>7, <2>1, <2>2, <2>4, <2>5
<1>9. CASE UNCHANGED vars
  BY <1>1, <1>9 DEF vars, local, Badge
<1>10. QED
  BY <1>2, <1>3, <1>4, <1>5, <1>6, <1>8, <1>9 DEF Next, Run, Block

(* The badge offers its buttons only while a run waits for the choice or     *)
(* carries it out (SyncStatusBadge.tsx), under any policy that does not      *)
(* answer "block"; the interactive one never does.                           *)
THEOREM ButtonsAlwaysWork ==
  ASSUME "block" \notin Env
  PROVE  Spec => []ButtonsWork
<1>1. Init => BadgeInv
  BY DEF Init, BadgeInv, Badge
<1>2. TypeOK /\ BadgeInv /\ [Next]_vars => BadgeInv'
  BY BadgeStep
<1>3. BadgeInv => ButtonsWork
  BY DEF BadgeInv, Badge, Resolving, ButtonsWork
<1>4. QED
  BY <1>1, <1>2, <1>3, TypeCorrect, PTL DEF Spec


-----------------------------------------------------------------------------
(* The collaborators' edits. *)

\* The page is not reloaded and no local operation throws, which could leave a
\* branch written whose checkout has not followed.
Whole == OneRun /\ "reload" \notin Env /\ "local" \notin Env

\* Between the write of the local branch and its checkout.
Midway(e) == At(e, "co_push") \/ At(e, "co_done")

\* Every branch keeps its history, the working tree has what is staged and,
\* but for a run midway, what the local branch has; a lease that was granted
\* still describes the remote.
TheirsInv ==
  /\ Rooted /\ History(Edit) /\ index.edits \subseteq work.edits
  /\ (\A e \in Engine : ~Midway(e)) => TreeOf(head).edits \subseteq index.edits
  /\ \A e \in Engine : At(e, "force") => remote = lease[e]

\* What TheirsKept says of one step.
NoneTaken ==
  \A t \in Theirs : t \in TreeOf(remote).edits =>
    \/ t \in TreeOf(remote)'.edits
    \/ \E e \in Engine : At(e, "force") /\ t \in TreeOf(lease[e]).edits

(* A step of a run, when only the run counts. *)
LEMMA OneMidway ==
  ASSUME TypeOK, SchedInv, NEW e \in Engine, Moves(e),
         Rooted', History(Edit)', (index.edits \subseteq work.edits)',
         Midway(e)' \/ (TreeOf(head).edits \subseteq index.edits)',
         (At(e, "force") => remote = lease[e])'
  PROVE  TheirsInv'
<1>1. \A d \in Engine \ {e} : pc'[d] = "off"
  BY MovesAlone
<1>2. \A d \in Engine \ {e} : ~At(d, "force")'
  BY <1>1 DEF At
<1>3. QED
  BY <1>2 DEF TheirsInv

LEMMA TheirsEnvironment ==
  ASSUME Whole, "race" \notin Env, TypeOK, TheirsInv,
         \/ \E m \in Mine : Save(m)
         \/ \E t \in Theirs : Collaborate(t)
         \/ Reload
         \/ \E e \in Engine : Create(e) \/ Dispose(e) \/ TimerFires(e) \/ Settle(e)
  PROVE  TheirsInv' /\ NoneTaken
<1>1. ASSUME NEW m \in Mine, Save(m) PROVE TheirsInv' /\ NoneTaken
  <2>1. /\ UNCHANGED <<index, store, head, tracking, remote, pc, lease>>
        /\ work' = [work EXCEPT !.edits = @ \cup {m}]
    BY <1>1 DEF Save
  <2>2. work.edits \subseteq work'.edits
    BY <2>1 DEF TypeOK, Tree
  <2>3. QED
    BY <2>1, <2>2 DEF TheirsInv, Rooted, History, Keeps, Midway, At, TreeOf, NoneTaken
<1>2. ASSUME NEW t \in Theirs, Collaborate(t) PROVE TheirsInv' /\ NoneTaken
  <2>1. /\ UNCHANGED <<work, index, head, tracking, pc, lease>> /\ remote' = WithNew(remote)
        /\ \A e \in Engine : ~At(e, "force")
    BY <1>2 DEF Collaborate, local
  <2>2. /\ History(Edit)' /\ TreeOf(remote)' = [TreeOf(remote) EXCEPT !.edits = @ \cup {t}]
        /\ TreeOf(head)' = TreeOf(head)
    BY <1>2, CollaborateKeeps DEF TheirsInv
  <2>3. TreeOf(remote).edits \subseteq TreeOf(remote)'.edits
    <3>1. TreeOf(remote) \in Tree
      BY TreeType
    <3>2. QED
      BY <2>2, <3>1 DEF Tree
  <2>4. Rooted'
    BY <2>1 DEF TheirsInv, Rooted, WithNew
  <2>5. \A e \in Engine : ~At(e, "force")' /\ (Midway(e)' <=> Midway(e))
    BY <2>1 DEF At, Midway
  <2>6. TheirsInv'
    BY <2>1, <2>2, <2>4, <2>5 DEF TheirsInv
  <2>7. QED
    BY <2>3, <2>6 DEF NoneTaken
<1>3. ~Reload
  BY DEF Reload, Whole
<1>4. ASSUME NEW e \in Engine, Create(e) \/ Dispose(e) \/ TimerFires(e) \/ Settle(e)
      PROVE  TheirsInv' /\ NoneTaken
  <2>1. UNCHANGED <<repo, lease>>
    BY <1>4 DEF Create, Dispose, TimerFires, Settle
  <2>2. pc' = pc \/ (pc[e] \in {"off", "settle"} /\ \E p \in {"off", "stage"} : pc' = [pc EXCEPT ![e] = p])
    BY <1>4 DEF Create, Dispose, TimerFires, Settle, Begin, Goto, At
  <2>3. \A d \in Engine : (Midway(d)' <=> Midway(d)) /\ (At(d, "force")' <=> At(d, "force"))
    BY <2>2 DEF TypeOK, Midway, At
  <2>4. QED
    BY <2>1, <2>3 DEF TheirsInv, Rooted, History, Keeps, TreeOf, NoneTaken, repo
<1>5. QED
  BY <1>1, <1>2, <1>3, <1>4

LEMMA TheirsRun ==
  ASSUME Whole, TypeOK, SchedInv, TheirsInv, NEW e \in Engine,
         \/ Stage(e) \/ Commit(e) \/ Fetch(e) \/ Count(e) \/ FastForward(e) \/ Merge(e)
         \/ Checkout(e) \/ Push(e) \/ Lease(e) \/ ForcePush(e) \/ Reset(e) \/ PushMerged(e)
         \/ Fail(e) \/ KeepMine(e) \/ TakeRemote(e) \/ Block(e) \/ MergedByPolicy(e)
  PROVE  TheirsInv' /\ NoneTaken
<1>1. Moves(e)
  BY RunMoves
<1>2. pc \in [Engine -> PC] /\ \A d \in Engine \ {e} : ~Midway(d)
  BY <1>1 DEF TypeOK, SchedInv, Alone, Moves, Midway, At
<1>3. Rooted /\ History(Edit) /\ index.edits \subseteq work.edits
  BY DEF TheirsInv
<1>4. Midway(e) \/ TreeOf(head).edits \subseteq index.edits
  BY <1>2 DEF TheirsInv
<1>5. /\ head \in SUBSET (1 .. Len(store)) /\ tracking \in SUBSET (1 .. Len(store))
      /\ store \in Seq(Tree) /\ TreeOf(head) \in Tree /\ TreeOf(tracking) \in Tree
  BY BranchType, TreeType DEF TypeOK
\* Nothing moves but the run and what it has staged.
<1>6. ASSUME UNCHANGED <<work, index, store, head, tracking, remote>>, ~Midway(e),
             pc'[e] = "force" => remote = lease'[e]
      PROVE  TheirsInv' /\ NoneTaken
  <2>1. Rooted' /\ History(Edit)' /\ (index.edits \subseteq work.edits)'
    BY <1>3, <1>6 DEF Rooted, History, Keeps
  <2>2. (TreeOf(head).edits \subseteq index.edits)'
    BY <1>4, <1>6 DEF TreeOf
  <2>3. (At(e, "force") => remote = lease[e])'
    BY <1>6 DEF At
  <2>4. NoneTaken
    BY <1>6 DEF NoneTaken, TreeOf
  <2>5. QED
    BY <1>1, <2>1, <2>2, <2>3, <2>4, OneMidway
<1>7. CASE Stage(e)
  <2>1. UNCHANGED <<work, store, head, tracking, remote>> /\ index' = work
        /\ ~Midway(e) /\ pc'[e] # "force"
    BY <1>2, <1>7 DEF Stage, Goto, At, Midway
  <2>2. Rooted' /\ History(Edit)' /\ (index.edits \subseteq work.edits)'
    BY <1>3, <2>1 DEF Rooted, History, Keeps
  <2>3. (TreeOf(head).edits \subseteq index.edits)'
    BY <1>3, <1>4, <2>1 DEF TreeOf
  <2>4. (At(e, "force") => remote = lease[e])' /\ NoneTaken
    BY <2>1 DEF At, NoneTaken, TreeOf
  <2>5. QED
    BY <1>1, <2>2, <2>3, <2>4, OneMidway
<1>8. CASE Commit(e)
  <2>1. /\ UNCHANGED <<work, index, tracking, remote>> /\ ~Midway(e) /\ pc'[e] # "force"
        /\ store' = NewCommit(index) /\ head' = WithNew(head)
    BY <1>2, <1>8 DEF Commit, Goto, At, Midway
  <2>2. \A c \in head : store[c].edits \cap Edit \subseteq index.edits
    BY <1>3, <1>4, <2>1 DEF History, Keeps, TreeOf
  <2>3. History(Edit)' /\ TreeOf(head)' = index /\ TreeOf(remote)' = TreeOf(remote)
    BY <1>3, <1>5, <2>1, <2>2, CommitKeeps DEF TypeOK
  <2>4. Rooted' /\ (index.edits \subseteq work.edits)' /\ (TreeOf(head).edits \subseteq index.edits)'
    BY <1>3, <2>1, <2>3 DEF Rooted, WithNew
  <2>5. (At(e, "force") => remote = lease[e])' /\ NoneTaken
    BY <2>1, <2>3 DEF At, NoneTaken
  <2>6. QED
    BY <1>1, <2>3, <2>4, <2>5, OneMidway
<1>9. CASE Fetch(e) \/ Lease(e)
  <2>1. /\ UNCHANGED <<work, index, store, head, remote, lease>> /\ tracking' = remote /\ ~Midway(e)
        /\ pc'[e] = "force" => remote = lease[e]
    BY <1>2, <1>9 DEF Fetch, Lease, Goto, End, At, Midway
  <2>2. Rooted' /\ History(Edit)' /\ (index.edits \subseteq work.edits)'
    BY <1>3, <2>1 DEF Rooted, History, Keeps
  <2>3. (TreeOf(head).edits \subseteq index.edits)'
    BY <1>4, <2>1 DEF TreeOf
  <2>4. (At(e, "force") => remote = lease[e])' /\ NoneTaken
    BY <2>1 DEF At, NoneTaken, TreeOf
  <2>5. QED
    BY <1>1, <2>2, <2>3, <2>4, OneMidway
<1>10. CASE FastForward(e) \/ Reset(e)
  <2>1. UNCHANGED <<work, index, store, tracking, remote>> /\ head' = tracking /\ Midway(e)'
    BY <1>2, <1>10 DEF FastForward, Reset, Goto, At, Midway
  <2>2. Rooted' /\ History(Edit)' /\ (index.edits \subseteq work.edits)'
    BY <1>3, <2>1 DEF Rooted, History, Keeps
  <2>3. (At(e, "force") => remote = lease[e])' /\ NoneTaken
    BY <2>1 DEF Midway, At, NoneTaken, TreeOf
  <2>4. QED
    BY <1>1, <2>1, <2>2, <2>3, OneMidway
<1>11. CASE Merge(e)
  <2>1. \A x \in Edit : x \in TreeOf(head).edits \/ x \in TreeOf(tracking).edits => x \in Merged
    BY <1>3, MergeKeeps
  <2>2. UNCHANGED <<tracking, remote>>
    BY <1>11 DEF Merge
  <2>3. CASE ~Conflicts(TreeOf(head).edits, TreeOf(tracking).edits, Base.edits)
    <3> DEFINE t == [edits |-> Merged, marked |-> TreeOf(head).marked \/ TreeOf(tracking).marked]
               b == head \cup tracking
    <3>1. t \in Tree /\ t.edits = Merged
      BY <1>5, MergedType DEF Tree
    <3>2. b \in SUBSET (1 .. Len(store)) /\ 1 \in b
      BY <1>3, <1>5 DEF Rooted
    <3>3. store' = NewCommit(t) /\ head' = WithNew(b) /\ UNCHANGED <<work, index>> /\ Midway(e)'
      BY <1>2, <1>11, <2>3 DEF Merge, Goto, Midway, At
    <3>4. \A c \in b : store[c].edits \cap Edit \subseteq t.edits
      <4>1. ASSUME NEW c \in b, NEW x \in Edit, x \in store[c].edits PROVE x \in Merged
        BY <1>3, <2>1, <4>1 DEF History, Keeps, TreeOf
      <4>2. QED
        BY <3>1, <4>1
    <3> HIDE DEF t, b
    <3>5. History(Edit)' /\ TreeOf(remote)' = TreeOf(remote)
      BY <1>3, <2>2, <3>1, <3>2, <3>3, <3>4, CommitKeeps
    <3>6. Rooted' /\ (index.edits \subseteq work.edits)'
      BY <1>3, <2>2, <3>2, <3>3 DEF Rooted, WithNew
    <3>7. (At(e, "force") => remote = lease[e])' /\ NoneTaken
      BY <3>3, <3>5 DEF Midway, At, NoneTaken
    <3>8. QED
      BY <1>1, <3>3, <3>5, <3>6, <3>7, OneMidway
  <2>4. CASE Conflicts(TreeOf(head).edits, TreeOf(tracking).edits, Base.edits)
    <3>1. /\ work' = [edits |-> Merged, marked |-> TRUE] /\ index' = work'
          /\ UNCHANGED <<store, head>> /\ pc'[e] = "ask"
      BY <1>2, <1>11, <2>4 DEF Merge, Goto
    <3>2. Rooted' /\ History(Edit)' /\ (index.edits \subseteq work.edits)'
      BY <1>3, <2>2, <3>1 DEF Rooted, History, Keeps
    <3>3. TreeOf(head).edits \subseteq Edit
      BY <1>5 DEF Tree
    <3>4. (TreeOf(head).edits \subseteq index.edits)'
      BY <2>1, <3>1, <3>3 DEF TreeOf
    <3>5. (At(e, "force") => remote = lease[e])' /\ NoneTaken
      BY <2>2, <3>1 DEF At, NoneTaken, TreeOf
    <3>6. QED
      BY <1>1, <3>2, <3>4, <3>5, OneMidway
  <2>5. QED
    BY <2>3, <2>4
<1>12. CASE Checkout(e)
  <2>1. /\ UNCHANGED <<store, head, tracking, remote>>
        /\ work' = TreeOf(head) /\ index' = TreeOf(head) /\ pc'[e] # "force"
    BY <1>2, <1>12, Places DEF Checkout, Goto
  <2>2. Rooted' /\ History(Edit)' /\ (index.edits \subseteq work.edits)'
    BY <1>3, <2>1 DEF Rooted, History, Keeps
  <2>3. (TreeOf(head).edits \subseteq index.edits)' /\ (At(e, "force") => remote = lease[e])' /\ NoneTaken
    BY <2>1 DEF TreeOf, At, NoneTaken
  <2>4. QED
    BY <1>1, <2>2, <2>3, OneMidway
<1>13. CASE Push(e) \/ ForcePush(e)
  <2>1. /\ UNCHANGED <<work, index, store, head, lease>> /\ ~Midway(e) /\ pc'[e] # "force"
        /\ \/ remote' = head /\ tracking' = head /\ (remote \subseteq head \/ At(e, "force"))
           \/ UNCHANGED <<remote, tracking>>
    BY <1>2, <1>13 DEF Push, ForcePush, Goto, End, At, Midway
  <2>2. Rooted' /\ History(Edit)' /\ (index.edits \subseteq work.edits)'
    BY <1>3, <2>1 DEF Rooted, History, Keeps
  <2>3. (TreeOf(head).edits \subseteq index.edits)' /\ (At(e, "force") => remote = lease[e])'
    BY <1>4, <2>1 DEF TreeOf, At
  <2>4. ASSUME remote \subseteq head PROVE TreeOf(remote).edits \subseteq TreeOf(head).edits
    <3>1. Max(remote) \in remote /\ TreeOf(remote).edits \subseteq Edit
      BY TreeType DEF Tree
    <3>2. QED
      BY <1>3, <2>4, <3>1 DEF History, Keeps, TreeOf
  <2>5. At(e, "force") => remote = lease[e]
    BY DEF TheirsInv
  <2>6. NoneTaken
    BY <2>1, <2>4, <2>5 DEF NoneTaken, TreeOf
  <2>7. QED
    BY <1>1, <2>2, <2>3, <2>6, OneMidway
<1>14. CASE Count(e) \/ PushMerged(e) \/ KeepMine(e) \/ TakeRemote(e) \/ Block(e)
  <2>1. UNCHANGED <<work, index, store, head, tracking, remote>> /\ ~Midway(e) /\ pc'[e] # "force"
    BY <1>2, <1>14 DEF Count, PushMerged, KeepMine, TakeRemote, Block, Goto, End, At, Midway, repo
  <2>2. QED
    BY <1>6, <2>1
<1>15. CASE Fail(e)
  <2>1. UNCHANGED <<work, index, store, head, tracking, remote>> /\ MayFail(pc[e]) \cap Env # {}
        /\ \E s \in Status : End(e, s)
    BY <1>15 DEF Fail, repo, Status
  <2>2. MayFail("co_push") = {"local"} /\ MayFail("co_done") = {"local"}
    BY Places DEF MayFail
  <2>3. ~Midway(e)
    BY <2>1, <2>2 DEF Midway, At, Whole
  <2>4. pc'[e] = "settle"
    BY <1>2, <2>1 DEF End, Goto
  <2>5. QED
    BY <1>6, <2>1, <2>3, <2>4
<1>16. CASE MergedByPolicy(e)
  <2>1. /\ UNCHANGED <<index, store, head, tracking, remote>> /\ ~Midway(e) /\ pc'[e] # "force"
        /\ work' = [work EXCEPT !.marked = FALSE]
    BY <1>2, <1>16 DEF MergedByPolicy, Goto, At, Midway
  <2>2. work'.edits = work.edits
    BY <2>1 DEF TypeOK, Tree
  <2>3. Rooted' /\ History(Edit)' /\ (index.edits \subseteq work.edits)'
    BY <1>3, <2>1, <2>2 DEF Rooted, History, Keeps
  <2>4. (TreeOf(head).edits \subseteq index.edits)' /\ (At(e, "force") => remote = lease[e])' /\ NoneTaken
    BY <1>4, <2>1 DEF TreeOf, At, NoneTaken
  <2>5. QED
    BY <1>1, <2>3, <2>4, OneMidway
<1>17. QED
  BY <1>7, <1>8, <1>9, <1>10, <1>11, <1>12, <1>13, <1>14, <1>15, <1>16

LEMMA TheirsInit == Init => TheirsInv
<1> SUFFICES ASSUME Init PROVE TheirsInv
  OBVIOUS
<1>1. /\ head = {1} /\ tracking = {1} /\ remote = {1} /\ store = <<Empty>>
      /\ work = Empty /\ index = Empty /\ \A e \in Engine : pc[e] = "off"
  BY DEF Init
<1>2. Max({1}) = 1
  BY DEF Max
<1>3. QED
  BY <1>1, <1>2 DEF TheirsInv, Rooted, History, Keeps, At, TreeOf

LEMMA TheirsStep ==
  ASSUME Whole, "race" \notin Env, TypeOK, SchedInv, TheirsInv, [Next]_vars
  PROVE  TheirsInv' /\ NoneTaken
<1>1. CASE UNCHANGED vars
  BY <1>1 DEF vars, local, repo, TheirsInv, Rooted, History, Keeps, Midway, At, TreeOf, NoneTaken
<1>2. CASE Next
  BY <1>2, TheirsEnvironment, TheirsRun DEF Next, Run
<1>3. QED
  BY <1>1, <1>2

(* Nothing a collaborator has pushed leaves the remote but by the user who    *)
(* kept his side knowing of it (force-with-lease.ts), if no push lands        *)
(* between the lease and the forced push, and no write of a branch is left    *)
(* without its checkout.                                                      *)
THEOREM TheirEditsAreKept ==
  ASSUME Whole, "race" \notin Env
  PROVE  Spec => TheirsKept
<1>1. OneRun
  BY DEF Whole
<1>2. Init => TypeOK /\ SchedInv /\ TheirsInv
  BY TypeInit, SchedInit, TheirsInit
<1>3. TypeOK /\ SchedInv /\ TheirsInv /\ [Next]_vars => (TypeOK /\ SchedInv /\ TheirsInv)'
  BY <1>1, TypeStep, SchedStep, TheirsStep
<1>4. TypeOK /\ SchedInv /\ TheirsInv /\ [Next]_vars => [NoneTaken]_vars
  BY TheirsStep
<1>5. Spec => [][NoneTaken]_vars
  BY <1>2, <1>3, <1>4, PTL DEF Spec
<1>6. QED
  BY <1>5, PTL DEF TheirsKept, NoneTaken

-----------------------------------------------------------------------------
(* Conflict markers. *)

\* Where a run is while the working tree holds the markers of its conflict, and
\* while the index does.
Marking == {"ask", "co_lease", "reset", "co_done"}

MarksInv ==
  /\ \A c \in 1 .. Len(store) : ~store[c].marked
  /\ work.marked => \E e \in Engine : pc[e] \in Marking
  /\ index.marked => \E e \in Engine : pc[e] \in Marking \cup {"restage"}

LEMMA MarksNew ==
  ASSUME TypeOK, MarksInv, NEW t \in Tree, ~t.marked, store' = NewCommit(t)
  PROVE  \A c \in 1 .. Len(store') : ~store'[c].marked
<1>1. /\ Len(store') = Len(store) + 1 /\ store'[Len(store) + 1] = t /\ Len(store) \in Nat
      /\ \A c \in 1 .. Len(store) : store'[c] = store[c]
  BY NewCommitType DEF TypeOK
<1>2. QED
  BY <1>1 DEF MarksInv

LEMMA MarksStep ==
  ASSUME Whole, "block" \notin Env, TypeOK, SchedInv, MarksInv, [Next]_vars
  PROVE  MarksInv'
<1>1. \A b \in {head, tracking, remote} : TreeOf(b) \in Tree /\ ~TreeOf(b).marked
  BY TreeType DEF MarksInv, TreeOf
<1>2. pc \in [Engine -> PC] /\ index \in Tree /\ work \in Tree
  BY DEF TypeOK
\* No run moves into or out of a place with markers.
<1>3. ASSUME \A e \in Engine : pc[e] \in Marking \cup {"restage"} => pc'[e] = pc[e],
             UNCHANGED <<store, index>>, work'.marked = work.marked
      PROVE  MarksInv'
  BY <1>3 DEF MarksInv, Marking
<1>4. ASSUME NEW m \in Mine, Save(m) PROVE MarksInv'
  <2>1. UNCHANGED <<store, index, pc>> /\ work' = [work EXCEPT !.edits = @ \cup {m}]
    BY <1>4 DEF Save
  <2>2. work'.marked = work.marked
    BY <1>2, <2>1 DEF Tree
  <2>3. QED
    BY <1>3, <2>1, <2>2
<1>5. ASSUME NEW t \in Theirs, Collaborate(t) PROVE MarksInv'
  <2> DEFINE u == [TreeOf(remote) EXCEPT !.edits = @ \cup {t}]
  <2>1. u \in Tree /\ ~u.marked
    BY <1>1 DEF Tree, Edit
  <2>2. store' = NewCommit(u) /\ UNCHANGED <<work, index, pc>>
    BY <1>5 DEF Collaborate, local
  <2> HIDE DEF u
  <2>3. QED
    BY <2>1, <2>2, MarksNew DEF MarksInv
<1>6. ~Reload
  BY DEF Reload, Whole
<1>7. ASSUME NEW e \in Engine, Create(e) \/ Dispose(e) \/ TimerFires(e) \/ Settle(e)
      PROVE  MarksInv'
  <2>1. UNCHANGED <<store, index, work>>
    BY <1>7 DEF Create, Dispose, TimerFires, Settle, repo
  <2>2. pc' = pc \/ (pc[e] \in {"off", "settle"} /\ \E p \in {"off", "stage"} : pc' = [pc EXCEPT ![e] = p])
    BY <1>7 DEF Create, Dispose, TimerFires, Settle, Begin, Goto, At
  <2>3. QED
    BY <1>2, <1>3, <2>1, <2>2 DEF Marking
<1>8. ASSUME NEW e \in Engine,
             \/ Stage(e) \/ Commit(e) \/ Fetch(e) \/ Count(e) \/ FastForward(e) \/ Merge(e)
             \/ Checkout(e) \/ Push(e) \/ Lease(e) \/ ForcePush(e) \/ Reset(e) \/ PushMerged(e)
             \/ Fail(e) \/ KeepMine(e) \/ TakeRemote(e) \/ MergedByPolicy(e)
      PROVE  MarksInv'
  <2>1. Moves(e)
    BY <1>8, RunMoves
  <2>2. \A d \in Engine \ {e} : pc[d] = "off"
    BY <2>1 DEF SchedInv, Alone, Moves
  <2>3. /\ \A c \in 1 .. Len(store) : ~store[c].marked
        /\ work.marked => pc[e] \in Marking
        /\ index.marked => pc[e] \in Marking \cup {"restage"}
    BY <2>2 DEF MarksInv, Marking
  <2>4. SUFFICES /\ \A c \in 1 .. Len(store') : ~store'[c].marked
                 /\ work'.marked => pc'[e] \in Marking
                 /\ index'.marked => pc'[e] \in Marking \cup {"restage"}
    BY DEF MarksInv
  <2> USE DEF Marking
  <2>5. CASE Stage(e)
    BY <1>2, <2>3, <2>5 DEF Stage, At
  <2>6. CASE Commit(e)
    <3>1. store' = NewCommit(index) /\ UNCHANGED <<work, index>> /\ ~index.marked /\ ~work.marked
      BY <2>3, <2>6 DEF Commit, At
    <3>2. QED
      BY <1>2, <3>1, MarksNew
  <2>7. CASE Fetch(e) \/ Count(e) \/ FastForward(e) \/ Push(e) \/ Lease(e) \/ ForcePush(e)
             \/ PushMerged(e) \/ KeepMine(e) \/ TakeRemote(e) \/ Reset(e)
    <3>1. UNCHANGED <<store, work, index>>
      BY <2>7 DEF Fetch, Count, FastForward, Push, Lease, ForcePush, PushMerged, KeepMine,
                  TakeRemote, Reset, repo
    <3>2. pc[e] \in Marking \cup {"restage"} => pc'[e] \in Marking
      BY <1>2, <2>7 DEF Fetch, Count, FastForward, Push, Lease, ForcePush, PushMerged, KeepMine,
                        TakeRemote, Reset, At, Goto
    <3>3. QED
      BY <2>3, <3>1, <3>2
  <2>8. CASE Merge(e)
    <3>1. CASE ~Conflicts(TreeOf(head).edits, TreeOf(tracking).edits, Base.edits)
      <4> DEFINE t == [edits |-> Merged, marked |-> TreeOf(head).marked \/ TreeOf(tracking).marked]
      <4>1. t \in Tree /\ ~t.marked
        BY <1>1, MergedType DEF Tree
      <4>2. store' = NewCommit(t) /\ UNCHANGED <<work, index>> /\ ~index.marked /\ ~work.marked
        BY <2>3, <2>8, <3>1 DEF Merge, At
      <4> HIDE DEF t
      <4>3. QED
        BY <4>1, <4>2, MarksNew
    <3>2. CASE Conflicts(TreeOf(head).edits, TreeOf(tracking).edits, Base.edits)
      <4>1. UNCHANGED store /\ pc'[e] = "ask"
        BY <1>2, <2>8, <3>2 DEF Merge, Goto
      <4>2. QED
        BY <2>3, <4>1
    <3>3. QED
      BY <3>1, <3>2
  <2>9. CASE Checkout(e)
    BY <1>1, <2>3, <2>9 DEF Checkout
  <2>10. CASE Fail(e)
    <3>1. \A p \in Marking \cup {"restage"} : MayFail(p) \subseteq {"local"}
      BY Places DEF MayFail
    <3>2. UNCHANGED <<store, work, index>> /\ MayFail(pc[e]) \cap Env # {}
      BY <2>10 DEF Fail, repo
    <3>3. pc[e] \notin Marking \cup {"restage"}
      BY <3>1, <3>2 DEF Whole
    <3>4. QED
      BY <2>3, <3>2, <3>3
  <2>11. CASE MergedByPolicy(e)
    <3>1. ~work'.marked /\ UNCHANGED <<store, index>> /\ pc'[e] = "restage"
      BY <1>2, <2>11 DEF MergedByPolicy, Goto, Tree
    <3>2. QED
      BY <2>3, <3>1
  <2>12. QED
    BY <1>8, <2>5, <2>6, <2>7, <2>8, <2>9, <2>10, <2>11
<1>9. CASE UNCHANGED vars
  <2>1. UNCHANGED <<store, work, index, pc>>
    BY <1>9 DEF vars, repo, local
  <2>2. QED
    BY <2>1 DEF MarksInv
<1>10. QED
  BY <1>4, <1>5, <1>6, <1>7, <1>8, <1>9 DEF Next, Run, Block

(* No conflict marker is ever pushed, raced or not: keeping one's side        *)
(* discards them (engine.ts, handleConflict), if the policy answers and every *)
(* answer is carried out.                                                     *)
THEOREM NoMarkerIsPushed ==
  ASSUME Whole, "block" \notin Env
  PROVE  Spec => []MarkersNeverPushed
<1>1. OneRun
  BY DEF Whole
<1>2. Init => TypeOK /\ SchedInv /\ MarksInv
  <2>1. Init => MarksInv
    BY DEF Init, MarksInv, Empty
  <2>2. QED
    BY <2>1, TypeInit, SchedInit
<1>3. TypeOK /\ SchedInv /\ MarksInv /\ [Next]_vars => (TypeOK /\ SchedInv /\ MarksInv)'
  BY <1>1, TypeStep, SchedStep, MarksStep
<1>4. TypeOK /\ MarksInv => MarkersNeverPushed
  BY DEF TypeOK, MarksInv, MarkersNeverPushed
<1>5. QED
  BY <1>2, <1>3, <1>4, PTL DEF Spec

-----------------------------------------------------------------------------
(* No saved edit is forgotten. *)

\* The user stays: the workspace is neither left nor reloaded.
Stays == "switch" \notin Env /\ "reload" \notin Env

\* A save with no engine there is remembered until there is one.
Remembered ==
  /\ \A e \in Engine : life[e] # "gone"
  /\ (\A e \in Engine : life[e] # "live") => \A m \in Mine : Uncommitted(m) => pendingDirty

AttendInv == Remembered /\ NoEditForgotten

\* A run leaves a save with whoever has to take it: what it does not commit
\* itself was there before the step, and was attended then.
LEMMA RunAttends ==
  ASSUME TypeOK, SchedInv, OwnInv, AttendInv, NEW e \in Engine,
         \/ Stage(e) \/ Commit(e) \/ Fetch(e) \/ Count(e) \/ FastForward(e) \/ Merge(e)
         \/ Checkout(e) \/ Push(e) \/ Lease(e) \/ ForcePush(e) \/ Reset(e) \/ PushMerged(e)
         \/ Fail(e) \/ KeepMine(e) \/ TakeRemote(e) \/ Block(e) \/ MergedByPolicy(e)
  PROVE  \A m \in Mine : Uncommitted(m)' /\ life[e] = "live" => Attended(e, m)'
<1> SUFFICES ASSUME NEW m \in Mine, Uncommitted(m)', life[e] = "live" PROVE Attended(e, m)'
  OBVIOUS
<1>0. /\ pc[e] # "off" /\ pc'[e] # "off" /\ UNCHANGED <<timer, again>>
      /\ pc \in [Engine -> PC] /\ status \in [Engine -> Status]
  <2>1. Moves(e)
    BY RunMoves
  <2>2. UNCHANGED again
    BY DEF Stage, Commit, Fetch, Count, FastForward, Merge, Checkout, Push, Lease, ForcePush, Reset,
       PushMerged, Fail, KeepMine, TakeRemote, Block, MergedByPolicy
  <2>3. QED
    BY <2>1, <2>2 DEF Moves, Goto, TypeOK
<1>1. Harmless /\ Placed(e)'
  BY OwnRun DEF OwnInv
\* A timer or a request for another run outlasts the step.
<1>2. CASE timer[e] \/ again[e]
  BY <1>0, <1>2 DEF Attended, At
<1>3. CASE ~timer[e] /\ ~again[e]
  <2>1. Uncommitted(m) =>
          \/ pc[e] \in {"stage", "restage"}
          \/ pc[e] \in {"commit", "recommit"} /\ m \in index.edits
          \/ At(e, "co_done")
          \/ At(e, "settle")
    BY <1>0, <1>3 DEF AttendInv, NoEditForgotten, Attended, At
  <2>2. CASE Stage(e)
    <3>1. /\ UNCHANGED <<work, store, head>> /\ index' = work
          /\ pc'[e] \in {"commit", "recommit"} \/ index' = TreeOf(head)
      BY <1>0, <2>2 DEF Stage, Goto, At
    <3>2. m \in index'.edits
      BY <3>1 DEF Uncommitted
    <3>3. index' # TreeOf(head)
      BY <3>1, <3>2 DEF Uncommitted, TreeOf
    <3>4. QED
      BY <3>1, <3>2, <3>3 DEF Attended
  <2>3. CASE Commit(e)
    <3>1. UNCHANGED work /\ store' = NewCommit(index) /\ head' = WithNew(head) /\ pc[e] \in {"commit", "recommit"}
      BY <2>3 DEF Commit, At
    <3>2. TreeOf(head)' = index
      <4>1. head \in SUBSET (1 .. Len(store)) /\ store \in Seq(Tree) /\ index \in Tree
        BY BranchType DEF TypeOK
      <4>2. Max(WithNew(head)) = Len(store) + 1
        BY <4>1, TipOfNew
      <4>3. NewCommit(index)[Len(store) + 1] = index
        BY <4>1, NewCommitType
      <4>4. QED
        BY <3>1, <4>2, <4>3 DEF TreeOf
    <3>3. Uncommitted(m)
      <4>1. m \in TreeOf(head).edits => m \in TreeOf(head)'.edits
        <5>1. \A d \in Engine : ~At(d, "reset")
          <6>1. \A d \in Engine \ {e} : pc[d] = "off"
            BY <1>0 DEF SchedInv, Alone
          <6>2. QED
            BY <3>1, <6>1 DEF At
        <5>2. QED
          BY <1>1, <5>1 DEF Harmless, NoneForgotten
      <4>2. QED
        BY <3>1, <4>1 DEF Uncommitted
    <3>4. FALSE
      BY <2>1, <3>1, <3>2, <3>3 DEF Uncommitted, At
    <3>5. QED
      BY <3>4
  <2>4. CASE FastForward(e)
    <3>1. UNCHANGED work /\ pc[e] = "ff"
      BY <2>4 DEF FastForward, At
    <3>2. \A d \in Engine : ~At(d, "reset")
      <4>1. \A d \in Engine \ {e} : pc[d] = "off"
        BY <1>0 DEF SchedInv, Alone
      <4>2. QED
        BY <3>1, <4>1 DEF At
    <3>3. Uncommitted(m)
      BY <1>1, <3>1, <3>2 DEF Harmless, NoneForgotten, Uncommitted
    <3>4. QED
      BY <2>1, <3>1, <3>3 DEF At
  <2>5. CASE Merge(e)
    <3>1. pc[e] = "merge"
      BY <2>5 DEF Merge, At
    <3>2. \A d \in Engine : ~At(d, "reset")
      <4>1. \A d \in Engine \ {e} : pc[d] = "off"
        BY <1>0 DEF SchedInv, Alone
      <4>2. QED
        BY <3>1, <4>1 DEF At
    <3>3. CASE UNCHANGED work
      <4>1. Uncommitted(m)
        BY <1>1, <3>2, <3>3 DEF Harmless, NoneForgotten, Uncommitted
      <4>2. QED
        BY <2>1, <3>1, <4>1 DEF At
    \* A merge that conflicts mixes committed edits only.
    <3>4. CASE ~UNCHANGED work
      <4>1. index' = work' /\ UNCHANGED <<store, head>> /\ pc'[e] = "ask"
        BY <1>0, <2>5, <3>4 DEF Merge, Goto
      <4>2. m \in Own(index') /\ m \notin TreeOf(head)'.edits
        BY <4>1 DEF Uncommitted, Own
      <4>3. Own(index') \subseteq TreeOf(head)'.edits
        BY <1>1, <4>1 DEF Placed, Committed, Own
      <4>4. QED
        BY <4>2, <4>3
    <3>5. QED
      BY <3>3, <3>4
  <2>6. CASE Checkout(e)
    BY <2>6 DEF Checkout, Uncommitted, TreeOf
  <2>7. CASE Reset(e)
    BY <1>0, <2>7 DEF Reset, Attended, At, Goto
  <2>8. CASE Fetch(e) \/ Count(e) \/ Push(e) \/ Lease(e) \/ ForcePush(e) \/ KeepMine(e) \/ TakeRemote(e) \/ PushMerged(e)
    <3>1. UNCHANGED <<work, store, head>>
      BY <2>8 DEF Fetch, Count, Push, Lease, ForcePush, KeepMine, TakeRemote, PushMerged, repo
    <3>2. pc[e] \in {"fetch", "count", "push", "lease", "force", "ask", "repush"}
      BY <2>8 DEF Fetch, Count, Push, Lease, ForcePush, KeepMine, TakeRemote, PushMerged, At
    <3>3. QED
      BY <2>1, <3>1, <3>2 DEF Uncommitted, TreeOf, At
  <2>9. CASE Fail(e) \/ Block(e)
    <3>1. \E s \in {"auth", "no_push_access", "offline", "conflict"} : End(e, s)
      BY <2>9 DEF Fail, Block
    <3>2. pc'[e] = "settle" /\ status'[e] \in {"auth", "no_push_access", "offline", "conflict"}
      BY <1>0, <3>1 DEF End, Goto, Emit
    <3>3. QED
      BY <3>2 DEF Attended, Stopped
  <2>10. CASE MergedByPolicy(e)
    BY <1>0, <2>10 DEF MergedByPolicy, Attended, Goto
  <2>11. QED
    BY <2>2, <2>3, <2>4, <2>5, <2>6, <2>7, <2>8, <2>9, <2>10
<1>4. QED
  BY <1>2, <1>3 DEF TypeOK

LEMMA AttendStep ==
  ASSUME Stays, TypeOK, SchedInv, OwnInv, AttendInv, [Next]_vars
  PROVE  AttendInv'
<1> USE DEF Stays
<1>0. /\ pc \in [Engine -> PC] /\ status \in [Engine -> Status] /\ timer \in [Engine -> BOOLEAN]
      /\ again \in [Engine -> BOOLEAN] /\ life \in [Engine -> {"new", "live", "gone"}]
  BY DEF TypeOK
<1>1. ASSUME NEW s \in Mine, Save(s) PROVE AttendInv'
  <2>1. /\ UNCHANGED life
        /\ \A e \in Engine : life[e] = "live" => timer'[e]
        /\ (\A e \in Engine : life[e] # "live") => pendingDirty'
    BY <1>1 DEF Save
  <2>2. QED
    BY <2>1 DEF AttendInv, Remembered, NoEditForgotten, Attended
<1>2. ASSUME NEW t \in Theirs, Collaborate(t) PROVE AttendInv'
  <2>1. UNCHANGED <<work, index, local, pendingDirty>>
    BY <1>2 DEF Collaborate
  <2>2. TreeOf(head)' = TreeOf(head)
    BY <1>2, CollaborateKeeps DEF OwnInv, RepoInv
  <2>3. QED
    BY <2>1, <2>2 DEF AttendInv, Remembered, NoEditForgotten, Attended, Uncommitted, Stopped, At, local
<1>3. ASSUME NEW e \in Engine, Create(e) PROVE AttendInv'
  <2>1. /\ UNCHANGED <<repo, pc, status, again>> /\ life' = [life EXCEPT ![e] = "live"]
        /\ \A d \in Engine : life[d] # "live"
        /\ timer' = [timer EXCEPT ![e] = pendingDirty]
    BY <1>3 DEF Create
  <2>2. \A m \in Mine : Uncommitted(m)' <=> Uncommitted(m)
    BY <2>1 DEF Uncommitted, TreeOf, repo
  <2>3. \A m \in Mine : Uncommitted(m) => pendingDirty
    BY <2>1 DEF AttendInv, Remembered
  <2>4. Remembered'
    BY <1>0, <2>1 DEF AttendInv, Remembered
  <2>5. ASSUME NEW d \in Engine, NEW m \in Mine, life'[d] = "live", Uncommitted(m)' PROVE Attended(d, m)'
    <3>1. d = e /\ pendingDirty
      BY <1>0, <2>1, <2>2, <2>3, <2>5
    <3>2. timer'[e] = pendingDirty
      BY <1>0, <2>1
    <3>3. QED
      BY <3>1, <3>2 DEF Attended
  <2>6. QED
    BY <2>4, <2>5 DEF AttendInv, NoEditForgotten
<1>4. ASSUME NEW e \in Engine, TimerFires(e) PROVE AttendInv'
  <2>1. UNCHANGED <<repo, life, pendingDirty>> /\ timer[e]
    BY <1>4 DEF TimerFires
  <2>2. \A m \in Mine : Uncommitted(m)' <=> Uncommitted(m)
    BY <2>1 DEF Uncommitted, TreeOf, repo
  <2>3. \/ pc' = pc /\ pc[e] # "off" /\ again'[e]
        \/ pc'[e] = "stage"
    BY <1>0, <1>4 DEF TimerFires, Begin, Goto, At
  <2>4. \A d \in Engine \ {e} : life[d] # "live"
    BY <2>1 DEF SchedInv, Scheduled, OneLive
  <2>5. QED
    BY <2>1, <2>2, <2>3, <2>4 DEF AttendInv, Remembered, NoEditForgotten, Attended, At
<1>5. ASSUME NEW e \in Engine, Settle(e) PROVE AttendInv'
  <2>1. UNCHANGED <<repo, life, pendingDirty>> /\ pc[e] = "settle"
    BY <1>5 DEF Settle, At
  <2>2. \A m \in Mine : Uncommitted(m)' <=> Uncommitted(m)
    BY <2>1 DEF Uncommitted, TreeOf, repo
  <2>3. \/ pc'[e] = "stage"
        \/ pc'[e] = "off" /\ ~again[e] /\ UNCHANGED <<timer, status>>
    BY <1>0, <1>5 DEF Settle, Begin, Goto
  <2>4. \A d \in Engine \ {e} : life[d] # "live"
    BY <2>1 DEF SchedInv, Scheduled, OneLive
  <2>5. \A m \in Mine : life[e] = "live" /\ Uncommitted(m) => Attended(e, m)'
    BY <2>1, <2>3 DEF AttendInv, NoEditForgotten, Attended, At, Stopped
  <2>6. QED
    BY <2>1, <2>2, <2>4, <2>5 DEF AttendInv, Remembered, NoEditForgotten
<1>6. ASSUME NEW e \in Engine,
             \/ Stage(e) \/ Commit(e) \/ Fetch(e) \/ Count(e) \/ FastForward(e) \/ Merge(e)
             \/ Checkout(e) \/ Push(e) \/ Lease(e) \/ ForcePush(e) \/ Reset(e) \/ PushMerged(e)
             \/ Fail(e) \/ KeepMine(e) \/ TakeRemote(e) \/ Block(e) \/ MergedByPolicy(e)
      PROVE  AttendInv'
  <2>1. pc[e] # "off" /\ UNCHANGED <<life, pendingDirty>>
    BY <1>6, RunMoves DEF Moves
  <2>2. \A d \in Engine : life[d] = "live" => d = e
    BY <2>1 DEF SchedInv, Scheduled, OneLive
  <2>3. life[e] = "live"
    BY <2>1 DEF SchedInv, Scheduled
  <2>4. \A m \in Mine : Uncommitted(m)' /\ life[e] = "live" => Attended(e, m)'
    BY <1>6, RunAttends
  <2>5. QED
    BY <2>1, <2>2, <2>3, <2>4 DEF AttendInv, Remembered, NoEditForgotten
<1>7. CASE UNCHANGED vars
  BY <1>7 DEF vars, repo, local, AttendInv, Remembered, NoEditForgotten, Uncommitted, Attended, Stopped, At, TreeOf
<1>8. QED
  BY <1>1, <1>2, <1>3, <1>4, <1>5, <1>6, <1>7 DEF Next, Run, Dispose, Reload

(* While the user stays in the workspace, a saved edit is always attended to: *)
(* at every moment, under every fault and every policy, a timer, a request    *)
(* for another run or a run that has yet to take it is there, or the engine   *)
(* has stopped with a message (engine.ts: scheduleSync, syncNow, pendingSync; *)
(* git-sync.ts: notifySyncOnSave).  That the timer fires is left to the runs. *)
THEOREM NoEditIsForgotten ==
  ASSUME Stays
  PROVE  Spec => []NoEditForgotten
<1>1. OneRun
  BY DEF Stays, OneRun
<1>2. Init => AttendInv
  <2>1. ASSUME Init, NEW m \in Mine PROVE ~Uncommitted(m)
    <3>1. work = Empty
      BY <2>1 DEF Init
    <3>2. QED
      BY <3>1 DEF Uncommitted, Empty
  <2>2. QED
    BY <2>1 DEF Init, AttendInv, Remembered, NoEditForgotten
<1>3. (TypeOK /\ SchedInv /\ OwnInv /\ AttendInv) /\ [Next]_vars => AttendInv'
  BY AttendStep
<1>4. AttendInv => NoEditForgotten
  BY DEF AttendInv
<1>5. Spec => [](TypeOK /\ SchedInv /\ OwnInv)
  BY <1>1, OwnAlways
<1>6. QED
  BY <1>2, <1>3, <1>4, <1>5, PTL DEF Spec
=============================================================================
