------------------------ MODULE InstanceStoreProofs ------------------------
(***************************************************************************)
(* Proofs about InstanceStore for any instances, workspaces and bounds.    *)
(***************************************************************************)
EXTENDS InstanceStore, TLAPS

Bounds == MaxVersion \in Nat /\ MaxOpens \in Nat /\ MaxFaults \in Nat

-----------------------------------------------------------------------------
(* Types. *)

(* Asking and answering keep the types of what they change. *)
LEMMA ValidateType ==
  ASSUME StoreTypeOK, instances' \in [Ids -> Version], NEW S \in SUBSET Ids, Validate(S)
  PROVE  latest' \in [Ids -> Nat] /\ pending' \subseteq Question
<1>1. latest' \in [Ids -> Nat]
  BY DEF Validate, StoreTypeOK
<1>2. \A i \in S : [of |-> i, ver |-> instances'[i], n |-> latest'[i]] \in Question
  BY <1>1 DEF Question
<1>3. QED
  BY <1>1, <1>2 DEF Validate, StoreTypeOK

LEMMA PersistType ==
  ASSUME StoreTypeOK, NEW i \in Ids, NEW v \in Version, Persist(i, v)
  PROVE  ops' \in [Ids -> Seq(Op)] /\ saved' \in [Workspaces -> [Ids -> Version]]
<1>1. CASE root = NoRoot
  BY <1>1 DEF Persist, StoreTypeOK
<1>2. CASE root # NoRoot
  <2>1. [root |-> root, ver |-> v] \in Op
    BY <1>2 DEF Op, StoreTypeOK
  <2>2. Append(ops[i], [root |-> root, ver |-> v]) \in Seq(Op)
    BY <2>1 DEF StoreTypeOK
  <2>3. ops' \in [Ids -> Seq(Op)]
    BY <1>2, <2>2 DEF Persist, StoreTypeOK
  <2>4. root \in Workspaces /\ saved \in [Workspaces -> [Ids -> Version]]
    BY <1>2 DEF StoreTypeOK
  <2>5. [saved[root] EXCEPT ![i] = v] \in [Ids -> Version]
    BY <2>4
  <2>6. saved' = [saved EXCEPT ![root] = [saved[root] EXCEPT ![i] = v]]
    BY <1>2 DEF Persist
  <2>7. QED
    BY <2>3, <2>4, <2>5, <2>6
<1>3. QED
  BY <1>1, <1>2

LEMMA PutType ==
  ASSUME Bounds, StoreTypeOK, NEW i \in Ids, Put(i)
  PROVE  /\ version' \in [Ids -> Version] /\ instances' \in [Ids -> Version]
         /\ ops' \in [Ids -> Seq(Op)] /\ saved' \in [Workspaces -> [Ids -> Version]]
         /\ latest' \in [Ids -> Nat] /\ pending' \subseteq Question
         /\ version'[i] = version[i] + 1
<1>1. version' \in [Ids -> Version] /\ version'[i] = version[i] + 1
  BY DEF Put, StoreTypeOK, Version, Bounds
<1>2. instances' \in [Ids -> Version]
  BY <1>1 DEF Put, StoreTypeOK
<1>3. QED
  BY <1>1, <1>2, PersistType, ValidateType DEF Put

(* A load that has read one more file. *)
LEMMA LoadType ==
  ASSUME NEW l \in Load, NEW t \in SUBSET Ids, NEW g \in [Ids -> Version]
  PROVE  [l EXCEPT !.todo = t, !.got = g] \in Load
BY DEF Load

(* A load on its way, moved on by one step. *)
LEMMA StepType ==
  ASSUME StoreTypeOK, NEW l, NEW k \in Load, Step(l, k)
  PROVE  loads' \subseteq Load
BY DEF Step, StoreTypeOK

LEMMA TypeStep ==
  ASSUME Bounds, StoreTypeOK, [StoreNext]_store
  PROVE  StoreTypeOK'
<1> USE DEF StoreTypeOK
<1>1. ASSUME NEW i \in Ids, Create(i) PROVE StoreTypeOK'
  BY <1>1, PutType DEF Create
<1>2. ASSUME NEW i \in Ids, Update(i) PROVE StoreTypeOK'
  BY <1>2, PutType DEF Update
<1>3. ASSUME NEW i \in Ids, RemoveInstance(i) PROVE StoreTypeOK'
  <2>1. 0 \in Version
    BY DEF Version, Bounds
  <2>2. instances' \in [Ids -> Version]
    BY <1>3, <2>1 DEF RemoveInstance
  <2>3. QED
    BY <1>3, <2>1, <2>2, PersistType DEF RemoveInstance
<1>4. ASSUME NEW i \in Ids, NEW ok \in BOOLEAN, RunOp(i, ok) PROVE StoreTypeOK'
  <2>1. Head(ops[i]) \in Op /\ Tail(ops[i]) \in Seq(Op)
    BY <1>4 DEF RunOp
  <2>2. ops' \in [Ids -> Seq(Op)]
    BY <1>4, <2>1 DEF RunOp
  <2>3. disk' \in [Workspaces -> [Ids -> Version]]
    BY <1>4, <2>1 DEF RunOp, Op
  <2>4. faults' \in 0..MaxFaults /\ failed' \subseteq Ids
    BY <1>4 DEF RunOp, Bounds
  <2>5. QED
    BY <1>4, <2>2, <2>3, <2>4 DEF RunOp, memory
<1>5. ASSUME NEW i \in Ids, NEW l \in loads, ReadFile(l, i) PROVE StoreTypeOK'
  <2>1. [l EXCEPT !.todo = @ \ {i}, !.got = [@ EXCEPT ![i] = disk[l.root][i]]] \in Load
    <3>1. l \in Load /\ disk \in [Workspaces -> [Ids -> Version]]
      OBVIOUS
    <3>2. l.root \in Workspaces /\ l.n \in Nat /\ l.listed \in BOOLEAN
          /\ l.todo \in SUBSET Ids /\ l.got \in [Ids -> Version]
      BY <3>1 DEF Load
    <3>3. disk[l.root][i] \in Version
      BY <3>1, <3>2
    <3>4. [l.got EXCEPT ![i] = disk[l.root][i]] \in [Ids -> Version]
      BY <3>2, <3>3
    <3>5. QED
      BY <3>1, <3>2, <3>4, LoadType
  <2>2. QED
    BY <1>5, <2>1, StepType DEF ReadFile, memory, backing
<1>6. ASSUME NEW w \in Workspaces, Open(w) PROVE StoreTypeOK'
  <2>1. 0 \in Version
    BY DEF Version, Bounds
  <2>2. opens' \in 0..MaxOpens /\ opens' \in Nat
    BY <1>6 DEF Open, Bounds
  <2>3. [root |-> w, n |-> opens', listed |-> FALSE, todo |-> {}, got |-> [i \in Ids |-> 0]] \in Load
    BY <2>1, <2>2 DEF Load
  <2>4. QED
    BY <1>6, <2>1, <2>2, <2>3 DEF Open, backing
<1>7. ASSUME NEW l \in loads, List(l) PROVE StoreTypeOK'
  <2>1. [l EXCEPT !.listed = TRUE, !.todo = {i \in Ids : disk[l.root][i] # 0}] \in Load
    BY DEF Load
  <2>2. QED
    BY <1>7, <2>1, StepType DEF List, memory, backing
<1>8. ASSUME NEW l \in loads, Apply(l) PROVE StoreTypeOK'
  <2>1. instances' \in [Ids -> Version]
    BY <1>8 DEF Apply, Load
  <2>2. latest' \in [Ids -> Nat] /\ pending' \subseteq Question
    BY <1>8, <2>1, ValidateType DEF Apply
  <2>3. QED
    BY <1>8, <2>1, <2>2 DEF Apply, backing
<1>9. ASSUME NEW p \in pending, Validated(p) PROVE StoreTypeOK'
  BY <1>9 DEF Validated, Question, backing
<1>10. ASSUME UNCHANGED store PROVE StoreTypeOK'
  BY <1>10 DEF store, memory, backing
<1>11. QED
  BY <1>1, <1>2, <1>3, <1>4, <1>5, <1>6, <1>7, <1>8, <1>9, <1>10 DEF StoreNext

LEMMA TypeInit ==
  ASSUME Bounds
  PROVE  StoreInit => StoreTypeOK
BY DEF StoreInit, StoreTypeOK, Version, Bounds

(* Every variable of the store keeps its type (instance-store.ts). *)
THEOREM StoreTypeCorrect ==
  ASSUME Bounds
  PROVE  StoreSpec => []StoreTypeOK
BY TypeInit, TypeStep, PTL DEF StoreSpec

-----------------------------------------------------------------------------
(* Workspaces stay apart.  InstancesStayHome is not inductive: the queues,   *)
(* the loads under way and what disk was asked to be must be at home too.    *)

\* Nothing of an instance exists before it is created.
Unmade(i) ==
  /\ instances[i] = 0 /\ ops[i] = <<>>
  /\ \A w \in Workspaces : disk[w][i] = 0 /\ saved[w][i] = 0
  /\ \A l \in loads : l.got[i] = 0

\* Whatever there is of it, is of its workspace.
AtHome(i) ==
  /\ instances[i] # 0 => home[i] = root
  /\ \A w \in Workspaces : disk[w][i] # 0 \/ saved[w][i] # 0 => home[i] = w
  /\ \A k \in 1..Len(ops[i]) : ops[i][k].root = home[i]
  /\ \A l \in loads : l.got[i] # 0 => home[i] = l.root

\* What the queue ends with is what disk was last asked to be.
Heard(i) ==
  IF ops[i] = <<>>
    THEN i \notin failed => \A w \in Workspaces : disk[w][i] = saved[w][i]
    ELSE ops[i][Len(ops[i])].ver = saved[home[i]][i]

HomeInv == \A i \in Ids : (version[i] = 0 => Unmade(i)) /\ AtHome(i) /\ Heard(i)

(* An operation joins the queue of an instance that is in memory, or will be. *)
LEMMA PersistHome ==
  ASSUME StoreTypeOK, NEW i \in Ids, NEW v \in Version, Persist(i, v),
         AtHome(i), Heard(i), home'[i] = root, root' = root,
         \/ home[i] = root
         \/ ops[i] = <<>> /\ \A w \in Workspaces : disk[w][i] = 0 /\ saved[w][i] = 0,
         UNCHANGED <<disk, failed>>
  PROVE  /\ \A w \in Workspaces : disk'[w][i] # 0 \/ saved'[w][i] # 0 => home'[i] = w
         /\ \A k \in 1..Len(ops'[i]) : ops'[i][k].root = home'[i]
         /\ Heard(i)'
         /\ \A j \in Ids \ {i} : /\ ops'[j] = ops[j]
                                 /\ \A w \in Workspaces : saved'[w][j] = saved[w][j]
<1>1. CASE root = NoRoot
  BY <1>1 DEF Persist, AtHome, Heard, StoreTypeOK
<1>2. CASE root # NoRoot
  <2> DEFINE op == [root |-> root, ver |-> v]
  <2>1. root \in Workspaces /\ op \in Op /\ ops[i] \in Seq(Op)
    BY <1>2 DEF StoreTypeOK, Op
  <2>2. ops'[i] = Append(ops[i], op) /\ \A j \in Ids \ {i} : ops'[j] = ops[j]
    BY <1>2 DEF Persist, StoreTypeOK
  <2>3. saved' = [saved EXCEPT ![root] = [saved[root] EXCEPT ![i] = v]]
    BY <1>2 DEF Persist
  <2>4. /\ saved'[root][i] = v
        /\ \A w \in Workspaces : w # root => saved'[w][i] = saved[w][i]
        /\ \A j \in Ids \ {i} : \A w \in Workspaces : saved'[w][j] = saved[w][j]
    BY <2>1, <2>3 DEF StoreTypeOK
  <2>5. \A w \in Workspaces : disk[w][i] # 0 \/ saved[w][i] # 0 => w = root
    BY DEF AtHome
  <2>6. \A k \in 1..Len(ops[i]) : ops[i][k].root = root
    BY DEF AtHome
  <2>7. ops'[i] # <<>> /\ Len(ops'[i]) = Len(ops[i]) + 1 /\ ops'[i][Len(ops'[i])] = op
        /\ \A k \in 1..Len(ops[i]) : ops'[i][k] = ops[i][k]
    BY <2>1, <2>2
  <2>8. \A k \in 1..Len(ops'[i]) : ops'[i][k].root = root
    BY <2>1, <2>6, <2>7
  <2>9. Heard(i)'
    BY <2>4, <2>7 DEF Heard
  <2>10. QED
    BY <2>2, <2>4, <2>5, <2>8, <2>9
<1>3. QED
  BY <1>1, <1>2

(* An instance of the open workspace is created or changed. *)
LEMMA PutHome ==
  ASSUME Bounds, StoreTypeOK, HomeInv, NEW i \in Ids, Put(i),
         version[i] = 0 \/ instances[i] # 0,
         home' = [home EXCEPT ![i] = root], UNCHANGED <<root, disk, failed, loads>>
  PROVE  HomeInv'
<1>1. /\ version'[i] \in Version /\ version'[i] # 0 /\ instances'[i] = version'[i]
      /\ \A j \in Ids \ {i} : version'[j] = version[j] /\ instances'[j] = instances[j]
  <2>1. version[i] \in Nat /\ version'[i] = version[i] + 1 /\ version' \in [Ids -> Version]
    BY PutType DEF StoreTypeOK, Version, Bounds
  <2>2. version'[i] \in Version /\ version'[i] # 0
    BY <2>1
  <2>3. QED
    BY <2>2 DEF Put, StoreTypeOK
<1>2. Persist(i, version'[i])
  BY DEF Put
<1>3. home'[i] = root /\ \A j \in Ids \ {i} : home'[j] = home[j]
  BY DEF StoreTypeOK
<1>4. AtHome(i) /\ Heard(i) /\ (version[i] = 0 => Unmade(i))
  BY DEF HomeInv
<1>5. /\ \A w \in Workspaces : disk'[w][i] # 0 \/ saved'[w][i] # 0 => home'[i] = w
      /\ \A k \in 1..Len(ops'[i]) : ops'[i][k].root = home'[i]
      /\ Heard(i)'
      /\ \A j \in Ids \ {i} : /\ ops'[j] = ops[j]
                              /\ \A w \in Workspaces : saved'[w][j] = saved[w][j]
  BY <1>1, <1>2, <1>3, <1>4, PersistHome DEF AtHome, Unmade
<1>6. \A l \in loads : l.got[i] # 0 => home'[i] = l.root
  BY <1>3, <1>4 DEF AtHome, Unmade
<1>7. AtHome(i)'
  BY <1>3, <1>5, <1>6 DEF AtHome
<1>8. ASSUME NEW j \in Ids \ {i}
      PROVE  (version'[j] = 0 => Unmade(j)') /\ AtHome(j)' /\ Heard(j)'
  <2>1. (version[j] = 0 => Unmade(j)) /\ AtHome(j) /\ Heard(j)
    BY DEF HomeInv
  <2>2. AtHome(j)'
    BY <1>1, <1>3, <1>5, <2>1 DEF AtHome
  <2>3. Heard(j)'
    <3>1. CASE ops[j] = <<>>
      BY <1>5, <2>1, <3>1 DEF Heard
    <3>2. CASE ops[j] # <<>>
      <4>1. Len(ops[j]) \in 1..Len(ops[j])
        BY <3>2 DEF StoreTypeOK
      <4>2. ops[j][Len(ops[j])] \in Op /\ ops[j][Len(ops[j])].root = home[j]
        BY <2>1, <4>1 DEF AtHome, StoreTypeOK
      <4>3. home[j] \in Workspaces
        BY <4>2 DEF Op
      <4>4. QED
        BY <1>3, <1>5, <2>1, <3>2, <4>3 DEF Heard
    <3>3. QED
      BY <3>1, <3>2
  <2>4. QED
    BY <1>1, <1>5, <2>1, <2>2, <2>3 DEF Unmade
<1>9. QED
  BY <1>1, <1>5, <1>7, <1>8 DEF HomeInv

(* What is left alone stays at home. *)
LEMMA Untouched ==
  ASSUME StoreTypeOK, NEW j \in Ids, AtHome(j), Heard(j), version[j] = 0 => Unmade(j),
         home'[j] = home[j], version'[j] = version[j], ops'[j] = ops[j], j \in failed' <=> j \in failed,
         \A w \in Workspaces : disk'[w][j] = disk[w][j] /\ saved'[w][j] = saved[w][j],
         instances'[j] = 0 \/ (instances'[j] = instances[j] /\ root' = root),
         \A l \in loads' : l.got[j] = 0 \/ \E k \in loads : l.got[j] = k.got[j] /\ l.root = k.root
  PROVE  (version'[j] = 0 => Unmade(j)') /\ AtHome(j)' /\ Heard(j)'
<1>1. AtHome(j)'
  BY DEF AtHome
<1>2. Heard(j)'
  <2>1. CASE ops[j] = <<>>
    BY <2>1 DEF Heard
  <2>2. CASE ops[j] # <<>>
    <3>1. Len(ops[j]) \in 1..Len(ops[j])
      BY <2>2 DEF StoreTypeOK
    <3>2. ops[j][Len(ops[j])] \in Op /\ ops[j][Len(ops[j])].root = home[j]
      BY <3>1 DEF AtHome, StoreTypeOK
    <3>3. home[j] \in Workspaces
      BY <3>2 DEF Op
    <3>4. QED
      BY <2>2, <3>3 DEF Heard
  <2>3. QED
    BY <2>1, <2>2
<1>3. version'[j] = 0 => Unmade(j)'
  BY DEF Unmade
<1>4. QED
  BY <1>1, <1>2, <1>3

LEMMA HomeStep ==
  ASSUME Bounds, StoreTypeOK, HomeInv, [StoreNext]_store
  PROVE  HomeInv'
<1>0. \A j \in Ids : (version[j] = 0 => Unmade(j)) /\ AtHome(j) /\ Heard(j)
  BY DEF HomeInv
<1>1. ASSUME NEW i \in Ids, Create(i) PROVE HomeInv'
  BY <1>1, PutHome DEF Create
<1>2. ASSUME NEW i \in Ids, Update(i) PROVE HomeInv'
  <2>1. home[i] = root
    BY <1>0, <1>2 DEF Update, AtHome
  <2>2. home' = [home EXCEPT ![i] = root]
    BY <1>2, <2>1 DEF Update, StoreTypeOK
  <2>3. QED
    BY <1>2, <2>2, PutHome DEF Update
<1>3. ASSUME NEW i \in Ids, RemoveInstance(i) PROVE HomeInv'
  <2>1. /\ instances[i] # 0 /\ Persist(i, 0) /\ UNCHANGED <<root, home, version, disk, failed, loads>>
        /\ instances'[i] = 0 /\ \A j \in Ids \ {i} : instances'[j] = instances[j]
    BY <1>3 DEF RemoveInstance, StoreTypeOK
  <2>2. home[i] = root /\ version[i] # 0 /\ 0 \in Version
    BY <1>0, <2>1 DEF AtHome, Unmade, Version, Bounds
  <2>3. /\ \A w \in Workspaces : disk'[w][i] # 0 \/ saved'[w][i] # 0 => home'[i] = w
        /\ \A k \in 1..Len(ops'[i]) : ops'[i][k].root = home'[i]
        /\ Heard(i)'
        /\ \A j \in Ids \ {i} : /\ ops'[j] = ops[j]
                                /\ \A w \in Workspaces : saved'[w][j] = saved[w][j]
    BY <1>0, <2>1, <2>2, PersistHome
  <2>4. AtHome(i)'
    BY <1>0, <2>1, <2>3 DEF AtHome
  <2>5. \A j \in Ids \ {i} : (version'[j] = 0 => Unmade(j)') /\ AtHome(j)' /\ Heard(j)'
    BY <1>0, <2>1, <2>3, Untouched
  <2>6. QED
    BY <2>1, <2>2, <2>3, <2>4, <2>5 DEF HomeInv
<1>4. ASSUME NEW i \in Ids, NEW ok \in BOOLEAN, RunOp(i, ok) PROVE HomeInv'
  <2> DEFINE op == Head(ops[i])
  <2>1. /\ ops[i] # <<>> /\ ops[i] \in Seq(Op) /\ ops'[i] = Tail(ops[i])
        /\ disk' = IF ok THEN [disk EXCEPT ![op.root] = [disk[op.root] EXCEPT ![i] = op.ver]] ELSE disk
        /\ UNCHANGED <<root, instances, version, home, saved, loads>>
        /\ IF ok THEN i \notin failed' ELSE i \in failed'
    BY <1>4 DEF RunOp, StoreTypeOK, memory
  <2>2. /\ Len(ops[i]) \in Nat \ {0} /\ op = ops[i][1] /\ op \in Op
        /\ Len(ops'[i]) = Len(ops[i]) - 1
        /\ \A k \in 1..Len(ops'[i]) : ops'[i][k] = ops[i][k + 1] /\ k + 1 \in 1..Len(ops[i])
    BY <2>1
  <2>3. op.root = home[i] /\ op.root \in Workspaces
    BY <1>0, <2>2 DEF AtHome, Op
  <2>4. version[i] # 0
    BY <1>0, <2>1 DEF Unmade
  <2>5. /\ \A w \in Workspaces : w # home[i] => disk'[w][i] = disk[w][i]
        /\ disk'[home[i]][i] = IF ok THEN op.ver ELSE disk[home[i]][i]
    BY <2>1, <2>3 DEF StoreTypeOK
  <2>6. AtHome(i)'
    BY <1>0, <2>1, <2>2, <2>5 DEF AtHome
  <2>7. Heard(i)'
    <3>1. CASE ops'[i] = <<>>
      <4>1. Len(ops[i]) = 1
        BY <2>2, <3>1
      <4>2. op = ops[i][Len(ops[i])]
        BY <2>2, <4>1
      <4>3. op.ver = saved[home[i]][i]
        BY <1>0, <2>1, <4>2 DEF Heard
      <4>4. \A w \in Workspaces : w # home[i] => disk[w][i] = saved[w][i]
        <5>1. \A w \in Workspaces : w # home[i] => disk[w][i] = 0 /\ saved[w][i] = 0
          BY <1>0 DEF AtHome
        <5>2. QED
          BY <5>1
      <4>5. QED
        BY <2>1, <2>5, <3>1, <4>3, <4>4 DEF Heard
    <3>2. CASE ops'[i] # <<>>
      <4>1. Len(ops'[i]) \in 1..Len(ops'[i]) /\ Len(ops'[i]) + 1 = Len(ops[i])
        BY <2>1, <2>2, <3>2
      <4>2. ops'[i][Len(ops'[i])] = ops[i][Len(ops[i])]
        BY <2>2, <4>1
      <4>3. QED
        BY <1>0, <2>1, <3>2, <4>2 DEF Heard
    <3>3. QED
      BY <3>1, <3>2
  <2>8. \A j \in Ids \ {i} : /\ ops'[j] = ops[j] /\ (j \in failed' <=> j \in failed)
                             /\ \A w \in Workspaces : disk'[w][j] = disk[w][j]
    BY <1>4, <2>1, <2>3 DEF RunOp, StoreTypeOK
  <2>9. \A j \in Ids \ {i} : (version'[j] = 0 => Unmade(j)') /\ AtHome(j)' /\ Heard(j)'
    BY <1>0, <2>1, <2>8, Untouched
  <2>10. QED
    BY <2>1, <2>4, <2>6, <2>7, <2>9 DEF HomeInv
<1>5. ASSUME NEW i \in Ids, NEW l \in loads, ReadFile(l, i) PROVE HomeInv'
  <2> DEFINE k == [l EXCEPT !.todo = @ \ {i}, !.got = [@ EXCEPT ![i] = disk[l.root][i]]]
  <2>1. loads' = (loads \ {l}) \cup {k}
        /\ UNCHANGED <<root, instances, version, home, saved, disk, ops, failed>>
    BY <1>5 DEF ReadFile, Step, memory, backing
  <2>2. l.root \in Workspaces /\ l.got \in [Ids -> Version]
    BY DEF StoreTypeOK, Load
  <2>3. k.root = l.root /\ k.got = [l.got EXCEPT ![i] = disk[l.root][i]]
    BY DEF StoreTypeOK, Load
  <2>4. \A j \in Ids \ {i} : k.got[j] = l.got[j]
    BY <2>2, <2>3
  <2>5. \A j \in Ids \ {i} : (version'[j] = 0 => Unmade(j)') /\ AtHome(j)' /\ Heard(j)'
    <3>1. TAKE j \in Ids \ {i}
    <3>2. \A m \in loads' : m.got[j] = 0 \/ \E n \in loads : m.got[j] = n.got[j] /\ m.root = n.root
      BY <2>1, <2>3, <2>4
    <3>3. QED
      BY <1>0, <2>1, <3>2, Untouched
  <2>6. k.got[i] = disk[l.root][i]
    BY <2>2, <2>3
  <2>7. AtHome(i)'
    BY <1>0, <2>1, <2>2, <2>3, <2>6 DEF AtHome
  <2>8. version'[i] = 0 => Unmade(i)'
    BY <1>0, <2>1, <2>2, <2>6 DEF Unmade
  <2>9. Heard(i)'
    BY <1>0, <2>1 DEF Heard
  <2>10. QED
    BY <2>5, <2>7, <2>8, <2>9 DEF HomeInv
<1>6. ASSUME NEW w \in Workspaces, Open(w) PROVE HomeInv'
  <2>1. /\ \A j \in Ids : instances'[j] = 0
        /\ UNCHANGED <<version, home, saved, disk, ops, failed>>
    BY <1>6 DEF Open, backing
  <2>2. \A l \in loads' : l \in loads \/ \A j \in Ids : l.got[j] = 0
    BY <1>6 DEF Open
  <2>3. QED
    BY <1>0, <2>1, <2>2, Untouched DEF HomeInv
<1>7. ASSUME NEW l \in loads, List(l) PROVE HomeInv'
  <2> DEFINE k == [l EXCEPT !.listed = TRUE, !.todo = {i \in Ids : disk[l.root][i] # 0}]
  <2>1. loads' = (loads \ {l}) \cup {k}
        /\ UNCHANGED <<root, instances, version, home, saved, disk, ops, failed>>
    BY <1>7 DEF List, Step, memory, backing
  <2>2. k.root = l.root /\ k.got = l.got
    BY DEF StoreTypeOK, Load
  <2>3. \A m \in loads' : \E n \in loads : m.got = n.got /\ m.root = n.root
    BY <2>1, <2>2
  <2>4. QED
    BY <1>0, <2>1, <2>3, Untouched DEF HomeInv
<1>8. ASSUME NEW l \in loads, Apply(l) PROVE HomeInv'
  <2>1. loads' \subseteq loads /\ UNCHANGED <<root, version, home, saved, disk, ops, failed>>
    BY <1>8 DEF Apply, backing
  <2>2. ASSUME NEW j \in Ids
        PROVE  (version'[j] = 0 => Unmade(j)') /\ AtHome(j)' /\ Heard(j)'
    <3>1. instances'[j] = instances[j] \/ (root = l.root /\ instances'[j] = l.got[j])
      BY <1>8 DEF Apply
    <3>2. instances'[j] # 0 => home[j] = root
      BY <1>0, <3>1 DEF AtHome
    <3>3. AtHome(j)'
      BY <1>0, <2>1, <3>2 DEF AtHome
    <3>4. version'[j] = 0 => Unmade(j)'
      BY <1>0, <2>1, <3>1 DEF Unmade
    <3>5. Heard(j)'
      BY <1>0, <2>1 DEF Heard
    <3>6. QED
      BY <3>3, <3>4, <3>5
  <2>3. QED
    BY <2>2 DEF HomeInv
<1>9. ASSUME NEW p \in pending, Validated(p) PROVE HomeInv'
  BY <1>9 DEF Validated, backing, HomeInv, AtHome, Heard, Unmade
<1>10. ASSUME UNCHANGED store PROVE HomeInv'
  BY <1>10 DEF store, memory, backing, HomeInv, AtHome, Heard, Unmade
<1>11. QED
  BY <1>1, <1>2, <1>3, <1>4, <1>5, <1>6, <1>7, <1>8, <1>9, <1>10 DEF StoreNext

LEMMA HomeInit ==
  ASSUME Bounds
  PROVE  StoreInit => HomeInv
BY DEF StoreInit, HomeInv, AtHome, Heard, Unmade

(* However workspaces are switched, whatever loads and queued writes are     *)
(* under way and whichever fail, instances stay in their workspace and a     *)
(* queue that has run dry leaves what was asked for last                     *)
(* (instance-store.ts, enqueueInstanceOp and loadInstancesFromOpfs).         *)
THEOREM InstancesAreHome ==
  ASSUME Bounds
  PROVE  StoreSpec => []InstancesStayHome
<1>1. StoreInit => StoreTypeOK /\ HomeInv
  BY TypeInit, HomeInit
<1>2. StoreTypeOK /\ HomeInv /\ [StoreNext]_store => (StoreTypeOK /\ HomeInv)'
  BY TypeStep, HomeStep
<1>3. HomeInv => InstancesStayHome
  BY DEF HomeInv, AtHome, Heard, InstancesStayHome
<1>4. QED
  BY <1>1, <1>2, <1>3, PTL DEF StoreSpec

-----------------------------------------------------------------------------
(* What is said of an instance.  Questions are told apart by their number:   *)
(* only the latest one of an instance may speak for the data in memory.      *)

AnswersToCome(i) ==
  /\ \A p \in pending : p.of = i => /\ p.n <= latest[i]
                                    /\ p.n = latest[i] /\ instances[i] # 0 => p.ver = instances[i]
  /\ instances[i] # 0 =>
       errors[i] = instances[i] \/ \E p \in pending : p.of = i /\ p.n = latest[i]

AskedInv == \A i \in Ids : AnswersToCome(i)

(* Dispatching a validation of S is enough where data changed within S.      *)
LEMMA ValidateAsks ==
  ASSUME StoreTypeOK, AskedInv, NEW S \in SUBSET Ids, Validate(S), errors' = errors,
         \A i \in Ids \ S : instances'[i] = instances[i]
  PROVE  AskedInv'
<1> DEFINE q(i) == [of |-> i, ver |-> instances'[i], n |-> latest'[i]]
<1>1. pending' = pending \cup {q(i) : i \in S}
  BY DEF Validate
<1>2. \A i \in Ids : latest[i] \in Nat /\ latest'[i] = IF i \in S THEN latest[i] + 1 ELSE latest[i]
  BY DEF Validate, StoreTypeOK
<1>3. ASSUME NEW i \in Ids PROVE AnswersToCome(i)'
  <2>1. AnswersToCome(i)
    BY DEF AskedInv
  <2>2. \A p \in pending : p.n \in Nat
    BY DEF StoreTypeOK, Question
  <2>3. CASE i \in S
    <3>1. q(i) \in pending' /\ q(i).of = i /\ q(i).n = latest'[i]
      BY <1>1, <2>3
    <3>2. ASSUME NEW p \in pending', p.of = i
          PROVE  p.n <= latest'[i] /\ (p.n = latest'[i] => p.ver = instances'[i])
      <4>1. CASE p \in pending
        BY <1>2, <2>1, <2>2, <2>3, <3>2, <4>1 DEF AnswersToCome
      <4>2. CASE p \notin pending
        <5>1. p = q(i)
          BY <1>1, <3>2, <4>2
        <5>2. QED
          BY <1>2, <5>1
      <4>3. QED
        BY <4>1, <4>2
    <3>3. QED
      BY <3>1, <3>2 DEF AnswersToCome
  <2>4. CASE i \notin S
    <3>1. \A p \in pending' : p.of = i => p \in pending
      BY <1>1, <2>4
    <3>2. latest'[i] = latest[i] /\ instances'[i] = instances[i] /\ pending \subseteq pending'
      BY <1>1, <1>2, <2>4
    <3>3. QED
      BY <2>1, <3>1, <3>2 DEF AnswersToCome
  <2>5. QED
    BY <2>3, <2>4
<1>4. QED
  BY <1>3 DEF AskedInv

LEMMA AskedStep ==
  ASSUME StoreTypeOK, AskedInv, [StoreNext]_store
  PROVE  AskedInv'
<1>1. ASSUME NEW i \in Ids, Create(i) \/ Update(i) PROVE AskedInv'
  <2>1. Put(i) /\ errors' = errors
    BY <1>1 DEF Create, Update
  <2>2. Validate({i}) /\ \A j \in Ids \ {i} : instances'[j] = instances[j]
    BY <2>1 DEF Put, StoreTypeOK
  <2>3. QED
    BY <2>1, <2>2, ValidateAsks
<1>2. ASSUME NEW i \in Ids, RemoveInstance(i) PROVE AskedInv'
  <2>1. UNCHANGED <<pending, latest, errors>>
        /\ \A j \in Ids : instances'[j] = 0 \/ instances'[j] = instances[j]
    BY <1>2 DEF RemoveInstance, StoreTypeOK
  <2>2. QED
    BY <2>1 DEF AskedInv, AnswersToCome
<1>3. ASSUME NEW w \in Workspaces, Open(w) PROVE AskedInv'
  <2>1. UNCHANGED <<pending, latest>> /\ \A j \in Ids : instances'[j] = 0
    BY <1>3 DEF Open
  <2>2. QED
    BY <2>1 DEF AskedInv, AnswersToCome
<1>4. ASSUME NEW l \in loads, Apply(l) PROVE AskedInv'
  <2>1. CASE root = l.root
    <3>1. \A i \in Ids : l.got[i] = 0 => instances'[i] = instances[i]
      BY <1>4, <2>1 DEF Apply, StoreTypeOK
    <3>2. Validate({i \in Ids : l.got[i] # 0}) /\ errors' = errors
      BY <1>4, <2>1 DEF Apply
    <3>3. QED
      BY <3>1, <3>2, ValidateAsks
  <2>2. CASE root # l.root
    BY <1>4, <2>2 DEF Apply, AskedInv, AnswersToCome
  <2>3. QED
    BY <2>1, <2>2
<1>5. ASSUME NEW p \in pending, Validated(p) PROVE AskedInv'
  <2>1. /\ pending' = pending \ {p} /\ UNCHANGED <<instances, latest>>
        /\ errors' = IF latest[p.of] = p.n THEN [errors EXCEPT ![p.of] = p.ver] ELSE errors
        /\ p.of \in Ids
    BY <1>5 DEF Validated, StoreTypeOK, Question
  <2>2. ASSUME NEW i \in Ids PROVE AnswersToCome(i)'
    <3>1. AnswersToCome(i)
      BY DEF AskedInv
    <3>2. CASE p.of = i /\ latest[i] = p.n
      <4>1. errors'[i] = p.ver
        BY <2>1, <3>2 DEF StoreTypeOK
      <4>2. instances[i] # 0 => p.ver = instances[i]
        BY <3>1, <3>2 DEF AnswersToCome
      <4>3. QED
        BY <2>1, <3>1, <4>1, <4>2 DEF AnswersToCome
    <3>3. CASE ~(p.of = i /\ latest[i] = p.n)
      <4>1. errors'[i] = errors[i]
        BY <2>1, <3>3 DEF StoreTypeOK
      <4>2. QED
        BY <2>1, <3>1, <3>3, <4>1 DEF AnswersToCome
    <3>4. QED
      BY <3>2, <3>3
  <2>3. QED
    BY <2>2 DEF AskedInv
<1>6. ASSUME UNCHANGED memory PROVE AskedInv'
  BY <1>6 DEF memory, AskedInv, AnswersToCome
<1>7. ASSUME NEW i \in Ids, \/ \E ok \in BOOLEAN : RunOp(i, ok)
                            \/ \E l \in loads : ReadFile(l, i)
      PROVE  AskedInv'
  BY <1>6, <1>7 DEF RunOp, ReadFile
<1>8. ASSUME NEW l \in loads, List(l) PROVE AskedInv'
  BY <1>6, <1>8 DEF List
<1>9. ASSUME UNCHANGED store PROVE AskedInv'
  BY <1>6, <1>9 DEF store
<1>10. QED
  BY <1>1, <1>2, <1>3, <1>4, <1>5, <1>7, <1>8, <1>9 DEF StoreNext

LEMMA AskedInit == StoreInit => AskedInv
BY DEF StoreInit, AskedInv, AnswersToCome

(* However late and in whatever order the worker answers, an instance with   *)
(* no answer on its way is judged by the data it has                         *)
(* (instance-store.ts, dispatchValidate and receiveValidateResult).          *)
THEOREM ErrorsAreCurrent ==
  ASSUME Bounds
  PROVE  StoreSpec => []ErrorsAreOfTheData
<1>1. StoreInit => StoreTypeOK /\ AskedInv
  BY TypeInit, AskedInit
<1>2. StoreTypeOK /\ AskedInv /\ [StoreNext]_store => (StoreTypeOK /\ AskedInv)'
  BY TypeStep, AskedStep
<1>3. AskedInv => ErrorsAreOfTheData
  BY DEF AskedInv, AnswersToCome, ErrorsAreOfTheData
<1>4. QED
  BY <1>1, <1>2, <1>3, PTL DEF StoreSpec

=============================================================================
