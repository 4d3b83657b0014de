--------------------------- MODULE InstanceStore ---------------------------
(***************************************************************************)
(* The instances of the open workspace:                                    *)
(*   apps/studio/src/store/instance-store.ts                               *)
(*   apps/studio/src/opfs/instances-fs.ts                                  *)
(*   apps/studio/src/App.tsx (the effect that opens a workspace)           *)
(*                                                                         *)
(* Memory changes at once; the file of an instance follows through a queue *)
(* of its own; a workspace that is opened loads its files while the user   *)
(* already works; the worker answers validations in any order.             *)
(*                                                                         *)
(* Data: an instance is its version, 0 where there is none; the answer to  *)
(* a validation is the version it looked at.                               *)
(***************************************************************************)
EXTENDS Integers, Sequences, SequencesExt

CONSTANTS
  Ids, Workspaces, NoRoot,
  MaxVersion, MaxOpens, MaxFaults  \* bounds

VARIABLES
  root,      \* opfsWorkspaceRoot
  instances, \* in memory
  version,   \* the last version made of each instance (a ghost)
  home,      \* the workspace it was created in (a ghost)
  disk,      \* the files, by workspace
  saved,     \* what disk was last asked to be (a ghost)
  ops,       \* instanceWriteQueue: writes, and deletes as version 0
  failed,    \* instances whose last operation failed (a ghost)
  faults,
  loads,     \* loadInstancesFromOpfs calls under way
  opens,     \* setOpfsContext calls so far
  pending,   \* validations on their way: pendingRequests
  latest,    \* latestValidateRequestForInstance
  errors     \* validationErrors; 0 where there is no entry

memory == <<root, instances, errors, pending, latest>>
backing == <<disk, ops, failed, faults>>
store == <<memory, version, home, saved, backing, loads, opens>>

Version == 0..MaxVersion
Op == [root : Workspaces, ver : Version]
Load == [root : Workspaces, n : Nat, listed : BOOLEAN, todo : SUBSET Ids, got : [Ids -> Version]]
Question == [of : Ids, ver : Version, n : Nat]

StoreTypeOK ==
  /\ root \in Workspaces \cup {NoRoot}
  /\ instances \in [Ids -> Version] /\ version \in [Ids -> Version] /\ errors \in [Ids -> Version]
  /\ home \in [Ids -> Workspaces \cup {NoRoot}]
  /\ disk \in [Workspaces -> [Ids -> Version]] /\ saved \in [Workspaces -> [Ids -> Version]]
  /\ ops \in [Ids -> Seq(Op)] /\ failed \subseteq Ids
  /\ faults \in 0..MaxFaults /\ opens \in 0..MaxOpens
  /\ loads \subseteq Load /\ pending \subseteq Question /\ latest \in [Ids -> Nat]

StoreInit ==
  LET none == [i \in Ids |-> 0]
  IN /\ root = NoRoot /\ instances = none /\ version = none /\ errors = none
     /\ home = [i \in Ids |-> NoRoot]
     /\ disk = [w \in Workspaces |-> none] /\ saved = disk
     /\ ops = [i \in Ids |-> <<>>] /\ failed = {} /\ faults = 0
     /\ loads = {} /\ opens = 0 /\ pending = {} /\ latest = none

-----------------------------------------------------------------------------

\* dispatchValidate for the instances in S, with the data they have now.
Validate(S) ==
  /\ latest' = [i \in Ids |-> IF i \in S THEN latest[i] + 1 ELSE latest[i]]
  /\ pending' = pending \cup {[of |-> i, ver |-> instances'[i], n |-> latest'[i]] : i \in S}

\* persistInstance, persistDelete: nothing before a workspace is open; then
\* the operation joins the queue of i, bound to the workspace of this moment.
Persist(i, v) ==
  IF root = NoRoot THEN UNCHANGED <<ops, saved>>
  ELSE /\ ops' = [ops EXCEPT ![i] = Append(@, [root |-> root, ver |-> v])]
       /\ saved' = [saved EXCEPT ![root][i] = v]

\* createInstance (a fresh id) or updateInstanceData (an id in memory).
Put(i) ==
  /\ version[i] < MaxVersion /\ version' = [version EXCEPT ![i] = @ + 1]
  /\ instances' = [instances EXCEPT ![i] = version'[i]]
  /\ Persist(i, version'[i]) /\ Validate({i})

Create(i) ==
  /\ version[i] = 0 /\ Put(i)
  /\ home' = [home EXCEPT ![i] = root]
  /\ UNCHANGED <<root, errors, disk, failed, faults, loads, opens>>

Update(i) ==
  /\ instances[i] # 0 /\ Put(i)
  /\ UNCHANGED <<root, errors, home, disk, failed, faults, loads, opens>>

\* removeInstance; what is said of its validity stays behind.
RemoveInstance(i) ==
  /\ instances[i] # 0 /\ instances' = [instances EXCEPT ![i] = 0]
  /\ Persist(i, 0)
  /\ UNCHANGED <<root, errors, pending, latest, version, home, disk, failed, faults, loads, opens>>

\* A workspace is opened, or the open one is again, as when its record is
\* replaced: setOpfsContext empties the store and starts to load.
Open(w) ==
  /\ opens < MaxOpens /\ opens' = opens + 1
  /\ root' = w
  /\ instances' = [i \in Ids |-> 0] /\ errors' = [i \in Ids |-> 0]
  /\ loads' = loads \cup
       {[root |-> w, n |-> opens', listed |-> FALSE, todo |-> {}, got |-> [i \in Ids |-> 0]]}
  /\ UNCHANGED <<pending, latest, version, home, saved, backing>>

Step(l, k) == loads' = (loads \ {l}) \cup {k}

List(l) ==
  /\ ~l.listed
  /\ Step(l, [l EXCEPT !.listed = TRUE, !.todo = {i \in Ids : disk[l.root][i] # 0}])
  /\ UNCHANGED <<memory, version, home, saved, backing, opens>>

\* A file that is gone by now is left out.
ReadFile(l, i) ==
  /\ i \in l.todo
  /\ Step(l, [l EXCEPT !.todo = @ \ {i}, !.got = [@ EXCEPT ![i] = disk[l.root][i]]])
  /\ UNCHANGED <<memory, version, home, saved, backing, opens>>

Apply_Anywhere(l) ==
  /\ l.listed /\ l.todo = {} /\ loads' = loads \ {l}
  /\ instances' = [i \in Ids |-> IF instances[i] # 0 THEN instances[i] ELSE l.got[i]]
  /\ Validate({i \in Ids : l.got[i] # 0})
  /\ UNCHANGED <<root, errors, version, home, saved, backing, opens>>

\* All is read.  If the workspace is still (or again) the open one, what is in
\* memory stays and the rest is added; every instance read is validated.
Apply(l) ==
  /\ l.listed /\ l.todo = {} /\ loads' = loads \ {l}
  /\ IF root = l.root
       THEN /\ instances' = [i \in Ids |-> IF instances[i] # 0 THEN instances[i] ELSE l.got[i]]
            /\ Validate({i \in Ids : l.got[i] # 0})
       ELSE UNCHANGED <<instances, pending, latest>>
  /\ UNCHANGED <<root, errors, version, home, saved, backing, opens>>

RunOp_AnyOrder(i, ok) ==
  /\ ops[i] # <<>> /\ (ok \/ faults < MaxFaults)
  /\ \E k \in DOMAIN ops[i] :
       LET op == ops[i][k]
       IN /\ ops' = [ops EXCEPT ![i] = RemoveAt(@, k)]
          /\ disk' = IF ok THEN [disk EXCEPT ![op.root][i] = op.ver] ELSE disk
  /\ faults' = IF ok THEN faults ELSE faults + 1
  /\ failed' = IF ok THEN failed \ {i} ELSE failed \cup {i}
  /\ UNCHANGED <<memory, version, home, saved, loads, opens>>

\* The next operation of i settles; one that fails is logged and left at that.
RunOp(i, ok) ==
  /\ ops[i] # <<>> /\ (ok \/ faults < MaxFaults)
  /\ LET op == Head(ops[i])
     IN /\ ops' = [ops EXCEPT ![i] = Tail(@)]
        /\ disk' = IF ok THEN [disk EXCEPT ![op.root][i] = op.ver] ELSE disk
  /\ faults' = IF ok THEN faults ELSE faults + 1
  /\ failed' = IF ok THEN failed \ {i} ELSE failed \cup {i}
  /\ UNCHANGED <<memory, version, home, saved, loads, opens>>

Validated_AnyAnswer(p) ==
  /\ p \in pending /\ pending' = pending \ {p}
  /\ errors' = [errors EXCEPT ![p.of] = p.ver]
  /\ UNCHANGED <<root, instances, latest, version, home, saved, backing, loads, opens>>

\* An answer of the worker; only the latest question of an instance counts.
Validated(p) ==
  /\ p \in pending /\ pending' = pending \ {p}
  /\ errors' = IF latest[p.of] = p.n THEN [errors EXCEPT ![p.of] = p.ver] ELSE errors
  /\ UNCHANGED <<root, instances, latest, version, home, saved, backing, loads, opens>>

StoreNext ==
  \/ \E i \in Ids : \/ Create(i) \/ Update(i) \/ RemoveInstance(i)
                    \/ \E ok \in BOOLEAN : RunOp(i, ok)
                    \/ \E l \in loads : ReadFile(l, i)
  \/ \E w \in Workspaces : Open(w)
  \/ \E l \in loads : List(l) \/ Apply(l)
  \/ \E p \in pending : Validated(p)

StoreSpec == StoreInit /\ [][StoreNext]_store

-----------------------------------------------------------------------------
(* Properties. *)

\* Workspaces stay apart, however fast they are switched: no instance is in
\* memory or on disk outside the one it was created in; and a queue that has
\* run dry leaves on disk what was asked for last, unless that very operation
\* has failed: no older write comes after a newer one, no deleted file back.
InstancesStayHome ==
  \A i \in Ids :
    /\ instances[i] # 0 => home[i] = root
    /\ \A w \in Workspaces : disk[w][i] # 0 => home[i] = w
    /\ ops[i] = <<>> /\ i \notin failed => \A w \in Workspaces : disk[w][i] = saved[w][i]

\* What is said of an instance is about the data it has: with no answer on its
\* way, the last one was for the version in memory.
ErrorsAreOfTheData ==
  \A i \in Ids :
    instances[i] # 0 /\ (\A p \in pending : p.of # i) => errors[i] = instances[i]

=============================================================================
