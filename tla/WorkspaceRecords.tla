-------------------------- MODULE WorkspaceRecords --------------------------
(***************************************************************************)
(* The curated bundles of a workspace, in its saved record and in memory:  *)
(*   apps/studio/src/App.tsx (restoreWorkspace, the effect that persists   *)
(*     bindings, the handlers that open, create, close and delete)         *)
(*   apps/studio/src/workspace/persistence.ts, store/model-store.ts        *)
(*                                                                         *)
(* One model store serves the whole page.  A restoration evicts what the   *)
(* workspace does not declare, parses, loads what it declares and then     *)
(* opens a gate; behind the gate an effect writes what is loaded into the  *)
(* record of the workspace that is open.                                   *)
(*                                                                         *)
(* Data: a record is the set of bundles it binds; loading a bundle takes   *)
(* its metadata only and is one step.  Workspaces are browser-only.        *)
(***************************************************************************)
EXTENDS Naturals, FiniteSets, SequencesExt

CONSTANTS
  WorkspaceIds,
  NoWorkspace,  \* null in place of a workspace
  Bundles,
  Depends,      \* the bundles that load with each bundle (model-registry.ts)
  MaxRestores   \* bound: restorations under way at once

ASSUME RecordsAssumption == Depends \in [Bundles -> SUBSET Bundles] /\ NoWorkspace \notin WorkspaceIds

VARIABLES
  records,  \* WorkspaceRecord.curatedModels
  recents,  \* the saved workspaces, the last opened first
  unborn,   \* ids no workspace has had yet
  blank,    \* workspaces whose files are gone
  loaded,   \* the model store
  open,     \* restoredWorkspace
  bound,    \* restoredWorkspace.curatedModels
  gate,     \* curatedSyncedWorkspaceId
  restores, \* calls of restoreWorkspace
  own,      \* what the user has loaded in each workspace (a ghost)
  fresh,    \* what the user has loaded since no workspace is open (a ghost)
  mixed     \* workspaces opened in a way that mixes bundles up (a ghost)

stored == <<records, recents, unborn, blank>>
page == <<loaded, open, bound, gate, restores>>
books == <<stored, page, own, fresh, mixed>>

Restore == [of : WorkspaceIds, at : {"files", "parse"}, declared : SUBSET Bundles, from : WorkspaceIds \cup {NoWorkspace}]

RecordsTypeOK ==
  /\ records \in [WorkspaceIds -> SUBSET Bundles] /\ own \in [WorkspaceIds -> SUBSET Bundles]
  /\ Range(recents) \subseteq WorkspaceIds \ unborn /\ IsInjective(recents)
  /\ unborn \subseteq WorkspaceIds /\ blank \subseteq WorkspaceIds /\ mixed \subseteq WorkspaceIds
  /\ loaded \subseteq Bundles /\ bound \subseteq Bundles /\ fresh \subseteq Bundles
  /\ open \in WorkspaceIds \cup {NoWorkspace} /\ gate \in WorkspaceIds \cup {NoWorkspace}
  /\ restores \subseteq Restore

RecordsInit ==
  /\ records = [w \in WorkspaceIds |-> {}] /\ own = records
  /\ recents = <<>> /\ unborn = WorkspaceIds /\ blank = {} /\ mixed = {}
  /\ loaded = {} /\ bound = {} /\ fresh = {}
  /\ open = NoWorkspace /\ gate = NoWorkspace /\ restores = {}

-----------------------------------------------------------------------------

\* The saved workspaces without w, in their order.
Without(w) == RemoveAt(recents, CHOOSE i \in DOMAIN recents : recents[i] = w)

WithDeps(S) == S \cup UNION {Depends[b] : b \in S}

\* React renders o with the gate at g, l loaded, and the copy of the record o
\* was opened with; then the effect persists the bindings of recs.
Render(o, g, l, copy, recs) ==
  LET stale == o # NoWorkspace /\ g = o /\ l # copy
  IN /\ open' = o /\ gate' = g /\ loaded' = l
     /\ bound' = IF stale THEN l ELSE copy
     /\ records' = IF stale THEN [recs EXCEPT ![o] = l] ELSE recs

\* The main area is a spinner while a workspace is restored.
Usable == restores = {}

\* load and unload of the model store, from the launcher.
LoadBundle(b) ==
  /\ Usable /\ b \notin loaded
  /\ Render(open, gate, loaded \cup WithDeps({b}), bound, records)
  /\ IF open = NoWorkspace THEN fresh' = fresh \cup WithDeps({b}) /\ UNCHANGED own
                      ELSE own' = [own EXCEPT ![open] = @ \cup WithDeps({b})] /\ UNCHANGED fresh
  /\ UNCHANGED <<recents, unborn, blank, restores, mixed>>

UnloadBundle(b) ==
  /\ Usable /\ b \in loaded
  /\ Render(open, gate, loaded \ {b}, bound, records)
  /\ IF open = NoWorkspace THEN fresh' = fresh \ {b} /\ UNCHANGED own
                      ELSE own' = [own EXCEPT ![open] = @ \ {b}] /\ UNCHANGED fresh
  /\ UNCHANGED <<recents, unborn, blank, restores, mixed>>

\* handleFilesLoaded: a new workspace is open, and settled, at once.
CreateWorkspace(w) ==
  /\ Usable /\ w \in unborn
  /\ unborn' = unborn \ {w} /\ recents' = <<w>> \o recents
  /\ Render(w, w, loaded, {}, [records EXCEPT ![w] = {}])
  /\ own' = [own EXCEPT ![w] = fresh] /\ fresh' = {}
  /\ mixed' = IF loaded \subseteq fresh THEN mixed ELSE mixed \cup {w}
  /\ UNCHANGED <<blank, restores>>

\* handleSwitchWorkspace reads the record; the switcher in the header stays
\* usable while another restoration runs.
Switch(w) ==
  /\ w \in Range(recents) /\ w \notin {r.of : r \in restores}
  /\ Cardinality(restores) < MaxRestores
  /\ restores' = restores \cup {[of |-> w, at |-> "files", declared |-> records[w], from |-> open]}
  /\ mixed' = IF Usable THEN mixed ELSE mixed \cup {r.of : r \in restores'}
  /\ UNCHANGED <<stored, loaded, open, bound, gate, own, fresh>>

\* Slip of Restored: bundles of the workspace that was open stay in the store.
Restored_NoEviction(r) ==
  /\ r.at = "files" /\ r.of \notin blank
  /\ restores' = (restores \ {r}) \cup {[r EXCEPT !.at = "parse"]}
  /\ recents' = <<r.of>> \o Without(r.of)
  /\ Render(r.of, NoWorkspace, loaded, r.declared, [records EXCEPT ![r.of] = r.declared])
  /\ mixed' = IF r.from # NoWorkspace \/ loaded \subseteq fresh \cup r.declared THEN mixed
              ELSE mixed \cup {r.of}
  /\ UNCHANGED <<unborn, blank, own, fresh>>

\* Its files have come: the gate is shut, the workspace is open, what it does
\* not declare is evicted.
Restored(r) ==
  LET switch == r.from \notin {NoWorkspace, r.of}
  IN /\ r.at = "files" /\ r.of \notin blank
     /\ restores' = (restores \ {r}) \cup {[r EXCEPT !.at = "parse"]}
     /\ recents' = <<r.of>> \o Without(r.of)
     /\ Render(r.of, NoWorkspace, IF switch THEN loaded \cap r.declared ELSE loaded, r.declared,
               [records EXCEPT ![r.of] = r.declared])
     /\ mixed' = IF r.from # NoWorkspace \/ loaded \subseteq fresh \cup r.declared THEN mixed
                 ELSE mixed \cup {r.of}
     /\ UNCHANGED <<unborn, blank, own, fresh>>

\* It has no files: nothing is open.
NothingThere(r) ==
  /\ r.at = "files" /\ r.of \in blank
  /\ restores' = restores \ {r}
  /\ Render(NoWorkspace, NoWorkspace, loaded, {}, records)
  /\ UNCHANGED <<recents, unborn, blank, own, fresh, mixed>>

\* Parsed: the declared bundles load, then the gate opens.
Synced(r) ==
  /\ r.at = "parse"
  /\ restores' = restores \ {r}
  /\ Render(open, r.of, loaded \cup WithDeps(r.declared), bound, records)
  /\ own' = IF open # r.of THEN own
            ELSE [own EXCEPT ![open] = WithDeps(@) \cup IF r.from = NoWorkspace THEN fresh ELSE {}]
  /\ fresh' = {}
  /\ UNCHANGED <<recents, unborn, blank, mixed>>

Left ==
  /\ open # NoWorkspace
  /\ Render(NoWorkspace, NoWorkspace, loaded, {}, records)
  /\ fresh' = {}
  /\ UNCHANGED <<recents, unborn, restores, own, mixed>>

\* handleReset, "Close workspace": its files are emptied.
Close == Left /\ blank' = blank \cup {open}

\* handleCreateWorkspace, "New workspace": back to the start page only.
StartPage == Left /\ UNCHANGED blank

Delete(w) ==
  /\ Usable /\ w \in Range(recents)
  /\ recents' = Without(w)
  /\ IF w = open THEN Render(NoWorkspace, NoWorkspace, loaded, {}, [records EXCEPT ![w] = {}])
                 ELSE Render(open, gate, loaded, bound, [records EXCEPT ![w] = {}])
  /\ own' = [own EXCEPT ![w] = {}]
  /\ UNCHANGED <<unborn, blank, restores, fresh, mixed>>

\* A reload, at any moment; the workspace opened last is restored.
Boot ==
  /\ Render(NoWorkspace, NoWorkspace, {}, {}, records)
  /\ restores' = {[of |-> w, at |-> "files", declared |-> records[w], from |-> NoWorkspace] :
                    w \in IF recents = <<>> THEN {} ELSE {Head(recents)}}
  /\ fresh' = {}
  /\ UNCHANGED <<recents, unborn, blank, own, mixed>>

RecordsNext ==
  \/ \E b \in Bundles : LoadBundle(b) \/ UnloadBundle(b)
  \/ \E w \in WorkspaceIds : CreateWorkspace(w) \/ Switch(w) \/ Delete(w)
  \/ \E r \in restores : Restored(r) \/ NothingThere(r) \/ Synced(r)
  \/ Close \/ StartPage \/ Boot

RecordsSpec == RecordsInit /\ [][RecordsNext]_books

-----------------------------------------------------------------------------

(***************************************************************************)
(* "Eviction makes the store a faithful projection of the destination      *)
(* workspace's declared bindings": however the user loads, switches,       *)
(* reloads and deletes, a record binds what was loaded in its own          *)
(* workspace, no less and no more (a dependency the user unloaded comes    *)
(* back with the next restoration, for own as for the record).  Not claimed *)
(* of a workspace opened while another was being restored, or opened or    *)
(* created while the store held bundles of one that was open before and    *)
(* that no switch evicts: there the code really mixes them.                *)
(***************************************************************************)
BindingsAreOwn ==
  \A w \in Range(recents) \ mixed : records[w] = own[w]
=============================================================================
