---------------------------- MODULE FormPreview ----------------------------
(***************************************************************************)
(* The form preview of the studio and the loading of curated namespaces it *)
(* asks for:                                                               *)
(*   apps/studio/src/workers/codegen-worker.ts (the preview: messages)     *)
(*   apps/studio/src/shell/providers/CodegenProvider.tsx                   *)
(*   apps/studio/src/services/hydration-orchestrator.ts                    *)
(*   apps/studio/src/store/preview-store.ts, App.tsx (hydration effect)    *)
(*                                                                         *)
(* The worker holds two caches tagged with the version of the files and is *)
(* suspended while it builds.  A schema with references into a namespace   *)
(* that is not loaded makes the studio load it and ask again, a bounded    *)
(* number of times.                                                        *)
(*                                                                         *)
(* Data: the files are the revision of the user's text, whether it parses, *)
(* and the namespaces merged into it.  A schema is the files it was made   *)
(* from.  Needs[t] is what t refers to, round by round.                    *)
(***************************************************************************)
EXTENDS Integers, Sequences, FiniteSets, SequencesExt, FiniteSetsExt

CONSTANTS
  Targets, Namespaces,
  None,
  Needs,        \* [Targets -> Seq(SUBSET Namespaces)]
  MaxAttempts,  \* MAX_HYDRATION_RETRIES_PER_TARGET
  Outcomes,     \* how a parse for hydration may end
  MaxTextEdits, MaxSelects

Files == [rev : 0..MaxTextEdits, ok : BOOLEAN, cur : SUBSET Namespaces]

ASSUME NullAssumption == None \notin Targets /\ None \notin Files
ASSUME NeedsAssumption == Needs \in [Targets -> Seq(SUBSET Namespaces)] /\ IsFiniteSet(Namespaces)
ASSUME FormBoundAssumption == MaxTextEdits \in Nat /\ MaxSelects \in Nat /\ MaxAttempts \in Nat

VARIABLES
  files,     \* the workspace files of the studio
  unsent,    \* the effect that posts a merge to the worker has not run yet
  chosen,    \* selectedTargetId
  selects,   \* selections so far (a bound)
  asked,     \* previewRequestSequence, the id of the current request
  schemas,   \* the last good schema of each target
  status,    \* what the panel says, and of which target
  left,      \* hydrationRetriesRemaining; MaxAttempts + 1 stands for undefined
  spent,     \* attemptsByTarget
  waiters,   \* waitingByNamespace
  retries,   \* timers that will ask for a target again
  hydrated, wanted,  \* hydratedNamespaces, pendingHydrationNamespaces
  parse,     \* the parse for hydration in flight: what it will mark, what it asked for
  listed,    \* deferredExports still lists the namespaces
  inbox, outbox,      \* messages to and from the worker
  worker,    \* its files, their version, the target it last worked for
  docs,      \* documentsCache
  cache,     \* previewSchemaCache
  builds       \* runPreview calls suspended in a build

studio == <<files, unsent, chosen, selects, asked, schemas, status, left, spent,
            waiters, retries, hydrated, wanted, parse, listed>>
thread == <<worker, docs, cache, builds>>
preview == <<studio, inbox, outbox, thread>>

NoParse == [marks |-> {}, wants |-> {}]
Undefined == MaxAttempts + 1

PreviewTypeOK ==
  /\ files \in Files /\ unsent \in BOOLEAN /\ chosen \in Targets \cup {None}
  /\ selects \in 0..MaxSelects /\ asked \in Nat
  /\ schemas \in [Targets -> Files \cup {None}]
  /\ status.state \in {"waiting", "ready", "stale", "unavailable"}
  /\ status.of \in Targets \cup {None}
  /\ left \in [Targets -> 0..Undefined] /\ spent \in [Targets -> 0..MaxAttempts]
  /\ waiters \in [Namespaces -> SUBSET Targets] /\ retries \in [Targets -> Nat]
  /\ hydrated \subseteq Namespaces /\ wanted \subseteq Namespaces
  /\ parse \in [marks : SUBSET Namespaces, wants : SUBSET Namespaces]
  /\ listed \in BOOLEAN
  /\ worker \in [have : Files, ver : Nat, target : Targets \cup {None}]
  /\ docs \in [ver : Int, of : Files \cup {None}]
  /\ cache \in [Targets -> [ver : Int, of : Files \cup {None}]]
  /\ \A j \in builds : j.target \in Targets /\ j.ver <= worker.ver /\ j.text \in Files
  /\ \A m \in ToSet(inbox) : m.target \in Targets \cup {None} /\ m.files \in Files \cup {None}
  /\ \A m \in ToSet(outbox) : m.target \in Targets /\ m.of \in Files \cup {None}

Start == [rev |-> 0, ok |-> TRUE, cur |-> {}]
Empty == [ver |-> -1, of |-> None]

PreviewInit ==
  /\ files = Start /\ unsent = FALSE /\ chosen = None /\ selects = 0 /\ asked = 0
  /\ schemas = [t \in Targets |-> None] /\ status = [state |-> "waiting", of |-> None]
  /\ left = [t \in Targets |-> Undefined] /\ spent = [t \in Targets |-> 0]
  /\ waiters = [n \in Namespaces |-> {}] /\ retries = [t \in Targets |-> 0]
  /\ hydrated = {} /\ wanted = {} /\ parse = NoParse /\ listed = TRUE
  /\ inbox = <<>> /\ outbox = <<>> /\ builds = {}
  /\ worker = [have |-> Start, ver |-> 1, target |-> None]
  /\ docs = Empty /\ cache = [t \in Targets |-> Empty]

\* What a schema of t made from f still misses: the first round of its
\* references that is not all there.
Missing(t, f) ==
  LET open == {k \in DOMAIN Needs[t] : ~(Needs[t][k] \subseteq f.cur)}
  IN IF open = {} THEN {} ELSE Needs[t][Min(open)] \ f.cur

-----------------------------------------------------------------------------
(* The worker. *)

\* preview:setFiles takes the files and works for the last target again.
\* preview:generate works for its own.
Message(target, f) == [req |-> asked', target |-> target, files |-> f]
Post(target, f) == inbox' = Append(inbox, Message(target, f))

\* The answer made of documents d, through the cache of schemas: d comes with
\* its version, and an entry of an older version never replaces a newer one.
Reply(req, target, d, store) ==
  LET entry == IF store[target].ver = d.ver THEN store[target]
               ELSE [ver |-> d.ver, of |-> IF d.of.ok THEN d.of ELSE None]
  IN /\ cache' = IF store[target].ver < d.ver THEN [store EXCEPT ![target] = entry] ELSE store
     /\ outbox' = Append(outbox, [req |-> req, target |-> target, of |-> entry.of])

\* runPreview up to its await: with the documents of this version at hand it
\* is not suspended at all.
RunPreview(req, target, w) ==
  IF docs.ver = w.ver
    THEN Reply(req, target, docs, cache) /\ UNCHANGED <<docs, builds>>
    ELSE /\ builds' = builds \cup {[req |-> req, target |-> target, ver |-> w.ver, text |-> w.have]}
         /\ UNCHANGED <<outbox, docs, cache>>

Handle ==
  /\ inbox # <<>> /\ inbox' = Tail(inbox)
  /\ LET m == Head(inbox)
         w == IF m.files # None
                THEN [worker EXCEPT !.have = m.files, !.ver = @ + 1]
                ELSE [worker EXCEPT !.target = m.target]
     IN /\ worker' = w
        /\ IF w.target # None THEN RunPreview(m.req, w.target, w)
           ELSE UNCHANGED <<outbox, docs, cache, builds>>
  /\ UNCHANGED studio

\* A build ends, in any order.  The user's text is the one of its start, the
\* curated documents are those the worker has now.
Built_TagsLive(j) ==
  /\ j \in builds /\ builds' = builds \ {j}
  /\ LET d == [ver |-> worker.ver, of |-> [j.text EXCEPT !.cur = worker.have.cur]]
     IN /\ docs' = IF docs.ver < d.ver THEN d ELSE docs
        /\ Reply(j.req, j.target, d, cache)
  /\ UNCHANGED <<studio, inbox, worker>>

Built(j) ==
  /\ j \in builds /\ builds' = builds \ {j}
  /\ LET d == [ver |-> j.ver, of |-> [j.text EXCEPT !.cur = worker.have.cur]]
     IN /\ docs' = IF docs.ver < d.ver THEN d ELSE docs
        /\ Reply(j.req, j.target, d, cache)
  /\ UNCHANGED <<studio, inbox, worker>>

-----------------------------------------------------------------------------
(* Hydration: the store, the orchestrator, the effect of App.tsx. *)

\* The effect of App.tsx runs again whenever wanted or the files change; the
\* parse it had in flight is cancelled.
Reparse(p, h) ==
  parse' = IF p = {} THEN NoParse ELSE [marks |-> p, wants |-> h \cup p]

Notify_OnlyHydrated(p, h) ==
  LET over == {n \in Namespaces : n \in h \/ n \notin p}
  IN /\ waiters' = [n \in Namespaces |-> IF n \in over THEN {} ELSE waiters[n]]
     /\ retries' = [t \in Targets |->
          IF \E n \in h : t \in waiters[n] THEN retries[t] + 1 ELSE retries[t]]

\* onHydrationChanged: whoever waits for a namespace that came, or that
\* nobody is loading any more, asks again.
Notify(p, h) ==
  LET over == {n \in Namespaces : n \in h \/ n \notin p}
  IN /\ waiters' = [n \in Namespaces |-> IF n \in over THEN {} ELSE waiters[n]]
     /\ retries' = [t \in Targets |->
          IF \E n \in over : t \in waiters[n] THEN retries[t] + 1 ELSE retries[t]]

\* One requestHydration for each namespace of a round: ask again at once for
\* what is there, wait for the rest.
RequestHydration(t, round) ==
  /\ waiters' = [n \in Namespaces |->
       IF n \in round \ hydrated THEN waiters[n] \cup {t} ELSE waiters[n]]
  /\ wanted' = wanted \cup (round \ hydrated)
  /\ retries' = [retries EXCEPT ![t] = @ + Cardinality(round \cap hydrated)]
  /\ IF wanted' = wanted THEN UNCHANGED parse ELSE Reparse(wanted', hydrated)

\* The parse for hydration settles.  "loaded": the namespaces are merged into
\* the files.  "fallback": the server was out of reach, the browser parsed the
\* user's files alone; the namespaces count as hydrated all the same, and the
\* list of exports is replaced by none unless the text has errors.  "failed":
\* the namespaces are taken off the queue.
HydrationParsed(outcome) ==
  /\ parse # NoParse
  /\ LET p == wanted \ parse.marks
         h == IF outcome = "failed" THEN hydrated ELSE hydrated \cup parse.marks
     IN wanted' = p /\ hydrated' = h /\ Notify(p, h) /\ Reparse(p, h)
  /\ files' = IF outcome = "loaded" THEN [files EXCEPT !.cur = @ \cup parse.wants] ELSE files
  /\ unsent' = (unsent \/ outcome = "loaded")
  /\ listed' = CASE outcome = "loaded" -> listed \/ files.ok
                 [] outcome = "fallback" -> listed /\ ~files.ok
                 [] OTHER -> listed
  /\ UNCHANGED <<chosen, selects, asked, schemas, status, left, spent, inbox, outbox, thread>>

-----------------------------------------------------------------------------
(* The studio. *)

\* A merge is rendered: its effects post the files and, as files changed,
\* start the parse for hydration over.
Commit ==
  /\ unsent /\ unsent' = FALSE
  /\ asked' = asked + 1 /\ Post(None, files)
  /\ Reparse(wanted, hydrated)
  /\ UNCHANGED <<files, chosen, selects, schemas, status, left, spent, waiters,
                 retries, hydrated, wanted, listed, outbox, thread>>

\* The user types; React runs the effects of a discrete event at once.
Edit(ok) ==
  /\ ~unsent /\ files.rev < MaxTextEdits
  /\ files' = [files EXCEPT !.rev = @ + 1, !.ok = ok]
  /\ asked' = asked + 1 /\ Post(None, files')
  /\ Reparse(wanted, hydrated)
  /\ UNCHANGED <<unsent, chosen, selects, schemas, status, left, spent, waiters,
                 retries, hydrated, wanted, listed, outbox, thread>>

Select(t) ==
  /\ t # chosen /\ selects < MaxSelects
  /\ selects' = selects + 1 /\ chosen' = t
  /\ status' = [state |-> "waiting", of |-> t]
  /\ asked' = asked + 1 /\ Post(t, None)
  /\ UNCHANGED <<files, unsent, schemas, left, spent, waiters, retries, hydrated,
                 wanted, parse, listed, outbox, thread>>

Retry_Anyway(t) ==
  /\ retries[t] > 0 /\ retries' = [retries EXCEPT ![t] = @ - 1]
  /\ asked' = asked + 1 /\ Post(t, None)
  /\ UNCHANGED <<files, unsent, chosen, selects, schemas, status, left, spent,
                 waiters, hydrated, wanted, parse, listed, outbox, thread>>

\* A timer of onRetry: the target is asked for again if it is still the one.
Retry(t) ==
  /\ retries[t] > 0 /\ retries' = [retries EXCEPT ![t] = @ - 1]
  /\ IF chosen = t THEN asked' = asked + 1 /\ Post(t, None)
     ELSE UNCHANGED <<asked, inbox>>
  /\ UNCHANGED <<files, unsent, chosen, selects, schemas, status, left, spent,
                 waiters, hydrated, wanted, parse, listed, outbox, thread>>

\* An answer to a request that is no longer the current one.
Drop ==
  /\ outbox # <<>> /\ Head(outbox).req # asked
  /\ outbox' = Tail(outbox)
  /\ UNCHANGED <<studio, inbox, thread>>

\* No schema: the target is not in what parses.
Stale ==
  /\ outbox # <<>> /\ Head(outbox).req = asked /\ Head(outbox).of = None
  /\ outbox' = Tail(outbox)
  /\ LET t == Head(outbox).target
     IN status' = IF chosen # t THEN status
                  ELSE [state |-> IF schemas[t] # None THEN "stale" ELSE "unavailable", of |-> t]
  /\ UNCHANGED <<files, unsent, chosen, selects, asked, schemas, left, spent, waiters,
                 retries, hydrated, wanted, parse, listed, inbox, thread>>

Show(t, f) ==
  /\ schemas' = [schemas EXCEPT ![t] = f]
  /\ status' = [state |-> "ready", of |-> t]

Resolved_KeepsCounting ==
  /\ outbox # <<>> /\ Head(outbox).req = asked /\ Head(outbox).of # None
  /\ LET m == Head(outbox)
         complete == Missing(m.target, m.of) = {}
     IN /\ complete \/ ~listed
        /\ Show(m.target, m.of)
        /\ spent' = IF complete THEN [spent EXCEPT ![m.target] = 0] ELSE spent
  /\ outbox' = Tail(outbox)
  /\ UNCHANGED <<files, unsent, chosen, selects, asked, left, waiters, retries, hydrated,
                 wanted, parse, listed, inbox, thread>>

\* A schema with nothing to load: all its references are there, or none of
\* those missing is listed.
Resolved ==
  /\ outbox # <<>> /\ Head(outbox).req = asked /\ Head(outbox).of # None
  /\ LET m == Head(outbox)
         complete == Missing(m.target, m.of) = {}
     IN /\ complete \/ ~listed
        /\ Show(m.target, m.of)
        /\ left' = [left EXCEPT ![m.target] = Undefined]
        /\ spent' = IF complete THEN [spent EXCEPT ![m.target] = 0] ELSE spent
  /\ outbox' = Tail(outbox)
  /\ UNCHANGED <<files, unsent, chosen, selects, asked, waiters, retries, hydrated,
                 wanted, parse, listed, inbox, thread>>

Unresolved_Uncapped ==
  /\ outbox # <<>> /\ Head(outbox).req = asked /\ Head(outbox).of # None
  /\ LET t == Head(outbox).target
         round == Missing(t, Head(outbox).of)
     IN /\ round # {} /\ listed
        /\ Show(t, Head(outbox).of)
        /\ spent' = [spent EXCEPT ![t] = @ + 1] /\ RequestHydration(t, round)
        /\ left' = [left EXCEPT ![t] = MaxAttempts - spent'[t]]
  /\ outbox' = Tail(outbox)
  /\ UNCHANGED <<files, unsent, chosen, selects, asked, hydrated, listed, inbox, thread>>

\* A schema with references into namespaces still to be loaded.
Unresolved ==
  /\ outbox # <<>> /\ Head(outbox).req = asked /\ Head(outbox).of # None
  /\ LET t == Head(outbox).target
         round == Missing(t, Head(outbox).of)
     IN /\ round # {} /\ listed
        /\ Show(t, Head(outbox).of)
        /\ IF spent[t] < MaxAttempts
             THEN spent' = [spent EXCEPT ![t] = @ + 1] /\ RequestHydration(t, round)
             ELSE UNCHANGED <<spent, waiters, retries, wanted, parse>>
        /\ left' = [left EXCEPT ![t] = MaxAttempts - spent'[t]]
  /\ outbox' = Tail(outbox)
  /\ UNCHANGED <<files, unsent, chosen, selects, asked, hydrated, listed, inbox, thread>>

Machinery ==
  \/ Handle \/ (\E j \in builds : Built(j))
  \/ Commit \/ (\E t \in Targets : Retry(t))
  \/ Drop \/ Stale \/ Resolved \/ Unresolved
  \/ \E outcome \in Outcomes : HydrationParsed(outcome)

PreviewNext ==
  \/ Machinery
  \/ \E ok \in BOOLEAN : Edit(ok)
  \/ \E t \in Targets : Select(t)

PreviewSpec == PreviewInit /\ [][PreviewNext]_preview

-----------------------------------------------------------------------------
(* Properties. *)

PreviewSettled ==
  /\ ~unsent /\ inbox = <<>> /\ outbox = <<>> /\ builds = {} /\ parse = NoParse
  /\ \A t \in Targets : retries[t] = 0

\* When everything has settled the panel is about the chosen target, and a
\* form it calls ready was made from the files as they are now: no answer for
\* an earlier selection, text or set of namespaces is left standing.
ShownIsCurrent ==
  PreviewSettled /\ chosen # None =>
    /\ status.of = chosen /\ status.state # "waiting"
    /\ (status.state = "ready") = files.ok
    /\ files.ok => schemas[chosen] = files

\* A form that has settled with references missing has used up its attempts,
\* or has lost the list that says where to find them.  Nobody gives up early.
GivesUpOnlyWhenSpent ==
  PreviewSettled /\ chosen # None /\ status.state = "ready" /\ listed =>
    Missing(chosen, files) = {} \/ left[chosen] = 0

\* A cached result with the version of the worker's files was made from those
\* files, although a build may be suspended while they are replaced.
CacheIsOfItsVersion ==
  /\ docs.ver = worker.ver => docs.of = worker.have
  /\ \A t \in Targets : cache[t].ver = worker.ver =>
       cache[t].of = IF worker.have.ok THEN worker.have ELSE None

\* The panel shows "Resolving reference...".
Resolving == /\ chosen # None /\ status = [state |-> "ready", of |-> chosen]
             /\ left[chosen] \in 1..MaxAttempts
=============================================================================
