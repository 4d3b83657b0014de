---------------------------- MODULE CodePreview ----------------------------
(***************************************************************************)
(* The code preview of the studio:                                         *)
(*   apps/studio/src/shell/providers/CodegenProvider.tsx                   *)
(*   apps/studio/src/store/codegen-store.ts                                *)
(*   apps/studio/src/components/CodePreviewPanel.tsx (the view toggle)     *)
(*   apps/studio/src/workers/codegen-worker.ts (the codegen: messages)     *)
(*                                                                         *)
(* The worker runs a generation for every message, those of an edit        *)
(* included, and is suspended twice in each; the studio takes an answer    *)
(* only under the id of its last question.                                 *)
(*                                                                         *)
(* Data: the source is its revision and whether it parses, has errors or   *)
(* is empty; generated code is the revision it came from.                  *)
(***************************************************************************)
EXTENDS Integers, Sequences, SequencesExt

CONSTANTS
  Languages,   \* the targets: Zod, TypeScript, ...
  Default,     \* DEFAULT_TARGET
  NoLanguage,
  MaxRevision, \* bound on edits
  MaxQuestions \* bound on toggles of the view

VARIABLES
  source,     \* the user's files
  active,     \* activeTarget: the language the panel shows, if any
  target,     \* codePreviewTarget
  question,   \* codegenCurrentRequestIdRef; 0 before the first
  questions,  \* ids given out by beginCodePreviewRequest
  askedOf,    \* the revision at the time of the question (a ghost)
  snapshot,   \* what the panel shows
  calls, replies,  \* messages to and from the worker
  generator,  \* the worker: files, their version, last target and id
  runs,       \* runCodegen calls suspended in an await
  generated   \* codegenGenerateCache

panel == <<source, active, target, question, questions, askedOf, snapshot>>
codegen == <<panel, calls, replies, generator, runs, generated>>

Source == [rev : 0..MaxRevision, kind : {"good", "broken", "empty"}]
FilesId == 0   \* "codegen:files:n": no question has such an id
Nothing == [ver |-> -1, rev |-> -1]
State == {"waiting", "ready", "stale", "unavailable"}

ASSUME LanguageAssumption == Default \in Languages /\ NoLanguage \notin Languages
ASSUME CodeBoundAssumption == MaxRevision \in Nat /\ MaxQuestions \in Nat

CodeTypeOK ==
  /\ source \in Source /\ active \in Languages \cup {NoLanguage} /\ target \in Languages
  /\ question \in 0..questions /\ questions \in 0..MaxQuestions /\ askedOf \in 0..MaxRevision
  /\ snapshot \in [state : State, of : Languages, rev : -1..MaxRevision]
  /\ generator.files \in Source /\ generator.target \in Languages /\ generator.id \in 0..questions
  /\ \A c \in ToSet(calls) : c.id \in 0..questions
  /\ \A a \in ToSet(replies) : a.kind \in {"result", "outdated", "error"} /\ a.of \in Languages
  /\ \A r \in runs : r.at \in {"build", "generate"} /\ r.ver <= generator.ver
  /\ generated \in [Languages -> [ver : Int, rev : -1..MaxRevision]]

CodeInit ==
  /\ source = [rev |-> 0, kind |-> "good"]
  /\ active = NoLanguage /\ target = Default
  /\ question = 0 /\ questions = 0 /\ askedOf = 0
  /\ snapshot = [state |-> "waiting", of |-> Default, rev |-> -1]
  /\ calls = <<>> /\ replies = <<>> /\ runs = {}
  /\ generator = [files |-> source, ver |-> 1, target |-> Default, id |-> FilesId]
  /\ generated = [l \in Languages |-> Nothing]

-----------------------------------------------------------------------------
(* The studio. *)

\* The files change; their effect sends them, under an id of its own.
Revise(kind) ==
  /\ source.rev < MaxRevision
  /\ source' = [rev |-> source.rev + 1, kind |-> kind]
  /\ calls' = Append(calls, [type |-> "setFiles", files |-> source', of |-> target, id |-> FilesId])
  /\ UNCHANGED <<active, target, question, questions, askedOf, snapshot,
                 replies, generator, runs, generated>>

\* The eye of a language is clicked: the one shown is hidden, another one is
\* asked for, under a fresh id and with an empty panel.
Hide ==
  /\ active # NoLanguage /\ active' = NoLanguage
  /\ UNCHANGED <<source, target, question, questions, askedOf, snapshot,
                 calls, replies, generator, runs, generated>>

View(l) ==
  /\ l # active /\ questions < MaxQuestions
  /\ active' = l /\ target' = l
  /\ questions' = questions + 1 /\ question' = questions'
  /\ askedOf' = source.rev
  /\ snapshot' = [state |-> "waiting", of |-> l, rev |-> -1]
  /\ calls' = Append(calls, [type |-> "generate", files |-> source, of |-> l, id |-> question'])
  /\ UNCHANGED <<source, replies, generator, runs, generated>>

\* receiveCodePreviewResult, markCodePreviewStale, markCodePreviewUnavailable.
Shown(a) ==
  CASE a.kind = "result" -> [state |-> "ready", of |-> a.of, rev |-> a.rev]
    [] a.kind = "outdated" /\ snapshot.rev # -1 -> [state |-> "stale", of |-> a.of, rev |-> snapshot.rev]
    [] OTHER -> [state |-> "unavailable", of |-> a.of, rev |-> -1]

\* An answer counts only under the id of the last question.
Receive ==
  /\ replies # <<>> /\ replies' = Tail(replies)
  /\ LET a == Head(replies)
     IN IF a.id = question /\ question # 0
          THEN target' = a.of /\ snapshot' = Shown(a)
          ELSE UNCHANGED <<target, snapshot>>
  /\ UNCHANGED <<source, active, question, questions, askedOf, calls, generator, runs, generated>>

-----------------------------------------------------------------------------
(* The worker. *)

Answered(l, id, kind, rev) ==
  replies' = Append(replies, [kind |-> kind, of |-> l, id |-> id, rev |-> rev])

\* runCodegen up to its first await.
RunCodegen(g) ==
  IF g.files.kind = "empty"
    THEN Answered(g.target, g.id, "outdated", -1) /\ UNCHANGED runs
    ELSE /\ runs' = runs \cup {[of |-> g.target, id |-> g.id, ver |-> g.ver,
                                text |-> g.files, at |-> "build"]}
         /\ UNCHANGED replies

Take_KeepsId ==
  /\ calls # <<>> /\ calls' = Tail(calls)
  /\ LET c == Head(calls)
         g == IF c.type = "setFiles"
                THEN [generator EXCEPT !.files = c.files, !.ver = @ + 1, !.id = c.id]
                ELSE [generator EXCEPT !.target = c.of]
     IN generator' = g /\ RunCodegen(g)
  /\ UNCHANGED <<panel, generated>>

\* Both messages leave their id behind and start a run for the last target.
Take ==
  /\ calls # <<>> /\ calls' = Tail(calls)
  /\ LET c == Head(calls)
         g == IF c.type = "setFiles"
                THEN [generator EXCEPT !.files = c.files, !.ver = @ + 1, !.id = c.id]
                ELSE [generator EXCEPT !.target = c.of, !.id = c.id]
     IN generator' = g /\ RunCodegen(g)
  /\ UNCHANGED <<panel, generated>>

BuildDone_AnyVersion(r) ==
  /\ r \in runs /\ r.at = "build"
  /\ IF r.text.kind = "broken"
       THEN Answered(r.of, r.id, "outdated", -1) /\ runs' = runs \ {r}
       ELSE IF generated[r.of].ver # -1
         THEN Answered(r.of, r.id, "result", generated[r.of].rev) /\ runs' = runs \ {r}
         ELSE runs' = (runs \ {r}) \cup {[r EXCEPT !.at = "generate"]} /\ UNCHANGED replies
  /\ UNCHANGED <<panel, calls, generator, generated>>

\* The build has ended: no code from a text with errors; the cached code of
\* the version the run started with; or a second await, generate().
BuildDone(r) ==
  /\ r \in runs /\ r.at = "build"
  /\ IF r.text.kind = "broken"
       THEN Answered(r.of, r.id, "outdated", -1) /\ runs' = runs \ {r}
       ELSE IF generated[r.of].ver = r.ver
         THEN Answered(r.of, r.id, "result", generated[r.of].rev) /\ runs' = runs \ {r}
         ELSE runs' = (runs \ {r}) \cup {[r EXCEPT !.at = "generate"]} /\ UNCHANGED replies
  /\ UNCHANGED <<panel, calls, generator, generated>>

GenerateDone_TagsLive(r) ==
  /\ r \in runs /\ r.at = "generate" /\ runs' = runs \ {r}
  /\ generated' = [generated EXCEPT ![r.of] =
       IF @.ver < generator.ver THEN [ver |-> generator.ver, rev |-> r.text.rev] ELSE @]
  /\ Answered(r.of, r.id, "result", r.text.rev)
  /\ UNCHANGED <<panel, calls, generator>>

\* The code is there: cached under the version of the start, unless a later
\* run was faster.  Or the generator has failed.
GenerateDone(r) ==
  /\ r \in runs /\ r.at = "generate" /\ runs' = runs \ {r}
  /\ \/ /\ generated' = [generated EXCEPT ![r.of] =
             IF @.ver < r.ver THEN [ver |-> r.ver, rev |-> r.text.rev] ELSE @]
        /\ Answered(r.of, r.id, "result", r.text.rev)
     \/ Answered(r.of, r.id, "error", -1) /\ UNCHANGED generated
  /\ UNCHANGED <<panel, calls, generator>>

Generation == \/ Receive \/ Take
              \/ \E r \in runs : BuildDone(r) \/ GenerateDone(r)

CodeNext ==
  \/ Generation
  \/ \E kind \in {"good", "broken", "empty"} : Revise(kind)
  \/ Hide
  \/ \E l \in Languages : View(l)

CodeSpec == CodeInit /\ [][CodeNext]_codegen

-----------------------------------------------------------------------------
(* Properties. *)

\* Code on the panel is in the language that was asked for last, and from a
\* source no older than the one at the time of the question.
SnapshotAnswersTheQuestion ==
  /\ snapshot.of = target /\ (active # NoLanguage => target = active)
  /\ snapshot.state = "ready" => snapshot.rev >= askedOf

\* Cached code with the version of the worker's files came from those files,
\* although files may be replaced in either await of a run.
GeneratedIsOfItsVersion ==
  \A l \in Languages :
    generated[l].ver = generator.ver => generated[l].rev = generator.files.rev

\* What the panel shows and what the cache holds is of the right source.
CodeIsOfItsSource == SnapshotAnswersTheQuestion /\ GeneratedIsOfItsVersion

\* A question about the language on view waits for its answer.
Asking == snapshot.state = "waiting" /\ active # NoLanguage

\* The panel follows the source: once nothing is under way, the code it shows
\* for a source that parses is that source's
\* (specs/015-rune-codegen-zod/spec.md, FR-017).
PreviewFollowsSource ==
  calls = <<>> /\ replies = <<>> /\ runs = {} /\ active # NoLanguage /\ source.kind = "good"
    => (snapshot.state = "ready" => snapshot.rev = source.rev)


\* The safety half of the wait for code: while the panel waits, its question
\* is with the worker or an answer is on its way, and once it has been
\* answered nothing is left that could answer it again.
AtWorker == (\E i \in DOMAIN calls : calls[i].id = question) \/ (\E r \in runs : r.id = question)
OnItsWayBack == \E i \in DOMAIN replies : replies[i].id = question

AnsweredOnce ==
  question # 0 => (snapshot.state = "waiting" <=> AtWorker \/ OnItsWayBack)
=============================================================================
