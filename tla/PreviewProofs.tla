--------------------------- MODULE PreviewProofs ---------------------------
(***************************************************************************)
(* Proofs about the two previews of the studio: CodePreview for any        *)
(* languages, edits and questions, FormPreview for any targets, references *)
(* and namespaces, any number of edits and selections, and any outcomes of *)
(* the parse for hydration.                                                *)
(***************************************************************************)
EXTENDS CodePreview, FormPreview, SequenceTheorems, WellFoundedInduction, FiniteSetTheorems, TLAPS

-----------------------------------------------------------------------------
(* The code preview: its invariant. *)

Call == [type : {"setFiles", "generate"}, files : Source, of : Languages, id : Nat]
CodeReply == [kind : {"result", "outdated", "error"}, of : Languages, id : Nat, rev : -1..MaxRevision]
Run == [of : Languages, id : Nat, ver : Nat, text : Source, at : {"build", "generate"}]
Panel == [state : State, of : Languages, rev : -1..MaxRevision]
Generator == [files : Source, ver : Nat, target : Languages, id : Nat]
Entry == [ver : Int, rev : -1..MaxRevision]

Types ==
  /\ source \in Source /\ active \in Languages \cup {NoLanguage} /\ target \in Languages
  /\ question = questions /\ questions \in 0..MaxQuestions /\ askedOf \in 0..MaxRevision
  /\ snapshot \in Panel /\ calls \in Seq(Call) /\ replies \in Seq(CodeReply)
  /\ runs \subseteq Run /\ generator \in Generator /\ generated \in [Languages -> Entry]

\* No id is of a question that was not asked.
IdsGivenOut ==
  /\ generator.id <= questions
  /\ \A i \in DOMAIN calls : calls[i].id <= questions
  /\ \A i \in DOMAIN replies : replies[i].id <= questions
  /\ \A r \in runs : r.id <= questions

\* The worker's version counts the revisions it was sent: two texts have the
\* same version only if they are the same.
Versioned ==
  /\ generator.ver = generator.files.rev + 1
  /\ \A r \in runs : r.ver = r.text.rev + 1 /\ r.text.rev <= generator.files.rev
  /\ \A l \in Languages :
       \/ generated[l].ver = -1
       \/ generated[l].ver = generated[l].rev + 1 /\ generated[l].rev >= 0

Sent == {i \in DOMAIN calls : calls[i].type = "setFiles"}

\* The revisions the worker does not have yet are on their way, in order.
InOrder ==
  /\ generator.files.rev <= source.rev
  /\ \A i \in Sent : calls[i].files.rev \in (generator.files.rev + 1)..source.rev
  /\ \A i, j \in Sent : i < j => calls[i].files.rev < calls[j].files.rev
  /\ \A v \in (generator.files.rev + 1)..source.rev : \E i \in Sent : calls[i].files.rev = v

\* Whatever has the id of the last question is about its language, and from a
\* text no older than the one at the time of the question.
Answering ==
  /\ askedOf <= source.rev
  /\ \A i \in Sent : calls[i].id = FilesId
  /\ \A i \in DOMAIN calls : calls[i].id = question /\ question # 0 =>
       /\ calls[i].of = target
       /\ \A j \in Sent : i < j => calls[j].files.rev > askedOf
  /\ \A r \in runs : r.id = question /\ question # 0 =>
       r.of = target /\ r.text.rev >= askedOf
  /\ \A i \in DOMAIN replies : replies[i].id = question /\ question # 0 =>
       replies[i].of = target /\ (replies[i].kind = "result" => replies[i].rev >= askedOf)

CodeInv == Types /\ IdsGivenOut /\ Versioned /\ InOrder /\ Answering /\ SnapshotAnswersTheQuestion

-----------------------------------------------------------------------------
(* Queues. *)

LEMMA Taken ==
  ASSUME NEW S, NEW q \in Seq(S), q # <<>>
  PROVE  /\ Head(q) \in S /\ Head(q) = q[1] /\ 1 \in DOMAIN q
         /\ Tail(q) \in Seq(S) /\ Len(Tail(q)) = Len(q) - 1
         /\ \A i \in DOMAIN Tail(q) : i + 1 \in DOMAIN q /\ Tail(q)[i] = q[i + 1]
         /\ \A i \in DOMAIN q : i = 1 \/ i - 1 \in DOMAIN Tail(q)
         /\ DOMAIN q \subseteq Nat \ {0} /\ DOMAIN Tail(q) \subseteq Nat \ {0}
OBVIOUS

LEMMA Queued ==
  ASSUME NEW S, NEW q \in Seq(S), NEW x \in S
  PROVE  /\ Append(q, x) \in Seq(S) /\ Len(q) \in Nat
         /\ DOMAIN Append(q, x) = DOMAIN q \cup {Len(q) + 1} /\ DOMAIN q = 1..Len(q)
         /\ \A i \in DOMAIN q : Append(q, x)[i] = q[i] /\ i < Len(q) + 1
         /\ Append(q, x)[Len(q) + 1] = x
OBVIOUS

-----------------------------------------------------------------------------
(* Types. *)

LEMMA TypesInit == CodeInit => Types
<1> SUFFICES ASSUME CodeInit PROVE Types
  OBVIOUS
<1>1. source \in Source
  BY CodeBoundAssumption DEF CodeInit, Source
<1>2. generator \in Generator
  BY <1>1, LanguageAssumption DEF CodeInit, Generator, FilesId
<1>3. snapshot \in Panel
  BY LanguageAssumption, CodeBoundAssumption DEF CodeInit, Panel, State
<1>4. generated \in [Languages -> Entry]
  BY CodeBoundAssumption DEF CodeInit, Entry, Nothing
<1>5. QED
  BY <1>1, <1>2, <1>3, <1>4, LanguageAssumption, CodeBoundAssumption DEF CodeInit, Types

\* An answer that is written keeps the queue of answers well formed.
LEMMA AnsweredTypes ==
  ASSUME Types, NEW l \in Languages, NEW id \in Nat, NEW rev \in -1..MaxRevision,
         NEW kind \in {"result", "outdated", "error"}, Answered(l, id, kind, rev)
  PROVE  replies' \in Seq(CodeReply)
<1>1. [kind |-> kind, of |-> l, id |-> id, rev |-> rev] \in CodeReply
  BY DEF CodeReply
<1>2. QED
  BY <1>1, Queued DEF Answered, Types

\* A message of the studio, and what the worker makes of it.
Heard(c) == IF c.type = "setFiles"
              THEN [generator EXCEPT !.files = c.files, !.ver = @ + 1, !.id = c.id]
              ELSE [generator EXCEPT !.target = c.of, !.id = c.id]

LEMMA HeardTypes ==
  ASSUME Types, NEW c \in Call
  PROVE  /\ Heard(c) \in Generator /\ Heard(c).id = c.id
         /\ c.type = "setFiles" => /\ Heard(c).files = c.files /\ Heard(c).ver = generator.ver + 1
                                   /\ Heard(c).target = generator.target
         /\ c.type # "setFiles" => /\ Heard(c).files = generator.files /\ Heard(c).ver = generator.ver
                                   /\ Heard(c).target = c.of
<1>1. generator \in Generator
  BY DEF Types
<1>2. CASE c.type = "setFiles"
  <2>1. Heard(c) = [generator EXCEPT !.files = c.files, !.ver = @ + 1, !.id = c.id]
    BY <1>2 DEF Heard
  <2>2. c.files \in Source /\ c.id \in Nat /\ generator.ver + 1 \in Nat
    BY <1>1 DEF Generator, Call
  <2>3. /\ Heard(c).files = c.files /\ Heard(c).ver = generator.ver + 1
        /\ Heard(c).target = generator.target /\ Heard(c).id = c.id
    BY <1>1, <2>1 DEF Generator
  <2>4. Heard(c) \in Generator
    BY <1>1, <2>1, <2>2 DEF Generator
  <2>5. QED
    BY <1>2, <2>3, <2>4
<1>3. CASE c.type # "setFiles"
  <2>1. Heard(c) = [generator EXCEPT !.target = c.of, !.id = c.id]
    BY <1>3 DEF Heard
  <2>2. QED
    BY <1>1, <1>3, <2>1 DEF Generator, Call
<1>4. QED
  BY <1>2, <1>3

\* Take, read once: the first message is heard and starts a run.
RunOf(g) == [of |-> g.target, id |-> g.id, ver |-> g.ver, text |-> g.files, at |-> "build"]

LEMMA RunOfTypes ==
  ASSUME NEW g \in Generator
  PROVE  /\ RunOf(g) \in Run /\ RunOf(g).of = g.target /\ RunOf(g).id = g.id
         /\ RunOf(g).ver = g.ver /\ RunOf(g).text = g.files
BY DEF RunOf, Run, Generator

LEMMA TakeReads ==
  ASSUME Types, Take
  PROVE  /\ calls # <<>> /\ calls' = Tail(calls) /\ Head(calls) \in Call
         /\ generator' = Heard(Head(calls)) /\ generator' \in Generator
         /\ \/ runs' = runs \cup {RunOf(generator')} /\ UNCHANGED replies
            \/ Answered(generator'.target, generator'.id, "outdated", -1) /\ UNCHANGED runs
         /\ UNCHANGED <<panel, generated>>
<1>1. calls # <<>> /\ calls' = Tail(calls) /\ generator' = Heard(Head(calls)) /\ RunCodegen(generator')
  BY DEF Take, Heard
<1>2. Head(calls) \in Call
  BY <1>1, Taken DEF Types
<1>3. generator' \in Generator
  BY <1>1, <1>2, HeardTypes
<1>4. UNCHANGED <<panel, generated>>
  BY DEF Take
<1>5. QED
  BY <1>1, <1>2, <1>3, <1>4 DEF RunCodegen, RunOf

LEMMA TypesNext == Types /\ [CodeNext]_codegen => Types'
<1> SUFFICES ASSUME Types, [CodeNext]_codegen PROVE Types'
  OBVIOUS
<1>1. ASSUME NEW kind \in {"good", "broken", "empty"}, Revise(kind) PROVE Types'
  <2>1. source' \in Source
    <3>1. source.rev \in Nat /\ source.rev < MaxRevision
      BY <1>1, CodeBoundAssumption DEF Types, Revise, Source
    <3>2. source' = [rev |-> source.rev + 1, kind |-> kind]
      BY <1>1 DEF Revise
    <3>3. source.rev + 1 \in 0..MaxRevision
      BY <3>1, CodeBoundAssumption
    <3>4. QED
      BY <3>2, <3>3 DEF Source
  <2>2. [type |-> "setFiles", files |-> source', of |-> target, id |-> FilesId] \in Call
    BY <2>1 DEF Types, Call, FilesId
  <2>3. calls' \in Seq(Call)
    BY <1>1, <2>2, Queued DEF Types, Revise
  <2>4. QED
    BY <1>1, <2>1, <2>3 DEF Types, Revise
<1>2. CASE Hide
  BY <1>2 DEF Types, Hide
<1>3. ASSUME NEW l \in Languages, View(l) PROVE Types'
  <2>1. questions' \in 0..MaxQuestions /\ question' = questions' /\ question' \in Nat
    BY <1>3, CodeBoundAssumption DEF Types, View
  <2>2. [type |-> "generate", files |-> source, of |-> l, id |-> question'] \in Call
    BY <2>1 DEF Types, Call
  <2>3. calls' \in Seq(Call)
    BY <1>3, <2>2, Queued DEF Types, View
  <2>4. snapshot' \in Panel
    BY <1>3, CodeBoundAssumption DEF View, Panel, State
  <2>5. askedOf' \in 0..MaxRevision
    BY <1>3 DEF Types, View, Source
  <2>6. QED
    BY <1>3, <2>1, <2>3, <2>4, <2>5 DEF Types, View
<1>4. CASE Receive
  <2>1. /\ Head(replies) \in CodeReply /\ replies' \in Seq(CodeReply)
    BY <1>4, Taken DEF Types, Receive
  <2>2. Shown(Head(replies)) \in Panel
    BY <2>1, CodeBoundAssumption DEF Shown, Panel, State, CodeReply, Types
  <2>3. target' \in Languages /\ snapshot' \in Panel
    BY <1>4, <2>1, <2>2 DEF Types, Receive, CodeReply
  <2>4. QED
    BY <1>4, <2>1, <2>3 DEF Types, Receive
<1>5. CASE Take
  <2> USE <1>5, TakeReads
  <2>1. calls' \in Seq(Call)
    <3>1. calls \in Seq(Call) /\ calls # <<>> /\ calls' = Tail(calls)
      BY DEF Types
    <3>2. QED
      BY <3>1, Taken
  <2>2. runs' \subseteq Run
    BY RunOfTypes DEF Types
  <2>3. replies' \in Seq(CodeReply)
    <3>1. generator'.target \in Languages /\ generator'.id \in Nat /\ -1 \in -1..MaxRevision
      BY CodeBoundAssumption DEF Generator
    <3>2. QED
      BY <3>1, AnsweredTypes DEF Types
  <2>4. QED
    BY <2>1, <2>2, <2>3 DEF Types, panel
<1>6. ASSUME NEW r \in runs, BuildDone(r) PROVE Types'
  <2>1. r \in Run /\ r.of \in Languages /\ r.id \in Nat /\ -1 \in -1..MaxRevision
    BY CodeBoundAssumption DEF Types, Run
  <2>2. generated[r.of].rev \in -1..MaxRevision
    BY <2>1 DEF Types, Entry
  <2>3. replies' \in Seq(CodeReply)
    BY <1>6, <2>1, <2>2, AnsweredTypes DEF BuildDone, Types
  <2>4. [r EXCEPT !.at = "generate"] \in Run
    BY <2>1 DEF Run
  <2>5. runs' \subseteq Run
    BY <1>6, <2>4 DEF BuildDone, Types
  <2>6. QED
    BY <1>6, <2>3, <2>5 DEF BuildDone, Types, panel
<1>7. ASSUME NEW r \in runs, GenerateDone(r) PROVE Types'
  <2>1. /\ r \in Run /\ r.of \in Languages /\ r.id \in Nat /\ -1 \in -1..MaxRevision
        /\ r.text.rev \in -1..MaxRevision /\ r.ver \in Int
    BY CodeBoundAssumption DEF Types, Run, Source
  <2>2. replies' \in Seq(CodeReply)
    BY <1>7, <2>1, AnsweredTypes DEF GenerateDone
  <2>3. [ver |-> r.ver, rev |-> r.text.rev] \in Entry
    BY <2>1 DEF Entry
  <2>4. generated' \in [Languages -> Entry]
    BY <1>7, <2>1, <2>3 DEF GenerateDone, Types
  <2>5. QED
    BY <1>7, <2>2, <2>4 DEF GenerateDone, Types, panel
<1>8. CASE UNCHANGED codegen
  BY <1>8 DEF Types, codegen, panel
<1>9. QED
  BY <1>1, <1>2, <1>3, <1>4, <1>5, <1>6, <1>7, <1>8 DEF CodeNext, Generation

LEMMA Items ==
  ASSUME Types
  PROVE  /\ \A i \in DOMAIN calls : calls[i] \in Call /\ calls[i].id \in Nat /\ calls[i].files \in Source
         /\ \A i \in DOMAIN replies : replies[i] \in CodeReply /\ replies[i].id \in Nat
         /\ \A r \in runs : r.id \in Nat /\ r.text.rev \in Nat
         /\ generator.id \in Nat /\ generator.files.rev \in Nat /\ generator.ver \in Nat
         /\ questions \in Nat /\ source.rev \in Nat /\ askedOf \in Nat
<1>1. \A i \in DOMAIN calls : calls[i] \in Call
  BY DEF Types
<1>2. \A i \in DOMAIN replies : replies[i] \in CodeReply
  BY DEF Types
<1>3. \A r \in runs : r \in Run
  BY DEF Types
<1>4. /\ generator.id \in Nat /\ generator.files.rev \in Nat /\ generator.ver \in Nat
      /\ questions \in Nat /\ source.rev \in Nat /\ askedOf \in Nat
  BY CodeBoundAssumption DEF Types, Generator, Source
<1>5. \A i \in DOMAIN calls : calls[i].id \in Nat /\ calls[i].files \in Source
  BY <1>1 DEF Call
<1>6. \A i \in DOMAIN replies : replies[i].id \in Nat
  BY <1>2 DEF CodeReply
<1>7. \A r \in runs : r.id \in Nat /\ r.text.rev \in Nat
  BY <1>3, CodeBoundAssumption DEF Run, Source
<1>8. QED
  BY <1>1, <1>2, <1>4, <1>5, <1>6, <1>7

-----------------------------------------------------------------------------
(* What one step adds to the queues and to the runs. *)

LEMMA AnsweredReads ==
  ASSUME Types, NEW l \in Languages, NEW id \in Nat, NEW rev \in -1..MaxRevision,
         NEW kind \in {"result", "outdated", "error"}, Answered(l, id, kind, rev)
  PROVE  \A i \in DOMAIN replies' :
           \/ i \in DOMAIN replies /\ replies'[i] = replies[i]
           \/ /\ replies'[i].kind = kind /\ replies'[i].of = l
              /\ replies'[i].id = id /\ replies'[i].rev = rev
<1> DEFINE a == [kind |-> kind, of |-> l, id |-> id, rev |-> rev]
<1>1. a \in CodeReply /\ a.kind = kind /\ a.of = l /\ a.id = id /\ a.rev = rev
  BY DEF CodeReply
<1>2. replies' = Append(replies, a) /\ replies \in Seq(CodeReply)
  BY DEF Answered, Types
<1> HIDE DEF a
<1>3. QED
  BY <1>1, <1>2, Queued

\* A run keeps its id, its language and its text to the end, and answers with
\* the code of that text.
LEMMA RunsGo ==
  ASSUME Types, Versioned, NEW r \in runs, BuildDone(r) \/ GenerateDone(r)
  PROVE  /\ \A s \in runs' : \E q \in runs :
              s.of = q.of /\ s.id = q.id /\ s.ver = q.ver /\ s.text = q.text
         /\ \A i \in DOMAIN replies' :
              \/ i \in DOMAIN replies /\ replies'[i] = replies[i]
              \/ /\ replies'[i].id = r.id /\ replies'[i].of = r.of
                 /\ replies'[i].kind = "result" => replies'[i].rev = r.text.rev
         /\ UNCHANGED <<panel, calls, generator>>
<1>1. /\ r \in Run /\ r.of \in Languages /\ r.id \in Nat /\ -1 \in -1..MaxRevision
      /\ r.text.rev \in -1..MaxRevision /\ r.text.rev \in Nat
  BY CodeBoundAssumption DEF Types, Run, Source
<1>2. generated[r.of].rev \in -1..MaxRevision
  BY <1>1 DEF Types, Entry
<1>3. CASE BuildDone(r)
  <2>1. \A i \in DOMAIN replies' :
          \/ i \in DOMAIN replies /\ replies'[i] = replies[i]
          \/ /\ replies'[i].id = r.id /\ replies'[i].of = r.of
             /\ replies'[i].kind = "result" => replies'[i].rev = r.text.rev
    <3>1. CASE r.text.kind = "broken"
      <4>1. Answered(r.of, r.id, "outdated", -1)
        BY <1>3, <3>1 DEF BuildDone
      <4>2. QED
        BY <1>1, <4>1, AnsweredReads
    <3>2. CASE r.text.kind # "broken" /\ generated[r.of].ver = r.ver
      <4>1. Answered(r.of, r.id, "result", generated[r.of].rev)
        BY <1>3, <3>2 DEF BuildDone
      <4>2. generated[r.of].rev = r.text.rev
        BY <1>1, <1>2, <3>2 DEF Versioned
      <4>3. QED
        BY <1>1, <4>1, <4>2, AnsweredReads
    <3>3. CASE r.text.kind # "broken" /\ generated[r.of].ver # r.ver
      BY <1>3, <3>3 DEF BuildDone
    <3>4. QED
      BY <3>1, <3>2, <3>3
  <2>2. \A s \in runs' : \E q \in runs :
          s.of = q.of /\ s.id = q.id /\ s.ver = q.ver /\ s.text = q.text
    <3> DEFINE n == [r EXCEPT !.at = "generate"]
    <3>1. n.of = r.of /\ n.id = r.id /\ n.ver = r.ver /\ n.text = r.text
      BY <1>1 DEF Run
    <3>2. runs' \subseteq runs \cup {n}
      BY <1>3 DEF BuildDone
    <3> HIDE DEF n
    <3>3. QED
      BY <3>1, <3>2
  <2>3. QED
    BY <1>3, <2>1, <2>2 DEF BuildDone
<1>4. CASE GenerateDone(r)
  <2>1. \A i \in DOMAIN replies' :
          \/ i \in DOMAIN replies /\ replies'[i] = replies[i]
          \/ /\ replies'[i].id = r.id /\ replies'[i].of = r.of
             /\ replies'[i].kind = "result" => replies'[i].rev = r.text.rev
    <3>1. Answered(r.of, r.id, "result", r.text.rev) \/ Answered(r.of, r.id, "error", -1)
      BY <1>4 DEF GenerateDone
    <3>2. CASE Answered(r.of, r.id, "result", r.text.rev)
      BY <1>1, <3>2, AnsweredReads
    <3>3. CASE Answered(r.of, r.id, "error", -1)
      BY <1>1, <3>3, AnsweredReads
    <3>4. QED
      BY <3>1, <3>2, <3>3
  <2>2. runs' \subseteq runs
    BY <1>4 DEF GenerateDone
  <2>3. QED
    BY <1>4, <2>1, <2>2 DEF GenerateDone
<1>5. QED
  BY <1>3, <1>4

\* A message at the end of the queue is the only new one.
LEMMA SentMore ==
  ASSUME Types, NEW c \in Call, calls' = Append(calls, c)
  PROVE  /\ \A i \in DOMAIN calls' : \/ i \in DOMAIN calls /\ calls'[i] = calls[i] /\ i < Len(calls) + 1
                                     \/ i = Len(calls) + 1 /\ calls'[i] = c
         /\ \A i \in DOMAIN calls : i \in DOMAIN calls' /\ calls'[i] = calls[i]
         /\ Len(calls) + 1 \in DOMAIN calls'
         /\ Sent' = IF c.type = "setFiles" THEN Sent \cup {Len(calls) + 1} ELSE Sent
         /\ Sent \subseteq DOMAIN calls /\ DOMAIN calls \subseteq Nat /\ Len(calls) + 1 \in Nat
<1>1. calls \in Seq(Call)
  BY DEF Types
<1>2. QED
  BY <1>1, Queued DEF Sent

\* A message taken off the queue leaves the others where they are.
LEMMA SentLess ==
  ASSUME Types, calls # <<>>, calls' = Tail(calls)
  PROVE  /\ 1 \in DOMAIN calls /\ Head(calls) = calls[1]
         /\ DOMAIN calls \subseteq Nat \ {0} /\ DOMAIN calls' \subseteq Nat \ {0}
         /\ \A i \in DOMAIN calls' : i + 1 \in DOMAIN calls /\ calls'[i] = calls[i + 1]
         /\ \A i \in DOMAIN calls : i = 1 \/ i - 1 \in DOMAIN calls'
         /\ \A i \in Sent' : i + 1 \in Sent /\ calls'[i] = calls[i + 1]
         /\ \A i \in Sent : i = 1 \/ (i - 1 \in Sent' /\ calls'[i - 1] = calls[i])
         /\ 1 \in Sent <=> Head(calls).type = "setFiles"
         /\ Sent \subseteq DOMAIN calls /\ Sent' \subseteq DOMAIN calls'
<1>1. calls \in Seq(Call)
  BY DEF Types
<1>2. /\ 1 \in DOMAIN calls /\ Head(calls) = calls[1]
      /\ DOMAIN calls \subseteq Nat \ {0} /\ DOMAIN calls' \subseteq Nat \ {0}
      /\ \A i \in DOMAIN calls' : i + 1 \in DOMAIN calls /\ calls'[i] = calls[i + 1]
      /\ \A i \in DOMAIN calls : i = 1 \/ i - 1 \in DOMAIN calls'
  BY <1>1, Taken
<1>3. \A i \in Sent' : i + 1 \in Sent /\ calls'[i] = calls[i + 1]
  BY <1>2 DEF Sent
<1>4. \A i \in Sent : i = 1 \/ (i - 1 \in Sent' /\ calls'[i - 1] = calls[i])
  <2>1. SUFFICES ASSUME NEW i \in Sent, i # 1 PROVE i - 1 \in Sent' /\ calls'[i - 1] = calls[i]
    OBVIOUS
  <2>2. i \in Nat /\ i - 1 \in DOMAIN calls' /\ (i - 1) + 1 = i
    BY <1>2, <2>1 DEF Sent
  <2>3. calls'[i - 1] = calls[i]
    BY <1>2, <2>2
  <2>4. QED
    BY <2>1, <2>2, <2>3 DEF Sent
<1>5. QED
  BY <1>2, <1>3, <1>4 DEF Sent

-----------------------------------------------------------------------------
(* The parts of the invariant, each under every action. *)

LEMMA IdsNext == Types /\ Versioned /\ IdsGivenOut /\ [CodeNext]_codegen => IdsGivenOut'
<1> SUFFICES ASSUME Types, Versioned, IdsGivenOut, [CodeNext]_codegen PROVE IdsGivenOut'
  OBVIOUS
<1>0. questions \in Nat /\ \A i \in DOMAIN calls : calls[i].id \in Nat
  BY Items
<1>1. ASSUME NEW kind \in {"good", "broken", "empty"}, Revise(kind) PROVE IdsGivenOut'
  <2> DEFINE c == [type |-> "setFiles", files |-> source', of |-> target, id |-> FilesId]
  <2>1. c \in Call /\ c.id = 0
    BY <1>1, TypesNext DEF CodeNext, Types, Call, FilesId
  <2>2. calls' = Append(calls, c) /\ UNCHANGED <<questions, replies, runs, generator>>
    BY <1>1 DEF Revise
  <2> HIDE DEF c
  <2>3. QED
    BY <1>0, <2>1, <2>2, SentMore DEF IdsGivenOut
<1>2. CASE Hide
  BY <1>2 DEF IdsGivenOut, Hide
<1>3. ASSUME NEW l \in Languages, View(l) PROVE IdsGivenOut'
  <2> DEFINE c == [type |-> "generate", files |-> source, of |-> l, id |-> question']
  <2>1. questions' = questions + 1 /\ question' = questions'
    BY <1>3 DEF View
  <2>2. c \in Call /\ c.id = questions'
    BY <1>0, <2>1 DEF Types, Call
  <2>3. calls' = Append(calls, c) /\ UNCHANGED <<replies, runs, generator>>
    BY <1>3 DEF View
  <2> HIDE DEF c
  <2>4. \A i \in DOMAIN calls' : calls'[i].id <= questions'
    BY <1>0, <2>1, <2>2, <2>3, SentMore DEF IdsGivenOut
  <2>5. generator.id \in Nat /\ \A i \in DOMAIN replies : replies[i].id \in Nat
    BY Items
  <2>6. \A r \in runs : r.id \in Nat
    BY Items
  <2>7. QED
    BY <1>0, <2>1, <2>3, <2>4, <2>5, <2>6 DEF IdsGivenOut
<1>4. CASE Receive
  <2>1. replies # <<>> /\ replies' = Tail(replies) /\ UNCHANGED <<questions, calls, generator, runs>>
    BY <1>4 DEF Receive
  <2>2. \A i \in DOMAIN replies' : i + 1 \in DOMAIN replies /\ replies'[i] = replies[i + 1]
    BY <2>1, Taken DEF Types
  <2>3. QED
    BY <2>1, <2>2 DEF IdsGivenOut
<1>5. CASE Take
  <2>1. /\ calls # <<>> /\ calls' = Tail(calls) /\ Head(calls) \in Call
        /\ generator' = Heard(Head(calls)) /\ generator' \in Generator
        /\ \/ runs' = runs \cup {RunOf(generator')} /\ UNCHANGED replies
           \/ Answered(generator'.target, generator'.id, "outdated", -1) /\ UNCHANGED runs
        /\ UNCHANGED <<panel, generated>>
    BY <1>5, TakeReads
  <2>2. generator'.id <= questions /\ questions' = questions
    BY <2>1, HeardTypes, SentLess DEF IdsGivenOut, panel
  <2>3. \A i \in DOMAIN calls' : calls'[i].id <= questions
    BY <2>1, SentLess DEF IdsGivenOut
  <2>4. \A i \in DOMAIN replies' : replies'[i].id <= questions
    <3>1. generator'.target \in Languages /\ generator'.id \in Nat /\ -1 \in -1..MaxRevision
      BY <2>1, CodeBoundAssumption DEF Generator
    <3>2. QED
      BY <2>1, <2>2, <3>1, AnsweredReads DEF IdsGivenOut
  <2>5. \A r \in runs' : r.id <= questions
    BY <2>1, <2>2, RunOfTypes DEF IdsGivenOut
  <2>6. QED
    BY <2>2, <2>3, <2>4, <2>5 DEF IdsGivenOut
<1>6. ASSUME NEW r \in runs, BuildDone(r) \/ GenerateDone(r) PROVE IdsGivenOut'
  BY <1>6, RunsGo DEF IdsGivenOut, panel
<1>7. CASE UNCHANGED codegen
  BY <1>7 DEF IdsGivenOut, codegen, panel
<1>8. QED
  BY <1>1, <1>2, <1>3, <1>4, <1>5, <1>6, <1>7 DEF CodeNext, Generation

\* The message at the head brings the revision that comes next.
LEMMA NextRevision ==
  ASSUME Types, InOrder, calls # <<>>, calls' = Tail(calls), Head(calls).type = "setFiles"
  PROVE  /\ Head(calls).files.rev = generator.files.rev + 1
         /\ Head(calls).files.rev <= source.rev
<1>1. 1 \in Sent /\ Head(calls) = calls[1] /\ Sent \subseteq Nat \ {0}
  BY SentLess
<1>2. generator.files.rev \in Nat /\ source.rev \in Nat /\ \A i \in Sent : calls[i].files.rev \in Nat
  <2>1. \A i \in Sent : calls[i].files \in Source
    BY Items DEF Sent
  <2>2. QED
    BY <2>1, CodeBoundAssumption DEF Types, Generator, Source
<1>3. calls[1].files.rev \in (generator.files.rev + 1)..source.rev
  BY <1>1 DEF InOrder
<1>4. generator.files.rev + 1 \in (generator.files.rev + 1)..source.rev
  BY <1>2, <1>3
<1>5. PICK k \in Sent : calls[k].files.rev = generator.files.rev + 1
  BY <1>4 DEF InOrder
<1>6. k = 1 \/ calls[1].files.rev < calls[k].files.rev
  BY <1>1, <1>5 DEF InOrder
<1>7. QED
  BY <1>1, <1>2, <1>3, <1>5, <1>6

LEMMA VersionedNext == Types /\ Versioned /\ InOrder /\ [CodeNext]_codegen => Versioned'
<1> SUFFICES ASSUME Types, Versioned, InOrder, [CodeNext]_codegen PROVE Versioned'
  OBVIOUS
<1>1. CASE UNCHANGED <<runs, generator, generated>>
  BY <1>1 DEF Versioned
<1>2. CASE Take
  <2>1. /\ calls # <<>> /\ calls' = Tail(calls) /\ Head(calls) \in Call
        /\ generator' = Heard(Head(calls)) /\ generator' \in Generator
        /\ \/ runs' = runs \cup {RunOf(generator')} /\ UNCHANGED replies
           \/ Answered(generator'.target, generator'.id, "outdated", -1) /\ UNCHANGED runs
        /\ UNCHANGED <<panel, generated>>
    BY <1>2, TakeReads
  <2>2. generator.files.rev \in Nat /\ generator.ver \in Nat
    BY CodeBoundAssumption DEF Types, Generator, Source
  <2>3. /\ generator'.ver = generator'.files.rev + 1
        /\ generator'.files.rev \in Nat /\ generator.files.rev <= generator'.files.rev
    <3>1. CASE Head(calls).type = "setFiles"
      BY <2>1, <2>2, <3>1, NextRevision, HeardTypes DEF Versioned
    <3>2. CASE Head(calls).type # "setFiles"
      BY <2>1, <2>2, <3>2, HeardTypes DEF Versioned
    <3>3. QED
      BY <3>1, <3>2
  <2>4. \A r \in runs' : r.ver = r.text.rev + 1 /\ r.text.rev <= generator'.files.rev
    <3>1. \A r \in runs : r.text.rev \in Nat
      BY CodeBoundAssumption DEF Types, Run, Source
    <3>2. \A r \in runs : r.ver = r.text.rev + 1 /\ r.text.rev <= generator'.files.rev
      BY <2>2, <2>3, <3>1 DEF Versioned
    <3>3. RunOf(generator').ver = generator'.ver /\ RunOf(generator').text = generator'.files
      BY <2>1, RunOfTypes
    <3>4. QED
      BY <2>1, <2>3, <3>2, <3>3
  <2>5. QED
    BY <2>1, <2>3, <2>4 DEF Versioned
<1>3. ASSUME NEW r \in runs, BuildDone(r) PROVE Versioned'
  <2>1. UNCHANGED <<generator, generated>>
    BY <1>3 DEF BuildDone
  <2>2. QED
    BY <1>3, <2>1, RunsGo DEF Versioned
<1>4. ASSUME NEW r \in runs, GenerateDone(r) PROVE Versioned'
  <2>1. UNCHANGED generator /\ runs' \subseteq runs
    BY <1>4 DEF GenerateDone
  <2>2. r.of \in Languages /\ r.ver = r.text.rev + 1 /\ r.text.rev >= 0 /\ generated \in [Languages -> Entry]
    BY CodeBoundAssumption DEF Types, Run, Source, Versioned
  <2>3. \A l \in Languages : \/ generated'[l] = generated[l]
                             \/ generated'[l].ver = r.ver /\ generated'[l].rev = r.text.rev
    BY <1>4, <2>2 DEF GenerateDone
  <2>4. QED
    BY <2>1, <2>2, <2>3 DEF Versioned
<1>5. QED
  BY <1>1, <1>2, <1>3, <1>4
  DEF CodeNext, Generation, Revise, Hide, View, Receive, codegen

LEMMA InOrderNext == Types /\ InOrder /\ [CodeNext]_codegen => InOrder'
<1> SUFFICES ASSUME Types, InOrder, [CodeNext]_codegen PROVE InOrder'
  OBVIOUS
<1>0. /\ generator.files.rev \in Nat /\ source.rev \in Nat
      /\ \A i \in Sent : calls[i].files.rev \in Nat /\ i \in Nat
      /\ Types'
  <2>1. \A i \in Sent : calls[i].files \in Source /\ i \in Nat
    BY Items DEF Sent, Types
  <2>2. QED
    BY <2>1, Items, TypesNext, CodeBoundAssumption DEF Source
<1>1. ASSUME NEW kind \in {"good", "broken", "empty"}, Revise(kind) PROVE InOrder'
  <2> DEFINE c == [type |-> "setFiles", files |-> source', of |-> target, id |-> FilesId]
             n == Len(calls) + 1
  <2>1. source'.rev = source.rev + 1 /\ generator' = generator /\ calls' = Append(calls, c)
    BY <1>1 DEF Revise
  <2>2. c \in Call /\ c.type = "setFiles" /\ c.files.rev = source.rev + 1
    BY <1>0, <2>1 DEF Types, Call, FilesId
  <2> HIDE DEF c
  <2>3. /\ Sent' = Sent \cup {n} /\ calls'[n] = c /\ n \in Nat
        /\ \A i \in Sent : calls'[i] = calls[i] /\ i < n /\ i \in Nat
    <3>1. n \in DOMAIN calls' /\ n \notin DOMAIN calls
      BY <2>1, <2>2, SentMore DEF Types
    <3>2. QED
      BY <2>1, <2>2, <3>1, SentMore DEF Sent
  <2> HIDE DEF n
  <2>4. \A i \in Sent : calls[i].files.rev \in (generator.files.rev + 1)..source.rev
    BY DEF InOrder
  <2>5. \A i \in Sent' : calls'[i].files.rev \in (generator.files.rev + 1)..source'.rev
    <3>1. c.files.rev \in (generator.files.rev + 1)..source'.rev
      BY <1>0, <2>1, <2>2 DEF InOrder
    <3>2. ASSUME NEW i \in Sent
          PROVE  calls'[i].files.rev \in (generator.files.rev + 1)..source'.rev
      <4>1. calls'[i] = calls[i] /\ calls[i].files.rev \in (generator.files.rev + 1)..source.rev
        BY <2>3, <2>4
      <4>2. QED
        BY <1>0, <2>1, <4>1
    <3>3. QED
      BY <2>3, <3>1, <3>2
  <2>6. \A i, j \in Sent' : i < j => calls'[i].files.rev < calls'[j].files.rev
    <3>1. SUFFICES ASSUME NEW i \in Sent', NEW j \in Sent', i < j
                   PROVE  calls'[i].files.rev < calls'[j].files.rev
      OBVIOUS
    <3>2. i \in Sent
      BY <2>3, <3>1
    <3>3. CASE j \in Sent
      BY <2>3, <3>1, <3>2, <3>3 DEF InOrder
    <3>4. CASE j = n
      BY <1>0, <2>2, <2>3, <2>4, <3>2, <3>4
    <3>5. QED
      BY <2>3, <3>3, <3>4
  <2>7. \A v \in (generator.files.rev + 1)..source'.rev : \E i \in Sent' : calls'[i].files.rev = v
    <3>1. SUFFICES ASSUME NEW v \in (generator.files.rev + 1)..source'.rev
                   PROVE  \E i \in Sent' : calls'[i].files.rev = v
      OBVIOUS
    <3>2. CASE v = source'.rev
      BY <2>1, <2>2, <2>3, <3>2
    <3>3. CASE v # source'.rev
      <4>1. v \in (generator.files.rev + 1)..source.rev
        BY <1>0, <2>1, <3>3
      <4>2. PICK i \in Sent : calls[i].files.rev = v
        BY <4>1 DEF InOrder
      <4>3. QED
        BY <2>3, <4>2
    <3>4. QED
      BY <3>2, <3>3
  <2>8. generator'.files.rev <= source'.rev
    BY <1>0, <2>1 DEF InOrder
  <2>9. QED
    BY <2>1, <2>5, <2>6, <2>7, <2>8 DEF InOrder
<1>2. ASSUME NEW l \in Languages, View(l) PROVE InOrder'
  <2> DEFINE c == [type |-> "generate", files |-> source, of |-> l, id |-> question']
  <2>1. c \in Call /\ c.type # "setFiles"
    BY <1>0, <1>2 DEF Types, Call, View
  <2>2. calls' = Append(calls, c) /\ UNCHANGED <<source, generator>>
    BY <1>2 DEF View
  <2> HIDE DEF c
  <2>3. Sent' = Sent /\ \A i \in Sent : calls'[i] = calls[i]
    BY <2>1, <2>2, SentMore DEF Sent
  <2>4. /\ \A i \in Sent' : calls'[i].files.rev \in (generator.files.rev + 1)..source.rev
        /\ \A i, j \in Sent' : i < j => calls'[i].files.rev < calls'[j].files.rev
    BY <2>3 DEF InOrder
  <2>5. \A v \in (generator.files.rev + 1)..source.rev : \E i \in Sent' : calls'[i].files.rev = v
    BY <2>3 DEF InOrder
  <2>6. QED
    BY <2>2, <2>4, <2>5 DEF InOrder
<1>3. CASE Take
  <2>1. /\ calls # <<>> /\ calls' = Tail(calls) /\ Head(calls) \in Call
        /\ generator' = Heard(Head(calls)) /\ UNCHANGED source
    BY <1>3, TakeReads DEF panel
  <2>2. /\ Head(calls) = calls[1] /\ Sent \subseteq Nat \ {0} /\ Sent' \subseteq Nat \ {0}
        /\ \A i \in Sent' : i + 1 \in Sent /\ calls'[i] = calls[i + 1]
        /\ \A i \in Sent : i = 1 \/ (i - 1 \in Sent' /\ calls'[i - 1] = calls[i])
        /\ 1 \in Sent <=> Head(calls).type = "setFiles"
    BY <2>1, SentLess
  <2>3. \A i, j \in Sent' : i < j => calls'[i].files.rev < calls'[j].files.rev
    <3>1. SUFFICES ASSUME NEW i \in Sent', NEW j \in Sent', i < j
                   PROVE  calls'[i].files.rev < calls'[j].files.rev
      OBVIOUS
    <3>2. i + 1 \in Sent /\ j + 1 \in Sent /\ i + 1 < j + 1
      BY <2>2, <3>1
    <3>3. calls[i + 1].files.rev < calls[j + 1].files.rev
      BY <3>2 DEF InOrder
    <3>4. QED
      BY <2>2, <3>3
  <2>4. CASE Head(calls).type = "setFiles"
    <3>1. /\ generator'.files.rev = generator.files.rev + 1
          /\ calls[1].files.rev = generator.files.rev + 1 /\ generator'.files.rev <= source.rev
      BY <2>1, <2>2, <2>4, NextRevision, HeardTypes
    <3>2. \A i \in Sent' : calls'[i].files.rev \in (generator'.files.rev + 1)..source.rev
      <4>1. SUFFICES ASSUME NEW i \in Sent'
                     PROVE  calls'[i].files.rev \in (generator'.files.rev + 1)..source.rev
        OBVIOUS
      <4>2. i + 1 \in Sent /\ 1 \in Sent /\ calls'[i] = calls[i + 1] /\ i # 0
        BY <2>2, <2>4
      <4>3. 1 < i + 1
        BY <2>2, <4>2
      <4>4. calls[1].files.rev < calls[i + 1].files.rev
        BY <4>2, <4>3 DEF InOrder
      <4>5. calls[i + 1].files.rev \in (generator.files.rev + 1)..source.rev
        BY <4>2 DEF InOrder
      <4>6. QED
        BY <1>0, <3>1, <4>2, <4>4, <4>5
    <3>3. \A v \in (generator'.files.rev + 1)..source.rev : \E i \in Sent' : calls'[i].files.rev = v
      <4>1. SUFFICES ASSUME NEW v \in (generator'.files.rev + 1)..source.rev
                     PROVE  \E i \in Sent' : calls'[i].files.rev = v
        OBVIOUS
      <4>2. v \in (generator.files.rev + 1)..source.rev /\ v # generator.files.rev + 1
        BY <1>0, <3>1
      <4>3. PICK i \in Sent : calls[i].files.rev = v
        BY <4>2 DEF InOrder
      <4>4. i # 1
        BY <3>1, <4>2, <4>3
      <4>5. QED
        BY <2>2, <4>3, <4>4
    <3>4. QED
      BY <2>1, <2>3, <3>1, <3>2, <3>3 DEF InOrder
  <2>5. CASE Head(calls).type # "setFiles"
    <3>1. generator'.files = generator.files
      BY <2>1, <2>5, HeardTypes
    <3>2. \A i \in Sent' : calls'[i].files.rev \in (generator.files.rev + 1)..source.rev
      BY <2>2 DEF InOrder
    <3>3. \A v \in (generator.files.rev + 1)..source.rev : \E i \in Sent' : calls'[i].files.rev = v
      <4>1. SUFFICES ASSUME NEW v \in (generator.files.rev + 1)..source.rev
                     PROVE  \E i \in Sent' : calls'[i].files.rev = v
        OBVIOUS
      <4>2. PICK i \in Sent : calls[i].files.rev = v
        BY DEF InOrder
      <4>3. QED
        BY <2>2, <2>5, <4>2
    <3>4. QED
      BY <2>1, <2>3, <3>1, <3>2, <3>3 DEF InOrder
  <2>6. QED
    BY <2>4, <2>5
<1>4. CASE UNCHANGED <<source, calls, generator>>
  BY <1>4 DEF InOrder, Sent
<1>5. QED
  BY <1>1, <1>2, <1>3, <1>4
  DEF CodeNext, Generation, Hide, Receive, BuildDone, GenerateDone, codegen, panel

\* When the worker comes to a question it has the text of that time at least:
\* what is behind the question is younger, and nothing younger is missing.
LEMMA QuestionMeetsItsText ==
  ASSUME Types, InOrder, Answering, calls # <<>>, calls' = Tail(calls),
         Head(calls).id = question, question # 0
  PROVE  /\ Head(calls).type # "setFiles" /\ Head(calls).of = target
         /\ generator.files.rev >= askedOf
<1>1. /\ 1 \in DOMAIN calls /\ Head(calls) = calls[1] /\ Sent \subseteq Nat \ {0}
      /\ 1 \in Sent <=> Head(calls).type = "setFiles"
  BY SentLess
<1>2. Head(calls).type # "setFiles"
  BY <1>1 DEF Answering, FilesId
<1>3. /\ calls[1].of = target
      /\ \A j \in Sent : 1 < j => calls[j].files.rev > askedOf
  BY <1>1 DEF Answering
<1>4. generator.files.rev >= askedOf
  <2>1. generator.files.rev \in Nat /\ source.rev \in Nat /\ askedOf \in Nat
    BY Items
  <2>2. askedOf <= source.rev /\ generator.files.rev <= source.rev
    BY DEF Answering, InOrder
  <2>3. CASE generator.files.rev = source.rev
    BY <2>1, <2>2, <2>3
  <2>4. CASE generator.files.rev # source.rev
    <3>1. generator.files.rev + 1 \in (generator.files.rev + 1)..source.rev
      BY <2>1, <2>2, <2>4
    <3>2. PICK j \in Sent : calls[j].files.rev = generator.files.rev + 1
      BY <3>1 DEF InOrder
    <3>3. j # 1 /\ j \in Nat \ {0}
      BY <1>1, <1>2, <3>2
    <3>4. generator.files.rev + 1 > askedOf
      BY <1>3, <3>2, <3>3
    <3>5. QED
      BY <2>1, <3>4
  <2>5. QED
    BY <2>3, <2>4
<1>5. QED
  BY <1>1, <1>2, <1>3, <1>4

LEMMA AnsweringNext ==
  Types /\ IdsGivenOut /\ Versioned /\ InOrder /\ Answering /\ [CodeNext]_codegen => Answering'
<1> SUFFICES ASSUME Types, IdsGivenOut, Versioned, InOrder, Answering, [CodeNext]_codegen
             PROVE  Answering'
  OBVIOUS
<1>0. source.rev \in Nat /\ askedOf \in Nat /\ questions \in Nat /\ question = questions /\ Types'
  BY Items, TypesNext DEF Types
<1>1. ASSUME NEW kind \in {"good", "broken", "empty"}, Revise(kind) PROVE Answering'
  <2> DEFINE c == [type |-> "setFiles", files |-> source', of |-> target, id |-> FilesId]
             n == Len(calls) + 1
  <2>1. /\ source'.rev = source.rev + 1 /\ calls' = Append(calls, c)
        /\ UNCHANGED <<target, question, askedOf, runs, replies>>
    BY <1>1 DEF Revise
  <2>2. c \in Call /\ c.type = "setFiles" /\ c.files.rev = source.rev + 1 /\ c.id = FilesId
    BY <1>0, <2>1 DEF Types, Call, FilesId
  <2> HIDE DEF c
  <2>3. /\ \A i \in DOMAIN calls' : \/ i \in DOMAIN calls /\ calls'[i] = calls[i]
                                    \/ i = n /\ calls'[i] = c
        /\ Sent' = Sent \cup {n} /\ \A i \in Sent : i \in DOMAIN calls /\ calls'[i] = calls[i]
        /\ n \in DOMAIN calls' /\ n \notin DOMAIN calls
    BY <2>1, <2>2, SentMore DEF Types
  <2>4. calls'[n] = c
    BY <2>3
  <2> HIDE DEF n
  <2>5. askedOf' <= source'.rev /\ c.files.rev > askedOf
    BY <1>0, <2>1, <2>2 DEF Answering
  <2>6. \A i \in Sent' : calls'[i].id = FilesId
    BY <2>2, <2>3, <2>4 DEF Answering
  <2>7. ASSUME NEW i \in DOMAIN calls', calls'[i].id = question, question # 0
        PROVE  /\ calls'[i].of = target
               /\ \A j \in Sent' : i < j => calls'[j].files.rev > askedOf
    <3>1. i \in DOMAIN calls /\ calls'[i] = calls[i]
      BY <2>2, <2>3, <2>7 DEF FilesId
    <3>2. calls[i].of = target /\ \A j \in Sent : i < j => calls[j].files.rev > askedOf
      BY <2>7, <3>1 DEF Answering
    <3>3. QED
      BY <2>3, <2>4, <2>5, <3>1, <3>2
  <2>8. QED
    BY <2>1, <2>5, <2>6, <2>7 DEF Answering
<1>2. ASSUME NEW l \in Languages, View(l) PROVE Answering'
  <2> DEFINE c == [type |-> "generate", files |-> source, of |-> l, id |-> question']
             n == Len(calls) + 1
  <2>1. /\ question' = questions + 1 /\ target' = l /\ askedOf' = source.rev
        /\ calls' = Append(calls, c) /\ UNCHANGED <<source, runs, replies>>
    BY <1>2 DEF View
  <2>2. c \in Call /\ c.type # "setFiles" /\ c.of = l
    BY <1>0, <2>1 DEF Types, Call
  <2> HIDE DEF c
  <2>3. /\ \A i \in DOMAIN calls' : \/ i \in DOMAIN calls /\ calls'[i] = calls[i]
                                    \/ i = n /\ calls'[i] = c
        /\ Sent' = Sent
        /\ \A i \in Sent : i \in DOMAIN calls /\ calls'[i] = calls[i] /\ i \in Nat /\ i < n
        /\ n \in Nat
    <3>1. Sent \subseteq DOMAIN calls /\ \A i \in DOMAIN calls : calls'[i] = calls[i] /\ i \in Nat
      BY <2>1, <2>2, SentMore
    <3>2. \A i \in DOMAIN calls : i < n
      BY Queued DEF Types
    <3>3. QED
      BY <2>1, <2>2, <3>1, <3>2, SentMore
  <2> HIDE DEF n
  <2>4. /\ \A i \in DOMAIN calls : calls[i].id # question'
        /\ \A r \in runs : r.id # question'
        /\ \A i \in DOMAIN replies : replies[i].id # question'
    BY <1>0, <2>1, Items DEF IdsGivenOut
  <2>5. ASSUME NEW i \in DOMAIN calls', calls'[i].id = question'
        PROVE  /\ calls'[i].of = target'
               /\ \A j \in Sent' : i < j => calls'[j].files.rev > askedOf'
    <3>1. i = n /\ calls'[i] = c
      BY <2>3, <2>4, <2>5
    <3>2. QED
      BY <2>1, <2>2, <2>3, <3>1
  <2>6. askedOf' <= source'.rev /\ \A i \in Sent' : calls'[i].id = FilesId
    BY <1>0, <2>1, <2>3 DEF Answering
  <2>7. QED
    BY <2>1, <2>4, <2>5, <2>6 DEF Answering
<1>3. CASE Receive
  <2>1. /\ replies # <<>> /\ replies' = Tail(replies)
        /\ UNCHANGED <<source, question, askedOf, calls, runs>>
    BY <1>3 DEF Receive
  <2>2. /\ Head(replies) = replies[1] /\ 1 \in DOMAIN replies
        /\ \A i \in DOMAIN replies' : i + 1 \in DOMAIN replies /\ replies'[i] = replies[i + 1]
    BY <2>1, Taken DEF Types
  <2>3. target' = target
    BY <1>3, <2>2 DEF Receive, Answering
  <2>4. \A i \in DOMAIN replies' : replies'[i].id = question /\ question # 0 =>
          replies'[i].of = target /\ (replies'[i].kind = "result" => replies'[i].rev >= askedOf)
    BY <2>2 DEF Answering
  <2>5. Sent' = Sent
    BY <2>1 DEF Sent
  <2>6. QED
    BY <2>1, <2>3, <2>4, <2>5 DEF Answering
<1>4. CASE Take
  <2>1. /\ calls # <<>> /\ calls' = Tail(calls) /\ Head(calls) \in Call
        /\ generator' = Heard(Head(calls)) /\ generator' \in Generator
        /\ \/ runs' = runs \cup {RunOf(generator')} /\ UNCHANGED replies
           \/ Answered(generator'.target, generator'.id, "outdated", -1) /\ UNCHANGED runs
        /\ UNCHANGED <<panel, generated>>
    BY <1>4, TakeReads
  <2>2. UNCHANGED <<source, target, question, askedOf>>
    BY <2>1 DEF panel
  <2>3. generator'.id = question /\ question # 0 =>
          generator'.target = target /\ generator'.files.rev >= askedOf
    <3>1. SUFFICES ASSUME generator'.id = question, question # 0
                   PROVE  generator'.target = target /\ generator'.files.rev >= askedOf
      OBVIOUS
    <3>2. Head(calls).id = question
      BY <2>1, <3>1, HeardTypes
    <3>3. QED
      BY <2>1, <3>1, <3>2, HeardTypes, QuestionMeetsItsText
  <2>4. /\ Sent \subseteq DOMAIN calls /\ DOMAIN calls' \subseteq Nat \ {0} /\ Sent' \subseteq DOMAIN calls'
        /\ \A i \in DOMAIN calls' : i + 1 \in DOMAIN calls /\ calls'[i] = calls[i + 1]
        /\ \A i \in Sent' : i + 1 \in Sent /\ calls'[i] = calls[i + 1]
    BY <2>1, SentLess
  <2>5. \A i \in Sent' : calls'[i].id = FilesId
    BY <2>4 DEF Answering
  <2>6. ASSUME NEW i \in DOMAIN calls', calls'[i].id = question, question # 0
        PROVE  /\ calls'[i].of = target
               /\ \A j \in Sent' : i < j => calls'[j].files.rev > askedOf
    <3>1. i + 1 \in DOMAIN calls /\ calls'[i] = calls[i + 1] /\ i \in Nat
      BY <2>4
    <3>2. /\ calls[i + 1].of = target
          /\ \A j \in Sent : i + 1 < j => calls[j].files.rev > askedOf
      BY <2>6, <3>1 DEF Answering
    <3>3. \A j \in Sent' : i < j => i + 1 < j + 1
      BY <2>4, <3>1
    <3>4. QED
      BY <2>4, <3>1, <3>2, <3>3
  <2>7. \A r \in runs' : r.id = question /\ question # 0 => r.of = target /\ r.text.rev >= askedOf
    <3>1. /\ RunOf(generator').id = generator'.id /\ RunOf(generator').of = generator'.target
          /\ RunOf(generator').text = generator'.files
      BY <2>1, RunOfTypes
    <3>2. \A r \in runs : r.id = question /\ question # 0 => r.of = target /\ r.text.rev >= askedOf
      BY DEF Answering
    <3>3. QED
      BY <2>1, <2>3, <3>1, <3>2
  <2>8. \A i \in DOMAIN replies' : replies'[i].id = question /\ question # 0 =>
          replies'[i].of = target /\ (replies'[i].kind = "result" => replies'[i].rev >= askedOf)
    <3>1. \A i \in DOMAIN replies : replies[i].id = question /\ question # 0 =>
            replies[i].of = target /\ (replies[i].kind = "result" => replies[i].rev >= askedOf)
      BY DEF Answering
    <3>2. generator'.target \in Languages /\ generator'.id \in Nat /\ -1 \in -1..MaxRevision
      BY <2>1, CodeBoundAssumption DEF Generator
    <3>3. CASE Answered(generator'.target, generator'.id, "outdated", -1)
      BY <2>3, <3>1, <3>2, <3>3, AnsweredReads
    <3>4. QED
      BY <2>1, <3>1, <3>3
  <2>9. askedOf' <= source'.rev
    BY <2>2 DEF Answering
  <2>10. QED
    BY <2>2, <2>5, <2>6, <2>7, <2>8, <2>9 DEF Answering
<1>5. ASSUME NEW r \in runs, BuildDone(r) \/ GenerateDone(r) PROVE Answering'
  <2>1. /\ \A s \in runs' : \E q \in runs :
             s.of = q.of /\ s.id = q.id /\ s.ver = q.ver /\ s.text = q.text
        /\ \A i \in DOMAIN replies' :
             \/ i \in DOMAIN replies /\ replies'[i] = replies[i]
             \/ /\ replies'[i].id = r.id /\ replies'[i].of = r.of
                /\ replies'[i].kind = "result" => replies'[i].rev = r.text.rev
        /\ UNCHANGED <<source, target, question, askedOf, calls>>
    BY <1>5, RunsGo DEF panel
  <2>2. \A s \in runs' : s.id = question /\ question # 0 => s.of = target /\ s.text.rev >= askedOf
    BY <2>1 DEF Answering
  <2>3. \A i \in DOMAIN replies' : replies'[i].id = question /\ question # 0 =>
          replies'[i].of = target /\ (replies'[i].kind = "result" => replies'[i].rev >= askedOf)
    <3>1. r.id = question /\ question # 0 => r.of = target /\ r.text.rev >= askedOf
      BY DEF Answering
    <3>2. QED
      BY <2>1, <3>1 DEF Answering
  <2>4. Sent' = Sent
    BY <2>1 DEF Sent
  <2>5. QED
    BY <2>1, <2>2, <2>3, <2>4 DEF Answering
<1>6. CASE UNCHANGED <<source, target, question, askedOf, calls, runs, replies>>
  <2>1. Sent' = Sent
    BY <1>6 DEF Sent
  <2>2. QED
    BY <1>6, <2>1 DEF Answering
<1>7. QED
  BY <1>1, <1>2, <1>3, <1>4, <1>5, <1>6 DEF CodeNext, Generation, Hide, codegen, panel

LEMMA SnapshotNext ==
  Types /\ Answering /\ SnapshotAnswersTheQuestion /\ [CodeNext]_codegen => SnapshotAnswersTheQuestion'
<1> SUFFICES ASSUME Types, Answering, SnapshotAnswersTheQuestion, [CodeNext]_codegen
             PROVE  SnapshotAnswersTheQuestion'
  OBVIOUS
<1>1. CASE Hide
  BY <1>1 DEF Hide, SnapshotAnswersTheQuestion
<1>2. ASSUME NEW l \in Languages, View(l) PROVE SnapshotAnswersTheQuestion'
  BY <1>2 DEF View, SnapshotAnswersTheQuestion
<1>3. CASE Receive
  <2> DEFINE a == Head(replies)
  <2>1. a \in CodeReply /\ a = replies[1] /\ 1 \in DOMAIN replies
    BY <1>3, Taken DEF Receive, Types
  <2>2. UNCHANGED <<active, askedOf>>
    BY <1>3 DEF Receive
  <2>3. CASE a.id = question /\ question # 0
    <3>1. a.of = target /\ (a.kind = "result" => a.rev >= askedOf)
      BY <2>1, <2>3 DEF Answering
    <3>2. target' = target /\ snapshot' = Shown(a)
      BY <1>3, <2>3, <3>1 DEF Receive
    <3>3. snapshot'.of = target /\ (snapshot'.state = "ready" => snapshot'.rev >= askedOf)
      BY <3>1, <3>2 DEF Shown
    <3>4. QED
      BY <2>2, <3>2, <3>3 DEF SnapshotAnswersTheQuestion
  <2>4. CASE ~(a.id = question /\ question # 0)
    BY <1>3, <2>4 DEF Receive, SnapshotAnswersTheQuestion
  <2>5. QED
    BY <2>3, <2>4
<1>4. CASE UNCHANGED <<active, target, askedOf, snapshot>>
  BY <1>4 DEF SnapshotAnswersTheQuestion
<1>5. QED
  BY <1>1, <1>2, <1>3, <1>4
  DEF CodeNext, Generation, Revise, Take, BuildDone, GenerateDone, codegen, panel

LEMMA CodeInvInit == CodeInit => CodeInv
<1> SUFFICES ASSUME CodeInit PROVE CodeInv
  OBVIOUS
<1>1. Types
  BY TypesInit
<1>2. calls = <<>> /\ replies = <<>> /\ runs = {} /\ DOMAIN calls = {} /\ DOMAIN replies = {}
  BY DEF CodeInit
<1>3. generator.ver = 1 /\ generator.files = source /\ generator.id = 0 /\ source.rev = 0
  BY DEF CodeInit, FilesId
<1>4. \A l \in Languages : generated[l].ver = -1
  BY DEF CodeInit, Nothing
<1>5. SnapshotAnswersTheQuestion
  BY DEF CodeInit, SnapshotAnswersTheQuestion
<1>6. IdsGivenOut
  BY <1>2, <1>3 DEF CodeInit, IdsGivenOut
<1>7. Versioned
  BY <1>2, <1>3, <1>4 DEF Versioned
<1>8. Sent = {}
  BY <1>2 DEF Sent
<1>9. InOrder
  BY <1>3, <1>8 DEF InOrder
<1>10. Answering
  BY <1>2, <1>3, <1>8 DEF Answering, CodeInit
<1>11. QED
  BY <1>1, <1>5, <1>6, <1>7, <1>9, <1>10 DEF CodeInv

LEMMA CodeInvNext == CodeInv /\ [CodeNext]_codegen => CodeInv'
BY TypesNext, IdsNext, VersionedNext, InOrderNext, AnsweringNext, SnapshotNext DEF CodeInv

LEMMA CodeInvHolds == CodeSpec => []CodeInv
BY CodeInvInit, CodeInvNext, PTL DEF CodeSpec

-----------------------------------------------------------------------------
(* The theorems. *)

\* The type invariant of the code preview: no message, run or answer carries
\* an id the studio has not given out, and no run a version the worker has
\* not reached.
THEOREM CodeTypeCorrect == CodeSpec => []CodeTypeOK
<1>1. CodeInv => CodeTypeOK
  <2> SUFFICES ASSUME CodeInv PROVE CodeTypeOK
    OBVIOUS
  <2>1. Types /\ IdsGivenOut /\ Versioned
    BY DEF CodeInv
  <2>2. \A c \in ToSet(calls) : c.id \in 0..questions
    BY <2>1, Items DEF IdsGivenOut, ToSet
  <2>3. \A a \in ToSet(replies) : a.kind \in {"result", "outdated", "error"} /\ a.of \in Languages
    BY <2>1, Items DEF CodeReply, ToSet
  <2>4. \A r \in runs : r.at \in {"build", "generate"} /\ r.ver <= generator.ver
    <3>1. SUFFICES ASSUME NEW r \in runs PROVE r.at \in {"build", "generate"} /\ r.ver <= generator.ver
      OBVIOUS
    <3>2. r.at \in {"build", "generate"}
      BY <2>1 DEF Types, Run
    <3>3. r.text.rev \in Nat /\ generator.files.rev \in Nat
      BY <2>1, Items
    <3>4. QED
      BY <2>1, <3>2, <3>3 DEF Versioned
  <2>5. /\ generator.files \in Source /\ generator.target \in Languages /\ generator.id \in 0..questions
        /\ question \in 0..questions /\ snapshot \in [state : State, of : Languages, rev : -1..MaxRevision]
        /\ generated \in [Languages -> [ver : Int, rev : -1..MaxRevision]]
    BY <2>1, Items DEF Types, Generator, Panel, Entry, IdsGivenOut
  <2>6. QED
    BY <2>1, <2>2, <2>3, <2>4, <2>5 DEF CodeTypeOK, Types
<1>2. QED
  BY <1>1, CodeInvHolds, PTL

\* Code on the panel is in the language asked for last and from a source no
\* older than the question, whatever edits and earlier questions overlap with
\* it (CodegenProvider.handleCodegenMessage against the runs of the worker).
LEMMA AnswersAreOfTheQuestion == CodeSpec => []SnapshotAnswersTheQuestion
<1>1. CodeInv => SnapshotAnswersTheQuestion
  BY DEF CodeInv
<1>2. QED
  BY <1>1, CodeInvHolds, PTL

\* Code cached under the worker's version of the files was generated from
\* those files, although they may be replaced in both awaits of a run
\* (codegenGenerateCache of the worker).
LEMMA CodeCacheIsRight == CodeSpec => []GeneratedIsOfItsVersion
<1>1. CodeInv => GeneratedIsOfItsVersion
  <2> SUFFICES ASSUME CodeInv, NEW l \in Languages, generated[l].ver = generator.ver
               PROVE  generated[l].rev = generator.files.rev
    BY DEF GeneratedIsOfItsVersion
  <2>1. generator.files.rev \in Nat /\ generated[l] \in Entry /\ generator.ver = generator.files.rev + 1
    BY Items DEF CodeInv, Types, Versioned
  <2>2. generated[l].rev \in Int
    BY <2>1, CodeBoundAssumption DEF Entry
  <2>3. generated[l].ver = generated[l].rev + 1
    BY <2>1 DEF CodeInv, Versioned
  <2>4. QED
    BY <2>1, <2>2, <2>3
<1>2. QED
  BY <1>1, CodeInvHolds, PTL

\* The panel and the cache of the code preview together.
THEOREM CodeIsRight == CodeSpec => []CodeIsOfItsSource
BY AnswersAreOfTheQuestion, CodeCacheIsRight, PTL DEF CodeIsOfItsSource

-----------------------------------------------------------------------------
(* The question is in one place. *)

\* A queue has an entry of this id; and no two.
Held(q, k) == \E i \in DOMAIN q : q[i].id = k
Lone(q, k) == \A i, j \in DOMAIN q : q[i].id = k /\ q[j].id = k => i = j

\* The last question is with one message, one run or one answer, and with
\* none once the panel shows what came of it.
Running(k) == \E r \in runs : r.id = k
OnePlace ==
  question # 0 =>
    /\ Lone(calls, question) /\ Lone(replies, question)
    /\ \A r, s \in runs : r.id = question /\ s.id = question => r = s
    /\ Held(calls, question) => ~Running(question) /\ ~Held(replies, question)
    /\ Running(question) => ~Held(replies, question)
    /\ snapshot.state = "waiting" <=>
         Held(calls, question) \/ Running(question) \/ Held(replies, question)

LEMMA OneMore ==
  ASSUME NEW S, NEW q \in Seq(S), NEW x \in S, NEW k, Lone(q, k), x.id = k => ~Held(q, k)
  PROVE  Lone(Append(q, x), k) /\ (Held(Append(q, x), k) <=> Held(q, k) \/ x.id = k)
<1>1. /\ DOMAIN Append(q, x) = DOMAIN q \cup {Len(q) + 1}
      /\ \A i \in DOMAIN q : Append(q, x)[i] = q[i]
      /\ Append(q, x)[Len(q) + 1] = x
  BY Queued
<1>2. QED
  BY <1>1 DEF Lone, Held

LEMMA OneLess ==
  ASSUME NEW S, NEW q \in Seq(S), q # <<>>, NEW k, Lone(q, k)
  PROVE  /\ Lone(Tail(q), k)
         /\ Held(Tail(q), k) <=> Held(q, k) /\ Head(q).id # k
         /\ Head(q).id = k => Held(q, k)
<1>1. /\ Head(q) = q[1] /\ 1 \in DOMAIN q
      /\ \A i \in DOMAIN Tail(q) : i + 1 \in DOMAIN q /\ Tail(q)[i] = q[i + 1]
      /\ \A i \in DOMAIN q : i = 1 \/ i - 1 \in DOMAIN Tail(q)
      /\ DOMAIN q \subseteq Nat \ {0} /\ DOMAIN Tail(q) \subseteq Nat \ {0}
  BY Taken
<1>2. Lone(Tail(q), k)
  <2>1. SUFFICES ASSUME NEW i \in DOMAIN Tail(q), NEW j \in DOMAIN Tail(q),
                        Tail(q)[i].id = k, Tail(q)[j].id = k
                 PROVE  i = j
    BY DEF Lone
  <2>2. i + 1 = j + 1 /\ i \in Nat /\ j \in Nat
    BY <1>1, <2>1 DEF Lone
  <2>3. QED
    BY <2>2
<1>3. ASSUME Held(Tail(q), k) PROVE Held(q, k) /\ Head(q).id # k
  <2>1. PICK i \in DOMAIN Tail(q) : Tail(q)[i].id = k
    BY <1>3 DEF Held
  <2>2. i + 1 \in DOMAIN q /\ q[i + 1].id = k /\ i + 1 # 1
    BY <1>1, <2>1
  <2>3. QED
    BY <1>1, <2>2 DEF Held, Lone
<1>4. ASSUME Held(q, k), Head(q).id # k PROVE Held(Tail(q), k)
  <2>1. PICK i \in DOMAIN q : q[i].id = k
    BY <1>4 DEF Held
  <2>2. i # 1 /\ i - 1 \in DOMAIN Tail(q) /\ (i - 1) + 1 = i
    BY <1>1, <1>4, <2>1
  <2>3. QED
    BY <1>1, <2>1, <2>2 DEF Held
<1>5. Head(q).id = k => Held(q, k)
  BY <1>1 DEF Held
<1>6. QED
  BY <1>2, <1>3, <1>4, <1>5

\* One more answer, on its way to the studio.
LEMMA AnsweredHeld ==
  ASSUME Types, NEW l \in Languages, NEW id \in Nat, NEW rev \in -1..MaxRevision,
         NEW kind \in {"result", "outdated", "error"}, Answered(l, id, kind, rev),
         NEW k, Lone(replies, k), id = k => ~Held(replies, k)
  PROVE  Lone(replies', k) /\ (Held(replies', k) <=> Held(replies, k) \/ id = k)
<1> DEFINE a == [kind |-> kind, of |-> l, id |-> id, rev |-> rev]
<1>1. a \in CodeReply /\ a.id = id
  BY DEF CodeReply
<1>2. replies' = Append(replies, a) /\ replies \in Seq(CodeReply)
  BY DEF Answered, Types
<1> HIDE DEF a
<1>3. QED
  BY <1>1, <1>2, OneMore

LEMMA OnePlaceNext == CodeInv /\ OnePlace /\ [CodeNext]_codegen => OnePlace'
<1> SUFFICES ASSUME CodeInv, OnePlace, [CodeNext]_codegen, question' # 0 PROVE OnePlace'
  BY DEF OnePlace
<1>0. /\ Types /\ IdsGivenOut /\ Versioned /\ Answering
      /\ calls \in Seq(Call) /\ replies \in Seq(CodeReply) /\ runs \subseteq Run
      /\ questions \in Nat /\ question = questions
  BY Items DEF CodeInv, Types
<1>1. ASSUME NEW kind \in {"good", "broken", "empty"}, Revise(kind) PROVE OnePlace'
  <2> DEFINE c == [type |-> "setFiles", files |-> source', of |-> target, id |-> FilesId]
  <2>1. calls' = Append(calls, c) /\ UNCHANGED <<question, runs, replies, snapshot>>
    BY <1>1 DEF Revise
  <2>2. source' \in Source
    BY <1>0, TypesNext DEF Types
  <2>3. c \in Call /\ c.id = FilesId
    BY <1>0, <2>2 DEF Types, Call, FilesId
  <2> HIDE DEF c
  <2>4. Lone(calls', question) /\ (Held(calls', question) <=> Held(calls, question))
    BY <1>0, <2>1, <2>3, OneMore DEF OnePlace, FilesId
  <2>5. QED
    BY <2>1, <2>4 DEF OnePlace, Running
<1>2. ASSUME NEW l \in Languages, View(l) PROVE OnePlace'
  <2> DEFINE c == [type |-> "generate", files |-> source, of |-> l, id |-> question']
  <2>1. /\ question' = questions + 1 /\ calls' = Append(calls, c) /\ snapshot'.state = "waiting"
        /\ UNCHANGED <<runs, replies>>
    BY <1>2 DEF View
  <2>2. c \in Call /\ c.id = question'
    BY <1>0, <2>1 DEF Types, Call
  <2> HIDE DEF c
  <2>3. /\ ~Held(calls, question') /\ ~Held(replies, question')
        /\ \A r \in runs : r.id # question'
    BY <1>0, <2>1, Items DEF IdsGivenOut, Held
  <2>4. Lone(calls', question') /\ Held(calls', question')
    <3>1. Lone(calls, question')
      BY <2>3 DEF Lone, Held
    <3>2. QED
      BY <1>0, <2>1, <2>2, <2>3, <3>1, OneMore
  <2>5. Lone(replies', question') /\ ~Held(replies', question')
    BY <2>1, <2>3 DEF Lone, Held
  <2>6. QED
    BY <2>1, <2>3, <2>4, <2>5 DEF OnePlace, Running
<1>3. CASE Receive
  <2>1. replies # <<>> /\ replies' = Tail(replies) /\ UNCHANGED <<question, calls, runs>>
    BY <1>3 DEF Receive
  <2>2. /\ Lone(replies', question)
        /\ Held(replies', question) <=> Held(replies, question) /\ Head(replies).id # question
        /\ Head(replies).id = question => Held(replies, question)
    BY <1>0, <2>1, OneLess DEF OnePlace
  <2>3. CASE Head(replies).id = question
    <3>1. snapshot' = Shown(Head(replies))
      BY <1>3, <2>1, <2>3 DEF Receive
    <3>2. snapshot'.state # "waiting"
      BY <3>1 DEF Shown
    <3>3. QED
      BY <2>1, <2>2, <2>3, <3>2 DEF OnePlace, Running
  <2>4. CASE Head(replies).id # question
    <3>1. UNCHANGED snapshot
      BY <1>3, <2>4 DEF Receive
    <3>2. QED
      BY <2>1, <2>2, <2>4, <3>1 DEF OnePlace, Running
  <2>5. QED
    BY <2>3, <2>4
<1>4. CASE Take
  <2> DEFINE c == Head(calls)
  <2>1. /\ calls # <<>> /\ calls' = Tail(calls) /\ c \in Call
        /\ generator' = Heard(c) /\ generator' \in Generator
        /\ \/ runs' = runs \cup {RunOf(generator')} /\ UNCHANGED replies
           \/ Answered(generator'.target, generator'.id, "outdated", -1) /\ UNCHANGED runs
        /\ UNCHANGED <<question, snapshot>>
    BY <1>0, <1>4, TakeReads DEF panel
  <2>2. /\ Lone(calls', question)
        /\ Held(calls', question) <=> Held(calls, question) /\ c.id # question
        /\ c.id = question => Held(calls, question)
    BY <1>0, <2>1, OneLess DEF OnePlace
  <2>3. generator'.id = c.id /\ RunOf(generator').id = c.id
    BY <1>0, <2>1, HeardTypes, RunOfTypes
  <2> HIDE DEF c
  <2>4. CASE runs' = runs \cup {RunOf(generator')} /\ UNCHANGED replies
    <3>1. Running(question)' <=> Running(question) \/ c.id = question
      BY <2>1, <2>3, <2>4 DEF Running
    <3>2. \A r, s \in runs' : r.id = question /\ s.id = question => r = s
      BY <2>1, <2>2, <2>3, <2>4 DEF OnePlace, Running
    <3>3. QED
      BY <2>1, <2>2, <2>4, <3>1, <3>2 DEF OnePlace
  <2>5. CASE Answered(generator'.target, generator'.id, "outdated", -1) /\ UNCHANGED runs
    <3>1. generator'.target \in Languages /\ generator'.id \in Nat /\ -1 \in -1..MaxRevision
      BY <2>1, CodeBoundAssumption DEF Generator
    <3>2. /\ Lone(replies', question)
          /\ Held(replies', question) <=> Held(replies, question) \/ c.id = question
      BY <1>0, <2>1, <2>2, <2>3, <2>5, <3>1, AnsweredHeld DEF OnePlace
    <3>3. QED
      BY <2>1, <2>2, <2>5, <3>2 DEF OnePlace, Running
  <2>6. QED
    BY <2>1, <2>4, <2>5
<1>5. ASSUME NEW r \in runs, BuildDone(r) \/ GenerateDone(r) PROVE OnePlace'
  <2>1. /\ r \in Run /\ r.of \in Languages /\ r.id \in Nat /\ -1 \in -1..MaxRevision
        /\ r.text.rev \in -1..MaxRevision /\ generated[r.of].rev \in -1..MaxRevision
        /\ UNCHANGED <<question, calls, snapshot>>
    <3>1. r \in Run /\ r.of \in Languages /\ r.id \in Nat /\ r.text \in Source /\ -1 \in -1..MaxRevision
      BY <1>0, CodeBoundAssumption DEF Run
    <3>2. r.text.rev \in -1..MaxRevision
      BY <3>1, CodeBoundAssumption DEF Source
    <3>3. generated[r.of].rev \in -1..MaxRevision
      BY <1>0, <3>1 DEF Types, Entry
    <3>4. UNCHANGED <<question, calls, snapshot>>
      BY <1>5 DEF BuildDone, GenerateDone, panel
    <3>5. QED
      BY <3>1, <3>2, <3>3, <3>4
  <2>2. r.id = question => Running(question)
    BY DEF Running
  <2>3. CASE \E rev \in -1..MaxRevision, kind \in {"result", "outdated", "error"} :
               Answered(r.of, r.id, kind, rev) /\ runs' = runs \ {r}
    <3>1. /\ Lone(replies', question)
          /\ Held(replies', question) <=> Held(replies, question) \/ r.id = question
      BY <1>0, <2>1, <2>2, <2>3, AnsweredHeld DEF OnePlace
    <3>2. Running(question)' <=> Running(question) /\ r.id # question
      BY <2>1, <2>3 DEF Running, OnePlace
    <3>3. QED
      BY <2>1, <2>2, <2>3, <3>1, <3>2 DEF OnePlace
  <2>4. CASE runs' = (runs \ {r}) \cup {[r EXCEPT !.at = "generate"]} /\ UNCHANGED replies
    <3> DEFINE n == [r EXCEPT !.at = "generate"]
    <3>1. n.id = r.id
      BY <2>1 DEF Run
    <3>2. runs' = (runs \ {r}) \cup {n}
      BY <2>4
    <3> HIDE DEF n
    <3>3. Running(question)' <=> Running(question)
      BY <2>1, <3>1, <3>2 DEF Running
    <3>4. \A p, s \in runs' : p.id = question /\ s.id = question => p = s
      BY <2>1, <3>1, <3>2 DEF OnePlace
    <3>5. QED
      BY <2>1, <2>4, <3>3, <3>4 DEF OnePlace
  <2>5. QED
    BY <1>5, <2>1, <2>3, <2>4 DEF BuildDone, GenerateDone
<1>6. CASE UNCHANGED <<question, calls, runs, replies, snapshot>>
  BY <1>6 DEF OnePlace, Running
<1>7. QED
  BY <1>1, <1>2, <1>3, <1>4, <1>5, <1>6 DEF CodeNext, Generation, Hide, codegen, panel

\* A question about code is never forgotten, and answered once: while the
\* panel waits, the question is with the worker or its answer is on its way,
\* whatever edits and older questions overlap with it; after its answer
\* nothing is left that could replace what the panel shows.  That the worker
\* gets to it is left to the runs.
THEOREM NoQuestionIsForgotten == CodeSpec => []AnsweredOnce
<1>1. CodeInit => CodeInv /\ OnePlace
  BY CodeInvInit DEF CodeInit, OnePlace
<1>2. (CodeInv /\ OnePlace) /\ [CodeNext]_codegen => (CodeInv /\ OnePlace)'
  BY CodeInvNext, OnePlaceNext
<1>3. CodeInv /\ OnePlace => AnsweredOnce
  BY DEF OnePlace, AnsweredOnce, AtWorker, OnItsWayBack, Held, Running
<1>4. QED
  BY <1>1, <1>2, <1>3, PTL DEF CodeSpec

-----------------------------------------------------------------------------
(* The form preview: its invariant. *)

FormMessage == [req : Nat, target : Targets \cup {None}, files : Files \cup {None}]
FormAnswer == [req : Nat, target : Targets, of : Files \cup {None}]
FormBuild == [req : Nat, target : Targets, ver : Nat, text : Files]
FormStatus == [state : {"waiting", "ready", "stale", "unavailable"}, of : Targets \cup {None}]
FormWorker == [have : Files, ver : Nat, target : Targets \cup {None}]
FormSlot == [ver : Int, of : Files \cup {None}]

FormTypes ==
  /\ files \in Files /\ unsent \in BOOLEAN /\ chosen \in Targets \cup {None}
  /\ selects \in 0..MaxSelects /\ asked \in Nat
  /\ schemas \in [Targets -> Files \cup {None}] /\ status \in FormStatus
  /\ left \in [Targets -> 0..Undefined] /\ spent \in [Targets -> 0..MaxAttempts]
  /\ waiters \in [Namespaces -> SUBSET Targets] /\ retries \in [Targets -> Nat]
  /\ hydrated \subseteq Namespaces /\ wanted \subseteq Namespaces
  /\ parse \in [marks : SUBSET Namespaces, wants : SUBSET Namespaces] /\ parse.marks = wanted
  /\ listed \in BOOLEAN
  /\ inbox \in Seq(FormMessage) /\ outbox \in Seq(FormAnswer) /\ builds \subseteq FormBuild
  /\ worker \in FormWorker /\ docs \in FormSlot /\ cache \in [Targets -> FormSlot]

\* What the preview of files f is made of.
Good(f) == IF f.ok THEN f ELSE None

\* A version is of one state of the worker's files.
Tagged ==
  /\ docs.ver <= worker.ver /\ (docs.ver = worker.ver => docs.of = worker.have)
  /\ \A t \in Targets :
       cache[t].ver <= worker.ver /\ (cache[t].ver = worker.ver => cache[t].of = Good(worker.have))
  /\ \A j \in builds : j.ver <= worker.ver /\ (j.ver = worker.ver => j.text = worker.have)

\* The current request is the last message, and in front of nothing.
InTurn ==
  /\ \A i \in DOMAIN inbox : inbox[i].req <= asked /\ (inbox[i].req = asked <=> i = Len(inbox))
  /\ \A j \in builds : j.req <= asked /\ (j.req = asked => inbox = <<>>)
  /\ \A i \in DOMAIN outbox : outbox[i].req <= asked /\ (outbox[i].req = asked => inbox = <<>>)

\* The last message with files has the studio's, the last request is for the
\* chosen target; without such messages the worker has them already.
FilesOnTheWay ==
  unsent
  \/ /\ (\A i \in DOMAIN inbox : inbox[i].files = None) => worker.have = files
     /\ \A i \in DOMAIN inbox :
          inbox[i].files # None /\ (\A k \in (i + 1)..Len(inbox) : inbox[k].files = None) =>
            inbox[i].files = files
TargetOnTheWay ==
  /\ (\A i \in DOMAIN inbox : inbox[i].files # None) => worker.target = chosen
  /\ \A i \in DOMAIN inbox :
       inbox[i].files = None /\ (\A k \in (i + 1)..Len(inbox) : inbox[k].files # None) =>
         inbox[i].target = chosen

\* The worker answers the current request for the chosen target, from the
\* files it has.
AnswersTheCurrent ==
  /\ \A j \in builds : j.req = asked => j.target = chosen /\ j.ver = worker.ver
  /\ \A i \in DOMAIN outbox :
       outbox[i].req = asked => outbox[i].target = chosen /\ outbox[i].of = Good(worker.have)

Pending ==
  \/ inbox # <<>>
  \/ \E j \in builds : j.req = asked
  \/ \E i \in DOMAIN outbox : outbox[i].req = asked

\* The answer has come, and the panel says it.
Said ==
  /\ status.of = chosen /\ status.state # "waiting"
  /\ status.state = "ready" <=> worker.have.ok
  /\ worker.have.ok => schemas[chosen] = worker.have
PanelSays == chosen # None /\ ~Pending => Said

\* A form that lacks something will be asked for again, unless its attempts
\* are spent: a timer runs, or it waits for a namespace that is being parsed.
AskedAgain ==
  Missing(chosen, worker.have) = {} \/ left[chosen] = 0
    \/ retries[chosen] > 0 \/ \E n \in wanted : chosen \in waiters[n]
KeepsTrying ==
  chosen # None /\ ~Pending /\ status.state = "ready" /\ listed /\ ~unsent => AskedAgain

FormInv ==
  /\ FormTypes /\ Tagged /\ InTurn /\ FilesOnTheWay /\ TargetOnTheWay
  /\ AnswersTheCurrent /\ PanelSays /\ KeepsTrying

-----------------------------------------------------------------------------
(* Queues, messages and what is missing. *)

LEMMA FirstTaken ==
  ASSUME NEW S, NEW q \in Seq(S), q # <<>>
  PROVE  /\ Head(q) = q[1] /\ Head(q) \in S /\ 1 \in DOMAIN q
         /\ Tail(q) \in Seq(S) /\ Len(Tail(q)) = Len(q) - 1 /\ Len(q) \in Nat \ {0}
         /\ DOMAIN q = 1..Len(q) /\ DOMAIN Tail(q) = 1..(Len(q) - 1)
         /\ \A i \in DOMAIN Tail(q) : Tail(q)[i] = q[i + 1] /\ i + 1 \in DOMAIN q
         /\ Tail(q) = <<>> <=> Len(q) = 1
<1>1. /\ Len(q) \in Nat \ {0} /\ DOMAIN q = 1..Len(q) /\ Head(q) = q[1]
      /\ Tail(q) \in Seq(S) /\ Len(Tail(q)) = Len(q) - 1 /\ DOMAIN Tail(q) = 1..(Len(q) - 1)
  OBVIOUS
<1>2. 1 \in DOMAIN q /\ Head(q) \in S
  BY <1>1
<1>3. \A i \in DOMAIN Tail(q) : i + 1 \in DOMAIN q
  BY <1>1
<1>4. \A i \in DOMAIN Tail(q) : Tail(q)[i] = q[i + 1]
  BY <1>1
<1>5. Tail(q) = <<>> <=> Len(q) = 1
  <2> DEFINE r == Tail(q)
  <2>1. r \in Seq(S) /\ Len(r) = Len(q) - 1
    BY <1>1
  <2> HIDE DEF r
  <2>2. r = <<>> <=> Len(r) = 0
    BY <2>1, EmptySeq
  <2>3. QED
    BY <1>1, <2>1, <2>2 DEF r
<1>6. QED
  BY <1>1, <1>2, <1>3, <1>4, <1>5

LEMMA LastAdded ==
  ASSUME NEW S, NEW q \in Seq(S), NEW m \in S
  PROVE  /\ Append(q, m) \in Seq(S) /\ Len(Append(q, m)) = Len(q) + 1 /\ Len(q) \in Nat
         /\ DOMAIN q = 1..Len(q) /\ DOMAIN Append(q, m) = 1..(Len(q) + 1)
         /\ \A i \in DOMAIN q : Append(q, m)[i] = q[i] /\ i \in DOMAIN Append(q, m)
         /\ Append(q, m)[Len(q) + 1] = m /\ Append(q, m) # <<>>
OBVIOUS

\* Everything a step reads, with its type.
LEMMA FormRead ==
  ASSUME FormTypes
  PROVE  /\ \A i \in DOMAIN inbox : /\ inbox[i].req \in Nat /\ inbox[i].target \in Targets \cup {None}
                                    /\ inbox[i].files \in Files \cup {None}
         /\ \A i \in DOMAIN outbox : /\ outbox[i].req \in Nat /\ outbox[i].target \in Targets
                                     /\ outbox[i].of \in Files \cup {None}
         /\ \A j \in builds : /\ j.req \in Nat /\ j.target \in Targets /\ j.ver \in Nat /\ j.text \in Files
         /\ worker.have \in Files /\ worker.ver \in Nat /\ worker.target \in Targets \cup {None}
         /\ docs.ver \in Int /\ docs.of \in Files \cup {None}
         /\ \A t \in Targets : cache[t].ver \in Int /\ cache[t].of \in Files \cup {None}
<1>1. \A i \in DOMAIN inbox : inbox[i] \in FormMessage
  BY DEF FormTypes
<1>2. \A i \in DOMAIN outbox : outbox[i] \in FormAnswer
  BY DEF FormTypes
<1>3. \A t \in Targets : cache[t] \in FormSlot
  BY DEF FormTypes
<1>4. builds \subseteq FormBuild /\ worker \in FormWorker /\ docs \in FormSlot
  BY DEF FormTypes
<1>5. \A i \in DOMAIN inbox : /\ inbox[i].req \in Nat /\ inbox[i].target \in Targets \cup {None}
                              /\ inbox[i].files \in Files \cup {None}
  BY <1>1 DEF FormMessage
<1>6. \A i \in DOMAIN outbox : /\ outbox[i].req \in Nat /\ outbox[i].target \in Targets
                               /\ outbox[i].of \in Files \cup {None}
  BY <1>2 DEF FormAnswer
<1>7. \A j \in builds : /\ j.req \in Nat /\ j.target \in Targets /\ j.ver \in Nat /\ j.text \in Files
  BY <1>4 DEF FormBuild
<1>8. /\ worker.have \in Files /\ worker.ver \in Nat /\ worker.target \in Targets \cup {None}
      /\ docs.ver \in Int /\ docs.of \in Files \cup {None}
      /\ \A t \in Targets : cache[t].ver \in Int /\ cache[t].of \in Files \cup {None}
  BY <1>3, <1>4 DEF FormWorker, FormSlot
<1>9. QED
  BY <1>5, <1>6, <1>7, <1>8

LEMMA HasMin ==
  ASSUME NEW S \in SUBSET Nat, S # {}
  PROVE  Min(S) \in S
<1>1. PICK x \in S : \A y \in S : <<y, x>> \notin OpToRel(<, Nat)
  BY NatLessThanWellFounded, WFMin
<1>2. \A y \in S : x <= y
  <2>1. SUFFICES ASSUME NEW y \in S PROVE x <= y
    OBVIOUS
  <2>2. x \in Nat /\ y \in Nat
    BY <1>1
  <2>3. ~(y < x)
    BY <1>1, <2>2 DEF OpToRel
  <2>4. QED
    BY <2>2, <2>3
<1>3. QED
  BY <1>2 DEF Min

\* What is missing are namespaces the files do not have.
LEMMA MissingShows ==
  ASSUME NEW t \in Targets, NEW f \in Files
  PROVE  Missing(t, f) \in SUBSET Namespaces
<1> DEFINE lacking == {k \in DOMAIN Needs[t] : ~(Needs[t][k] \subseteq f.cur)}
<1>1. Needs[t] \in Seq(SUBSET Namespaces)
  BY NeedsAssumption
<1>2. lacking \in SUBSET Nat /\ \A k \in lacking : Needs[t][k] \in SUBSET Namespaces
  BY <1>1
<1>3. Missing(t, f) = IF lacking = {} THEN {} ELSE Needs[t][Min(lacking)] \ f.cur
  BY DEF Missing
<1> HIDE DEF lacking
<1>4. CASE lacking = {}
  BY <1>3, <1>4
<1>5. CASE lacking # {}
  <2>1. Min(lacking) \in lacking
    BY <1>2, <1>5, HasMin
  <2>2. QED
    BY <1>2, <1>3, <1>5, <2>1
<1>6. QED
  BY <1>4, <1>5

-----------------------------------------------------------------------------
(* The studio asks. *)

\* A request or the files go to the worker, whatever else changes in the
\* studio: the last message is the current one.
LEMMA PostInv ==
  ASSUME FormInv, asked' = asked + 1,
         NEW x \in Targets \cup {None}, NEW f \in Files \cup {None},
         inbox' = Append(inbox, [req |-> asked', target |-> x, files |-> f]),
         UNCHANGED <<outbox, worker, docs, cache, builds>>,
         \/ f = files' /\ f # None /\ x = None /\ UNCHANGED chosen
         \/ f = None /\ x = chosen' /\ UNCHANGED <<files, unsent>>
  PROVE  /\ inbox' \in Seq(FormMessage) /\ asked' \in Nat
         /\ Tagged' /\ InTurn' /\ FilesOnTheWay' /\ TargetOnTheWay' /\ AnswersTheCurrent'
         /\ PanelSays' /\ KeepsTrying'
<1>0. FormTypes /\ Tagged /\ InTurn /\ FilesOnTheWay /\ TargetOnTheWay
  BY DEF FormInv
<1> DEFINE m == [req |-> asked', target |-> x, files |-> f]
           n == Len(inbox) + 1
<1>1. asked \in Nat /\ asked' \in Nat /\ inbox \in Seq(FormMessage)
  BY <1>0 DEF FormTypes
<1>2. m \in FormMessage /\ m.req = asked' /\ m.target = x /\ m.files = f
  BY <1>1 DEF FormMessage
<1>3. inbox' = Append(inbox, m)
  OBVIOUS
<1> HIDE DEF m
<1>4. /\ inbox' \in Seq(FormMessage) /\ Len(inbox') = n /\ Len(inbox) \in Nat /\ n \in Nat
      /\ DOMAIN inbox = 1..Len(inbox) /\ DOMAIN inbox' = 1..n
      /\ \A i \in DOMAIN inbox : inbox'[i] = inbox[i]
      /\ inbox'[n] = m /\ inbox' # <<>>
  BY <1>1, <1>2, <1>3, LastAdded
<1>5. \A i \in DOMAIN inbox' : i = n \/ (i \in DOMAIN inbox /\ i # n)
  BY <1>4
<1>6. \A i \in DOMAIN inbox : n \in (i + 1)..Len(inbox') /\ n \in DOMAIN inbox'
  BY <1>4
<1> HIDE DEF n
<1>7. Tagged'
  BY <1>0 DEF Tagged
<1>8. InTurn'
  <2>1. \A i \in DOMAIN inbox' : inbox'[i].req <= asked' /\ (inbox'[i].req = asked' <=> i = Len(inbox'))
    <3>1. \A i \in DOMAIN inbox : inbox[i].req \in Nat /\ inbox[i].req <= asked
      BY <1>0, FormRead DEF InTurn
    <3>2. QED
      BY <1>1, <1>2, <1>4, <1>5, <3>1
  <2>2. \A j \in builds : j.req \in Nat /\ j.req <= asked
    BY <1>0, FormRead DEF InTurn
  <2>3. \A i \in DOMAIN outbox : outbox[i].req \in Nat /\ outbox[i].req <= asked
    BY <1>0, FormRead DEF InTurn
  <2>4. QED
    BY <1>1, <2>1, <2>2, <2>3 DEF InTurn
<1>9. \A i \in DOMAIN inbox : \A k \in (i + 1)..Len(inbox) : k \in (i + 1)..Len(inbox') /\ inbox'[k] = inbox[k]
  <2>1. Len(inbox') = Len(inbox) + 1
    BY <1>4 DEF n
  <2>2. QED
    BY <1>4, <2>1
<1>10. FilesOnTheWay'
  <2>1. CASE f # None /\ f = files'
    <3>1. \A i \in DOMAIN inbox' :
            inbox'[i].files # None /\ (\A k \in (i + 1)..Len(inbox') : inbox'[k].files = None) => i = n
      BY <1>2, <1>4, <1>5, <1>6, <2>1
    <3>2. inbox'[n].files = files' /\ n \in DOMAIN inbox' /\ inbox'[n].files # None
      <4>1. n \in DOMAIN inbox'
        BY <1>4 DEF n
      <4>2. QED
        BY <1>2, <1>4, <2>1, <4>1
    <3>3. QED
      BY <3>1, <3>2 DEF FilesOnTheWay
  <2>2. CASE f = None /\ UNCHANGED <<files, unsent>>
    <3>1. SUFFICES ASSUME ~unsent PROVE FilesOnTheWay'
      BY <2>2 DEF FilesOnTheWay
    <3>2. (\A i \in DOMAIN inbox' : inbox'[i].files = None) => worker.have = files
      BY <1>0, <1>4, <1>5, <3>1 DEF FilesOnTheWay, n
    <3>3. ASSUME NEW i \in DOMAIN inbox', inbox'[i].files # None,
                 \A k \in (i + 1)..Len(inbox') : inbox'[k].files = None
          PROVE  inbox'[i].files = files
      <4>1. i \in DOMAIN inbox /\ inbox'[i] = inbox[i]
        BY <1>2, <1>4, <1>5, <2>2, <3>3
      <4>2. \A k \in (i + 1)..Len(inbox) : inbox[k].files = None
        BY <1>9, <3>3, <4>1
      <4>3. QED
        BY <1>0, <3>1, <3>3, <4>1, <4>2 DEF FilesOnTheWay
    <3>4. QED
      BY <2>2, <3>2, <3>3 DEF FilesOnTheWay
  <2>3. QED
    BY <2>1, <2>2
<1>11. TargetOnTheWay'
  <2>1. CASE f = None /\ x = chosen'
    <3>1. \A i \in DOMAIN inbox' :
            inbox'[i].files = None /\ (\A k \in (i + 1)..Len(inbox') : inbox'[k].files # None) => i = n
      BY <1>2, <1>4, <1>5, <1>6, <2>1
    <3>2. inbox'[n].target = chosen' /\ n \in DOMAIN inbox' /\ inbox'[n].files = None
      <4>1. n \in DOMAIN inbox'
        BY <1>4 DEF n
      <4>2. QED
        BY <1>2, <1>4, <2>1, <4>1
    <3>3. QED
      BY <3>1, <3>2 DEF TargetOnTheWay
  <2>2. CASE f # None /\ UNCHANGED chosen
    <3>1. (\A i \in DOMAIN inbox' : inbox'[i].files # None) => worker.target = chosen
      BY <1>0, <1>4, <1>5, <1>6 DEF TargetOnTheWay, n
    <3>2. ASSUME NEW i \in DOMAIN inbox', inbox'[i].files = None,
                 \A k \in (i + 1)..Len(inbox') : inbox'[k].files # None
          PROVE  inbox'[i].target = chosen
      <4>1. i \in DOMAIN inbox /\ inbox'[i] = inbox[i]
        BY <1>2, <1>4, <1>5, <2>2, <3>2
      <4>2. \A k \in (i + 1)..Len(inbox) : inbox[k].files # None
        BY <1>9, <3>2, <4>1
      <4>3. QED
        BY <1>0, <3>2, <4>1, <4>2 DEF TargetOnTheWay
    <3>3. QED
      BY <2>2, <3>1, <3>2 DEF TargetOnTheWay
  <2>3. QED
    BY <2>1, <2>2
<1>12. AnswersTheCurrent'
  <2>1. \A j \in builds : j.req # asked'
    BY <1>1, <1>4, <1>8 DEF InTurn
  <2>2. \A i \in DOMAIN outbox : outbox[i].req # asked'
    BY <1>1, <1>4, <1>8 DEF InTurn
  <2>3. QED
    BY <2>1, <2>2 DEF AnswersTheCurrent
<1>13. PanelSays' /\ KeepsTrying'
  BY <1>4 DEF PanelSays, KeepsTrying, Pending
<1>14. QED
  BY <1>1, <1>4, <1>7, <1>8, <1>10, <1>11, <1>12, <1>13

-----------------------------------------------------------------------------
(* The worker works. *)

\* The cache of schemas tells the files of worker w by their version.
CacheFits(store, w) ==
  /\ store \in [Targets -> FormSlot]
  /\ \A t \in Targets : store[t].ver <= w.ver /\ (store[t].ver = w.ver => store[t].of = Good(w.have))

\* The answer to req for t, made of the files of w if current.
Answers(req, t, w, current) ==
  \E a \in FormAnswer :
    /\ outbox' = Append(outbox, a) /\ a.req = req /\ a.target = t
    /\ current => a.of = Good(w.have)

LEMMA ReplyShows ==
  ASSUME FormTypes, NEW w \in FormWorker, CacheFits(cache, w), NEW req \in Nat, NEW t \in Targets,
         NEW d \in FormSlot, d.ver <= w.ver, d.ver = w.ver => d.of = w.have, Reply(req, t, d, cache)
  PROVE  CacheFits(cache', w) /\ Answers(req, t, w, d.ver = w.ver)
<1> DEFINE entry == IF cache[t].ver = d.ver THEN cache[t]
                    ELSE [ver |-> d.ver, of |-> IF d.of.ok THEN d.of ELSE None]
           a == [req |-> req, target |-> t, of |-> entry.of]
<1>1. /\ cache' = IF cache[t].ver < d.ver THEN [cache EXCEPT ![t] = entry] ELSE cache
      /\ outbox' = Append(outbox, a)
  BY DEF Reply
<1>2. /\ cache \in [Targets -> FormSlot] /\ cache[t] \in FormSlot /\ cache[t].ver \in Int
      /\ cache[t].of \in Files \cup {None} /\ d.ver \in Int /\ d.of \in Files \cup {None}
      /\ w.ver \in Nat /\ (cache[t].ver = w.ver => cache[t].of = Good(w.have))
  BY DEF CacheFits, FormSlot, FormWorker
<1>3. entry \in FormSlot /\ entry.ver = d.ver /\ entry.of \in Files \cup {None}
  BY <1>2 DEF FormSlot
<1>4. d.ver = w.ver => entry.of = Good(w.have)
  BY <1>2 DEF Good
<1>5. a \in FormAnswer /\ a.req = req /\ a.target = t /\ a.of = entry.of
  BY <1>3 DEF FormAnswer
<1> HIDE DEF entry, a
<1>6. Answers(req, t, w, d.ver = w.ver)
  BY <1>1, <1>4, <1>5 DEF Answers
<1>7. CacheFits(cache', w)
  <2>1. cache' \in [Targets -> FormSlot]
    BY <1>1, <1>2, <1>3
  <2>2. ASSUME NEW s \in Targets
        PROVE  cache'[s].ver <= w.ver /\ (cache'[s].ver = w.ver => cache'[s].of = Good(w.have))
    <3>1. cache'[s] = cache[s] \/ cache'[s] = entry
      BY <1>1, <1>2
    <3>2. QED
      BY <1>3, <1>4, <3>1 DEF CacheFits
  <2>3. QED
    BY <2>1, <2>2 DEF CacheFits
<1>8. QED
  BY <1>6, <1>7

LEMMA FormBuiltInv == ASSUME FormInv, NEW j \in builds, Built(j) PROVE FormInv'
<1>0. /\ FormTypes /\ Tagged /\ InTurn /\ FilesOnTheWay /\ TargetOnTheWay /\ AnswersTheCurrent
      /\ PanelSays /\ KeepsTrying
  BY DEF FormInv
<1> DEFINE f == [j.text EXCEPT !.cur = worker.have.cur]
           d == [ver |-> j.ver, of |-> f]
<1>1. /\ builds' = builds \ {j} /\ docs' = (IF docs.ver < d.ver THEN d ELSE docs)
      /\ Reply(j.req, j.target, d, cache) /\ UNCHANGED <<inbox, worker>>
      /\ UNCHANGED <<files, unsent, chosen, selects, asked, schemas, status, left, spent,
                     waiters, retries, hydrated, wanted, parse, listed>>
  BY DEF Built, studio
<1>2. /\ j.req \in Nat /\ j.target \in Targets /\ j.ver \in Nat /\ j.text \in Files
      /\ worker \in FormWorker /\ worker.have \in Files /\ worker.ver \in Nat /\ docs.ver \in Int
      /\ outbox \in Seq(FormAnswer) /\ docs \in FormSlot
  BY <1>0, FormRead DEF FormTypes
<1>3. f \in Files /\ (j.text = worker.have => f = worker.have)
  BY <1>2 DEF Files
<1>4. j.ver <= worker.ver /\ (j.ver = worker.ver => f = worker.have)
  BY <1>0, <1>3 DEF Tagged
<1>5. d \in FormSlot /\ d.ver = j.ver /\ d.of = f
  BY <1>2, <1>3 DEF FormSlot
<1> HIDE DEF d, f
<1>6. CacheFits(cache, worker)
  BY <1>0 DEF Tagged, FormTypes, CacheFits
<1>7. CacheFits(cache', worker) /\ Answers(j.req, j.target, worker, d.ver = worker.ver)
  BY <1>0, <1>1, <1>2, <1>4, <1>5, <1>6, ReplyShows
<1>8. PICK a \in FormAnswer :
        /\ outbox' = Append(outbox, a) /\ a.req = j.req /\ a.target = j.target
        /\ j.ver = worker.ver => a.of = Good(worker.have)
  BY <1>5, <1>7 DEF Answers
<1> DEFINE n == Len(outbox) + 1
<1>9. /\ outbox' \in Seq(FormAnswer) /\ outbox'[n] = a /\ n \in DOMAIN outbox'
      /\ \A i \in DOMAIN outbox : outbox'[i] = outbox[i] /\ i \in DOMAIN outbox'
      /\ \A i \in DOMAIN outbox' : i = n \/ i \in DOMAIN outbox
  BY <1>2, <1>8, LastAdded
<1> HIDE DEF n
<1>10. Tagged'
  <2>1. docs'.ver <= worker.ver /\ (docs'.ver = worker.ver => docs'.of = worker.have)
    BY <1>0, <1>1, <1>2, <1>4, <1>5 DEF Tagged
  <2>2. QED
    BY <1>0, <1>1, <1>7, <2>1 DEF Tagged, CacheFits
<1>11. InTurn'
  <2>1. j.req <= asked /\ (j.req = asked => inbox = <<>>)
    BY <1>0 DEF InTurn
  <2>2. QED
    BY <1>0, <1>1, <1>8, <1>9, <2>1 DEF InTurn
<1>12. FilesOnTheWay' /\ TargetOnTheWay'
  BY <1>0, <1>1 DEF FilesOnTheWay, TargetOnTheWay
<1>13. AnswersTheCurrent'
  BY <1>0, <1>1, <1>8, <1>9 DEF AnswersTheCurrent
<1>14. Pending => Pending'
  BY <1>1, <1>8, <1>9 DEF Pending
<1>15. PanelSays' /\ KeepsTrying'
  <2>1. PanelSays'
    BY <1>0, <1>1, <1>14 DEF PanelSays, Said
  <2>2. AskedAgain => AskedAgain'
    BY <1>1 DEF AskedAgain, Missing
  <2>3. QED
    BY <1>0, <1>1, <1>14, <2>1, <2>2 DEF KeepsTrying
<1>16. FormTypes'
  <2>1. builds' \subseteq FormBuild /\ docs' \in FormSlot /\ cache' \in [Targets -> FormSlot]
    BY <1>0, <1>1, <1>5, <1>7 DEF FormTypes, CacheFits
  <2>2. QED
    BY <1>0, <1>1, <1>9, <2>1 DEF FormTypes
<1>17. QED
  BY <1>10, <1>11, <1>12, <1>13, <1>15, <1>16 DEF FormInv

\* A preview run for target t of worker w: at once, or suspended in a build.
LEMMA RunPreviewShows ==
  ASSUME FormTypes, NEW w \in FormWorker, CacheFits(cache, w), NEW req \in Nat, NEW t \in Targets,
         docs.ver = w.ver => docs.of = w.have, RunPreview(req, t, w)
  PROVE  /\ CacheFits(cache', w) /\ UNCHANGED docs
         /\ \/ Answers(req, t, w, TRUE) /\ UNCHANGED builds
            \/ /\ UNCHANGED outbox
               /\ builds' = builds \cup {[req |-> req, target |-> t, ver |-> w.ver, text |-> w.have]}
<1>1. CASE docs.ver = w.ver
  <2>1. Reply(req, t, docs, cache) /\ UNCHANGED <<docs, builds>>
    BY <1>1 DEF RunPreview
  <2>2. docs \in FormSlot /\ docs.ver <= w.ver
    BY <1>1 DEF FormTypes, FormWorker
  <2>3. CacheFits(cache', w) /\ Answers(req, t, w, docs.ver = w.ver)
    BY <1>1, <2>1, <2>2, ReplyShows
  <2>4. QED
    BY <1>1, <2>1, <2>3 DEF Answers
<1>2. CASE docs.ver # w.ver
  BY <1>2 DEF RunPreview
<1>3. QED
  BY <1>1, <1>2

\* The worker takes a message.  The last one is for the chosen target and
\* leaves the worker with the files of the studio.
LEMMA HandleInv == ASSUME FormInv, Handle PROVE FormInv'
<1>0. /\ FormTypes /\ Tagged /\ InTurn /\ FilesOnTheWay /\ TargetOnTheWay /\ AnswersTheCurrent
      /\ PanelSays /\ KeepsTrying
  BY DEF FormInv
<1> DEFINE m == Head(inbox)
           w == IF m.files # None THEN [worker EXCEPT !.have = m.files, !.ver = @ + 1]
                ELSE [worker EXCEPT !.target = m.target]
           n == Len(inbox)
<1>1. /\ inbox # <<>> /\ inbox' = Tail(inbox) /\ worker' = w
      /\ (IF w.target # None THEN RunPreview(m.req, w.target, w)
          ELSE UNCHANGED <<outbox, docs, cache, builds>>)
      /\ UNCHANGED <<files, unsent, chosen, selects, asked, schemas, status, left, spent,
                     waiters, retries, hydrated, wanted, parse, listed>>
  BY DEF Handle, studio
<1>2. /\ m = inbox[1] /\ 1 \in DOMAIN inbox /\ inbox' \in Seq(FormMessage) /\ Len(inbox') = n - 1
      /\ n \in Nat \ {0} /\ DOMAIN inbox = 1..n /\ DOMAIN inbox' = 1..(n - 1)
      /\ \A i \in DOMAIN inbox' : inbox'[i] = inbox[i + 1] /\ i + 1 \in DOMAIN inbox
      /\ (inbox' = <<>> <=> n = 1)
  BY <1>0, <1>1, FirstTaken DEF FormTypes
<1>3. /\ m.req \in Nat /\ m.target \in Targets \cup {None} /\ m.files \in Files \cup {None}
      /\ worker \in FormWorker /\ worker.have \in Files /\ worker.ver \in Nat
      /\ worker.target \in Targets \cup {None} /\ docs.ver \in Int /\ asked \in Nat
      /\ outbox \in Seq(FormAnswer) /\ chosen \in Targets \cup {None}
  BY <1>0, <1>2, FormRead DEF FormTypes
<1>4. m.req <= asked /\ (m.req = asked <=> n = 1)
  BY <1>0, <1>2 DEF InTurn
<1> HIDE DEF m, n
<1>5. /\ w \in FormWorker /\ w.have \in Files /\ w.ver \in Nat /\ w.target \in Targets \cup {None}
      /\ m.files # None => w.have = m.files /\ w.ver = worker.ver + 1 /\ w.target = worker.target
      /\ m.files = None => w.have = worker.have /\ w.ver = worker.ver /\ w.target = m.target
  <2>1. CASE m.files # None
    <3>1. w = [worker EXCEPT !.have = m.files, !.ver = worker.ver + 1]
      BY <2>1
    <3>2. m.files \in Files /\ worker.ver + 1 \in Nat
      BY <1>3, <2>1
    <3> HIDE DEF w
    <3>3. w \in FormWorker /\ w.have = m.files /\ w.ver = worker.ver + 1 /\ w.target = worker.target
      BY <1>3, <3>1, <3>2 DEF FormWorker
    <3>4. QED
      BY <1>3, <2>1, <3>2, <3>3
  <2>2. CASE m.files = None
    <3>1. w = [worker EXCEPT !.target = m.target]
      BY <2>2
    <3> HIDE DEF w
    <3>2. w \in FormWorker /\ w.have = worker.have /\ w.ver = worker.ver /\ w.target = m.target
      BY <1>3, <3>1 DEF FormWorker
    <3>3. QED
      BY <1>3, <2>2, <3>2
  <2>3. QED
    BY <2>1, <2>2
<1> HIDE DEF w
<1>6. /\ CacheFits(cache, w) /\ docs.ver <= w.ver /\ (docs.ver = w.ver => docs.of = w.have)
      /\ \A j \in builds : j.ver <= w.ver /\ (j.ver = w.ver => j.text = w.have)
  <2>1. \A t \in Targets : cache[t].ver \in Int
    BY <1>0, FormRead
  <2>2. \A j \in builds : j.ver \in Nat
    BY <1>0, FormRead
  <2>3. CASE m.files # None
    <3>1. \A t \in Targets : cache[t].ver <= worker.ver
      BY <1>0 DEF Tagged
    <3>2. CacheFits(cache, w)
      <4>1. \A t \in Targets : cache[t].ver < w.ver /\ cache[t].ver \in Int
        BY <1>3, <1>5, <2>1, <2>3, <3>1
      <4>2. cache \in [Targets -> FormSlot]
        BY <1>0 DEF FormTypes
      <4>3. \A t \in Targets : cache[t].ver <= w.ver /\ ~(cache[t].ver = w.ver)
        BY <1>5, <4>1
      <4>4. QED
        BY <4>2, <4>3 DEF CacheFits
    <3>3. QED
      BY <1>0, <1>3, <1>5, <2>2, <2>3, <3>2 DEF Tagged
  <2>4. CASE m.files = None
    BY <1>0, <1>5, <2>4 DEF Tagged, FormTypes, CacheFits
  <2>5. QED
    BY <2>3, <2>4
<1> DEFINE b == [req |-> m.req, target |-> w.target, ver |-> w.ver, text |-> w.have]
<1>7. /\ CacheFits(cache', w) /\ UNCHANGED docs
      /\ \/ w.target = None /\ UNCHANGED <<outbox, builds>>
         \/ w.target \in Targets /\ Answers(m.req, w.target, w, TRUE) /\ UNCHANGED builds
         \/ w.target \in Targets /\ UNCHANGED outbox /\ builds' = builds \cup {b}
  <2>1. CASE w.target = None
    BY <1>1, <1>6, <2>1
  <2>2. CASE w.target # None
    <3>1. w.target \in Targets /\ RunPreview(m.req, w.target, w)
      BY <1>1, <1>5, <2>2
    <3>2. QED
      BY <1>0, <1>3, <1>5, <1>6, <3>1, RunPreviewShows
  <2>3. QED
    BY <2>1, <2>2
<1>8. w.target \in Targets =>
        b \in FormBuild /\ b.req = m.req /\ b.target = w.target /\ b.ver = w.ver /\ b.text = w.have
  BY <1>3, <1>5 DEF FormBuild
<1> HIDE DEF b
<1>9. \A j \in builds' : j \in builds \/ (w.target \in Targets /\ j = b)
  BY <1>7
<1>10. /\ outbox' \in Seq(FormAnswer)
       /\ \A i \in DOMAIN outbox' :
            \/ i \in DOMAIN outbox /\ outbox'[i] = outbox[i]
            \/ outbox'[i].req = m.req /\ outbox'[i].target = w.target /\ outbox'[i].of = Good(w.have)
       /\ w.target # None =>
            (\E j \in builds' : j.req = m.req) \/ \E i \in DOMAIN outbox' : outbox'[i].req = m.req
  <2>1. CASE w.target = None
    BY <1>3, <1>7, <2>1, NullAssumption
  <2>2. CASE w.target \in Targets /\ UNCHANGED outbox /\ builds' = builds \cup {b}
    BY <1>3, <1>8, <2>2
  <2>3. CASE w.target \in Targets /\ Answers(m.req, w.target, w, TRUE)
    <3>1. PICK a \in FormAnswer :
            outbox' = Append(outbox, a) /\ a.req = m.req /\ a.target = w.target /\ a.of = Good(w.have)
      BY <2>3 DEF Answers
    <3> DEFINE k == Len(outbox) + 1
    <3>2. /\ outbox' \in Seq(FormAnswer) /\ outbox'[k] = a /\ k \in DOMAIN outbox'
          /\ \A i \in DOMAIN outbox : outbox'[i] = outbox[i]
          /\ \A i \in DOMAIN outbox' : i = k \/ i \in DOMAIN outbox
      BY <1>3, <3>1, LastAdded
    <3> HIDE DEF k
    <3>3. QED
      BY <3>1, <3>2
  <2>4. QED
    BY <1>5, <1>7, <2>1, <2>2, <2>3
<1>11. Tagged'
  <2>1. \A j \in builds' : j.ver <= w.ver /\ (j.ver = w.ver => j.text = w.have)
    BY <1>5, <1>6, <1>8, <1>9
  <2>2. QED
    BY <1>1, <1>6, <1>7, <2>1 DEF Tagged, CacheFits
<1>12. InTurn'
  <2>1. \A i \in DOMAIN inbox' : inbox'[i].req <= asked /\ (inbox'[i].req = asked <=> i = Len(inbox'))
    <3>1. \A i \in DOMAIN inbox : inbox[i].req <= asked /\ (inbox[i].req = asked <=> i = n)
      BY <1>0 DEF InTurn, n
    <3>2. \A i \in DOMAIN inbox' : i \in Nat /\ (i + 1 = n <=> i = Len(inbox'))
      BY <1>2
    <3>3. QED
      BY <1>2, <3>1, <3>2
  <2>2. \A j \in builds' : j.req <= asked /\ (j.req = asked => inbox' = <<>>)
    BY <1>0, <1>1, <1>2, <1>4, <1>8, <1>9 DEF InTurn
  <2>3. \A i \in DOMAIN outbox' : outbox'[i].req <= asked /\ (outbox'[i].req = asked => inbox' = <<>>)
    BY <1>0, <1>1, <1>2, <1>4, <1>10 DEF InTurn
  <2>4. QED
    BY <1>1, <2>1, <2>2, <2>3 DEF InTurn
<1>13. ASSUME NEW i \in DOMAIN inbox', NEW k \in (i + 2)..n
       PROVE  k - 1 \in (i + 1)..Len(inbox') /\ inbox'[k - 1] = inbox[k]
  <2>1. k - 1 \in (i + 1)..Len(inbox') /\ k - 1 \in DOMAIN inbox' /\ (k - 1) + 1 = k
    BY <1>2
  <2>2. QED
    BY <1>2, <2>1
<1>14. \A i \in DOMAIN inbox' : (i + 1) + 1 = i + 2 /\ i + 1 \in DOMAIN inbox /\ inbox'[i] = inbox[i + 1]
  BY <1>2
<1>15. \A k \in 2..n : k - 1 \in DOMAIN inbox' /\ inbox'[k - 1] = inbox[k]
  <2>1. SUFFICES ASSUME NEW k \in 2..n PROVE k - 1 \in DOMAIN inbox' /\ inbox'[k - 1] = inbox[k]
    OBVIOUS
  <2>2. k - 1 \in DOMAIN inbox' /\ (k - 1) + 1 = k
    BY <1>2
  <2>3. QED
    BY <1>2, <2>2
<1>16. FilesOnTheWay'
  <2>1. SUFFICES ASSUME ~unsent PROVE FilesOnTheWay'
    BY <1>1 DEF FilesOnTheWay
  <2>2. ASSUME \A i \in DOMAIN inbox' : inbox'[i].files = None PROVE w.have = files
    <3>1. \A k \in 2..n : inbox[k].files = None
      BY <1>15, <2>2
    <3>2. CASE m.files # None
      <4>1. inbox[1].files = files
        BY <1>0, <1>2, <2>1, <3>1, <3>2 DEF FilesOnTheWay, n
      <4>2. QED
        BY <1>2, <1>5, <3>2, <4>1
    <3>3. CASE m.files = None
      <4>1. \A i \in DOMAIN inbox : i = 1 \/ i \in 2..n
        BY <1>2
      <4>2. worker.have = files
        BY <1>0, <1>2, <2>1, <3>1, <3>3, <4>1 DEF FilesOnTheWay
      <4>3. QED
        BY <1>5, <3>3, <4>2
    <3>4. QED
      BY <3>2, <3>3
  <2>3. ASSUME NEW i \in DOMAIN inbox', inbox'[i].files # None,
               \A k \in (i + 1)..Len(inbox') : inbox'[k].files = None
        PROVE  inbox'[i].files = files
    <3>1. \A k \in ((i + 1) + 1)..n : inbox[k].files = None
      BY <1>13, <1>14, <2>3
    <3>2. QED
      BY <1>0, <1>14, <2>1, <2>3, <3>1 DEF FilesOnTheWay, n
  <2>4. QED
    BY <1>1, <2>2, <2>3 DEF FilesOnTheWay
<1>17. TargetOnTheWay'
  <2>1. ASSUME \A i \in DOMAIN inbox' : inbox'[i].files # None PROVE w.target = chosen
    <3>1. \A k \in 2..n : inbox[k].files # None
      BY <1>15, <2>1
    <3>2. CASE m.files = None
      <4>1. inbox[1].target = chosen
        BY <1>0, <1>2, <3>1, <3>2 DEF TargetOnTheWay, n
      <4>2. QED
        BY <1>2, <1>5, <3>2, <4>1
    <3>3. CASE m.files # None
      <4>1. \A i \in DOMAIN inbox : i = 1 \/ i \in 2..n
        BY <1>2
      <4>2. worker.target = chosen
        BY <1>0, <1>2, <3>1, <3>3, <4>1 DEF TargetOnTheWay
      <4>3. QED
        BY <1>5, <3>3, <4>2
    <3>4. QED
      BY <3>2, <3>3
  <2>2. ASSUME NEW i \in DOMAIN inbox', inbox'[i].files = None,
               \A k \in (i + 1)..Len(inbox') : inbox'[k].files # None
        PROVE  inbox'[i].target = chosen
    <3>1. \A k \in ((i + 1) + 1)..n : inbox[k].files # None
      BY <1>13, <1>14, <2>2
    <3>2. QED
      BY <1>0, <1>14, <2>2, <3>1 DEF TargetOnTheWay, n
  <2>3. QED
    BY <1>1, <2>1, <2>2 DEF TargetOnTheWay
<1>18. m.req = asked => inbox' = <<>> /\ w.target = chosen
  <2>1. SUFFICES ASSUME m.req = asked PROVE inbox' = <<>> /\ w.target = chosen
    OBVIOUS
  <2>2. inbox' = <<>> /\ DOMAIN inbox' = {}
    BY <1>2, <1>4, <2>1
  <2>3. QED
    BY <1>1, <1>17, <2>2 DEF TargetOnTheWay
<1>19. AnswersTheCurrent'
  <2>1. \A j \in builds : j.req # asked
    BY <1>0, <1>1 DEF InTurn
  <2>2. \A i \in DOMAIN outbox : outbox[i].req # asked
    BY <1>0, <1>1 DEF InTurn
  <2>3. \A j \in builds' : j.req = asked => j.target = chosen /\ j.ver = w.ver
    BY <1>8, <1>9, <1>18, <2>1
  <2>4. \A i \in DOMAIN outbox' :
          outbox'[i].req = asked => outbox'[i].target = chosen /\ outbox'[i].of = Good(w.have)
    BY <1>10, <1>18, <2>2
  <2>5. QED
    BY <1>1, <2>3, <2>4 DEF AnswersTheCurrent
<1>20. chosen # None => Pending'
  <2>1. CASE inbox' # <<>>
    BY <2>1 DEF Pending
  <2>2. CASE inbox' = <<>>
    <3>1. m.req = asked
      BY <1>2, <1>4, <2>2
    <3>2. QED
      BY <1>1, <1>10, <1>18, <3>1 DEF Pending
  <2>3. QED
    BY <2>1, <2>2
<1>21. PanelSays' /\ KeepsTrying'
  BY <1>1, <1>20 DEF PanelSays, KeepsTrying
<1>22. FormTypes'
  <2>1. builds' \subseteq FormBuild
    BY <1>0, <1>8, <1>9 DEF FormTypes
  <2>2. cache' \in [Targets -> FormSlot] /\ worker' \in FormWorker
    BY <1>1, <1>5, <1>7 DEF CacheFits
  <2>3. QED
    BY <1>0, <1>1, <1>2, <1>7, <1>10, <2>1, <2>2 DEF FormTypes
<1>23. QED
  BY <1>11, <1>12, <1>16, <1>17, <1>19, <1>21, <1>22 DEF FormInv

-----------------------------------------------------------------------------
(* The steps of the studio. *)

\* The parse started over is of what is wanted.
LEMMA ReparseShows ==
  ASSUME NEW p \in SUBSET Namespaces, NEW h \in SUBSET Namespaces, Reparse(p, h)
  PROVE  parse' \in [marks : SUBSET Namespaces, wants : SUBSET Namespaces] /\ parse'.marks = p
BY DEF Reparse, NoParse

LEMMA CommitInv == ASSUME FormInv, Commit PROVE FormInv'
<1>1. FormTypes /\ files \in Files /\ asked \in Nat
  BY DEF FormInv, FormTypes
<1>2. /\ asked' = asked + 1 /\ inbox' = Append(inbox, [req |-> asked', target |-> None, files |-> files'])
      /\ UNCHANGED <<files, chosen, outbox, worker, docs, cache, builds>> /\ unsent' = FALSE
      /\ UNCHANGED <<selects, schemas, status, left, spent, waiters, retries, hydrated, wanted, listed>>
  BY DEF Commit, Post, Message, thread
<1>3. /\ inbox' \in Seq(FormMessage) /\ asked' \in Nat
      /\ Tagged' /\ InTurn' /\ FilesOnTheWay' /\ TargetOnTheWay' /\ AnswersTheCurrent'
      /\ PanelSays' /\ KeepsTrying'
  <2>1. files' # None
    BY <1>1, <1>2, NullAssumption
  <2>2. files' \in Files \cup {None}
    BY <1>1, <1>2
  <2>3. QED
    BY <1>2, <2>1, <2>2, PostInv
<1>4. parse' \in [marks : SUBSET Namespaces, wants : SUBSET Namespaces] /\ parse'.marks = wanted
  BY <1>1, ReparseShows DEF Commit, FormTypes
<1>5. FormTypes'
  BY <1>1, <1>2, <1>3, <1>4 DEF FormTypes
<1>6. QED
  BY <1>3, <1>5 DEF FormInv

LEMMA EditInv == ASSUME FormInv, NEW ok \in BOOLEAN, Edit(ok) PROVE FormInv'
<1>1. FormTypes /\ files \in Files /\ asked \in Nat
  BY DEF FormInv, FormTypes
<1>2. /\ asked' = asked + 1 /\ inbox' = Append(inbox, [req |-> asked', target |-> None, files |-> files'])
      /\ UNCHANGED <<unsent, chosen, outbox, worker, docs, cache, builds>>
      /\ UNCHANGED <<selects, schemas, status, left, spent, waiters, retries, hydrated, wanted, listed>>
  BY DEF Edit, Post, Message, thread
<1>3. files' \in Files
  <2>1. files' = [files EXCEPT !.rev = @ + 1, !.ok = ok] /\ files.rev < MaxTextEdits
    BY DEF Edit
  <2>2. files.rev + 1 \in 0..MaxTextEdits
    BY <1>1, <2>1, FormBoundAssumption DEF Files
  <2>3. QED
    BY <1>1, <2>1, <2>2 DEF Files
<1>4. /\ inbox' \in Seq(FormMessage) /\ asked' \in Nat
      /\ Tagged' /\ InTurn' /\ FilesOnTheWay' /\ TargetOnTheWay' /\ AnswersTheCurrent'
      /\ PanelSays' /\ KeepsTrying'
  <2>1. files' # None /\ files' \in Files \cup {None}
    BY <1>3, NullAssumption
  <2>2. QED
    BY <1>2, <2>1, PostInv
<1>5. parse' \in [marks : SUBSET Namespaces, wants : SUBSET Namespaces] /\ parse'.marks = wanted
  BY <1>1, ReparseShows DEF Edit, FormTypes
<1>6. FormTypes'
  BY <1>1, <1>2, <1>3, <1>4, <1>5 DEF FormTypes
<1>7. QED
  BY <1>4, <1>6 DEF FormInv

LEMMA SelectInv == ASSUME FormInv, NEW t \in Targets, Select(t) PROVE FormInv'
<1>1. FormTypes /\ files \in Files /\ asked \in Nat /\ selects \in 0..MaxSelects
  BY DEF FormInv, FormTypes
<1>2. /\ asked' = asked + 1 /\ inbox' = Append(inbox, [req |-> asked', target |-> t, files |-> None])
      /\ UNCHANGED <<files, unsent, outbox, worker, docs, cache, builds>>
      /\ chosen' = t /\ selects' = selects + 1 /\ selects < MaxSelects
      /\ status' = [state |-> "waiting", of |-> t]
      /\ UNCHANGED <<schemas, left, spent, waiters, retries, hydrated, wanted, parse, listed>>
  BY DEF Select, Post, Message, thread
<1>3. /\ inbox' \in Seq(FormMessage) /\ asked' \in Nat
      /\ Tagged' /\ InTurn' /\ FilesOnTheWay' /\ TargetOnTheWay' /\ AnswersTheCurrent'
      /\ PanelSays' /\ KeepsTrying'
  <2>1. t \in Targets \cup {None} /\ None \in Files \cup {None}
    OBVIOUS
  <2>2. QED
    BY <1>2, <2>1, PostInv
<1>4. status' \in FormStatus /\ selects' \in 0..MaxSelects
  BY <1>1, <1>2, FormBoundAssumption DEF FormStatus
<1>5. FormTypes'
  BY <1>1, <1>2, <1>3, <1>4 DEF FormTypes
<1>6. QED
  BY <1>3, <1>5 DEF FormInv

\* Of a target that is not the chosen one the timer passes in silence.
LEMMA RetryInv == ASSUME FormInv, NEW t \in Targets, Retry(t) PROVE FormInv'
<1>1. FormTypes /\ files \in Files /\ asked \in Nat /\ retries \in [Targets -> Nat]
  BY DEF FormInv, FormTypes
<1>2. /\ retries' = [retries EXCEPT ![t] = @ - 1] /\ retries[t] > 0
      /\ UNCHANGED <<files, unsent, chosen, outbox, worker, docs, cache, builds>>
      /\ UNCHANGED <<selects, schemas, status, left, spent, waiters, hydrated, wanted, parse, listed>>
  BY DEF Retry, thread
<1>3. retries' \in [Targets -> Nat]
  <2>1. retries[t] - 1 \in Nat
    BY <1>1, <1>2
  <2>2. QED
    BY <1>1, <1>2, <2>1
<1>4. CASE chosen = t
  <2>1. asked' = asked + 1 /\ inbox' = Append(inbox, [req |-> asked', target |-> t, files |-> None])
    BY <1>4 DEF Retry, Post, Message
  <2>2. /\ inbox' \in Seq(FormMessage) /\ asked' \in Nat
        /\ Tagged' /\ InTurn' /\ FilesOnTheWay' /\ TargetOnTheWay' /\ AnswersTheCurrent'
        /\ PanelSays' /\ KeepsTrying'
    <3>1. t \in Targets \cup {None} /\ None \in Files \cup {None}
      OBVIOUS
    <3>2. QED
      BY <1>2, <1>4, <2>1, <3>1, PostInv
  <2>3. FormTypes'
    BY <1>1, <1>2, <1>3, <2>2 DEF FormTypes
  <2>4. QED
    BY <2>2, <2>3 DEF FormInv
<1>5. CASE chosen # t
  <2>1. UNCHANGED <<asked, inbox>>
    BY <1>5 DEF Retry
  <2>2. FormTypes'
    BY <1>1, <1>2, <1>3, <2>1 DEF FormTypes
  <2>3. Tagged' /\ InTurn' /\ FilesOnTheWay' /\ TargetOnTheWay' /\ AnswersTheCurrent'
    <3>1. Tagged' /\ InTurn'
      BY <1>2, <2>1 DEF FormInv, Tagged, InTurn
    <3>2. FilesOnTheWay' /\ TargetOnTheWay'
      BY <1>2, <2>1 DEF FormInv, FilesOnTheWay, TargetOnTheWay
    <3>3. AnswersTheCurrent'
      BY <1>2, <2>1 DEF FormInv, AnswersTheCurrent
    <3>4. QED
      BY <3>1, <3>2, <3>3
  <2>4. Pending' = Pending
    BY <1>2, <2>1 DEF Pending
  <2>5. PanelSays'
    BY <1>2, <2>4 DEF FormInv, PanelSays, Said
  <2>6. KeepsTrying'
    <3>1. chosen \in Targets => retries'[chosen] = retries[chosen]
      BY <1>1, <1>2, <1>5
    <3>2. chosen \in Targets /\ AskedAgain => AskedAgain'
      BY <1>2, <3>1 DEF AskedAgain, Missing
    <3>3. chosen \in Targets \cup {None} /\ KeepsTrying
      BY <1>1 DEF FormTypes, FormInv
    <3>4. QED
      BY <1>2, <2>4, <3>2, <3>3 DEF KeepsTrying
  <2>7. QED
    BY <2>2, <2>3, <2>5, <2>6 DEF FormInv
<1>6. QED
  BY <1>4, <1>5

-----------------------------------------------------------------------------
(* The studio hears. *)

\* The first answer is taken from the queue.
LEMMA AnswerTaken ==
  ASSUME FormInv, outbox # <<>>, outbox' = Tail(outbox),
         UNCHANGED <<inbox, worker, docs, cache, builds>>,
         UNCHANGED <<asked, files, unsent, chosen>>
  PROVE  /\ outbox' \in Seq(FormAnswer)
         /\ Tagged' /\ InTurn' /\ FilesOnTheWay' /\ TargetOnTheWay' /\ AnswersTheCurrent'
         /\ Head(outbox).req # asked => (Pending => Pending')
<1>1. /\ FormTypes /\ Tagged /\ InTurn /\ FilesOnTheWay /\ TargetOnTheWay /\ AnswersTheCurrent
      /\ outbox \in Seq(FormAnswer)
  BY DEF FormInv, FormTypes
<1> DEFINE n == Len(outbox)
<1>2. /\ Head(outbox) = outbox[1] /\ 1 \in DOMAIN outbox /\ outbox' \in Seq(FormAnswer)
      /\ n \in Nat \ {0} /\ DOMAIN outbox = 1..n /\ DOMAIN outbox' = 1..(n - 1)
      /\ \A i \in DOMAIN outbox' : outbox'[i] = outbox[i + 1] /\ i + 1 \in DOMAIN outbox
  BY <1>1, FirstTaken
<1>3. \A i \in DOMAIN outbox : i # 1 => i - 1 \in DOMAIN outbox' /\ outbox'[i - 1] = outbox[i]
  <2>1. SUFFICES ASSUME NEW i \in DOMAIN outbox, i # 1
                 PROVE  i - 1 \in DOMAIN outbox' /\ outbox'[i - 1] = outbox[i]
    OBVIOUS
  <2>2. i - 1 \in DOMAIN outbox' /\ (i - 1) + 1 = i
    BY <1>2, <2>1
  <2>3. QED
    BY <1>2, <2>2
<1> HIDE DEF n
<1>4. Tagged'
  BY <1>1 DEF Tagged
<1>5. InTurn'
  BY <1>1, <1>2 DEF InTurn
<1>6. FilesOnTheWay' /\ TargetOnTheWay'
  BY <1>1 DEF FilesOnTheWay, TargetOnTheWay
<1>7. AnswersTheCurrent'
  BY <1>1, <1>2 DEF AnswersTheCurrent
<1>8. ASSUME Head(outbox).req # asked, Pending PROVE Pending'
  <2>1. ASSUME NEW i \in DOMAIN outbox, outbox[i].req = asked PROVE Pending'
    <3>1. i # 1
      BY <1>2, <1>8, <2>1
    <3>2. QED
      BY <1>3, <2>1, <3>1 DEF Pending
  <2>2. QED
    BY <1>8, <2>1 DEF Pending
<1>9. QED
  BY <1>2, <1>4, <1>5, <1>6, <1>7, <1>8

\* The answer to the current request is of the chosen target and of what the
\* worker has, and nothing is on its way to the worker.
LEMMA CurrentAnswer ==
  ASSUME FormInv, outbox # <<>>, Head(outbox).req = asked
  PROVE  /\ inbox = <<>> /\ chosen \in Targets /\ Head(outbox).target = chosen
         /\ Head(outbox).of = Good(worker.have) /\ worker.have \in Files /\ worker.have # None
<1>1. FormTypes /\ InTurn /\ AnswersTheCurrent /\ outbox \in Seq(FormAnswer)
  BY DEF FormInv, FormTypes
<1>2. Head(outbox) = outbox[1] /\ 1 \in DOMAIN outbox
  BY <1>1, FirstTaken
<1>3. outbox[1].target \in Targets /\ worker.have \in Files
  BY <1>1, <1>2, FormRead
<1>4. QED
  BY <1>1, <1>2, <1>3, NullAssumption DEF InTurn, AnswersTheCurrent

LEMMA DropInv == ASSUME FormInv, Drop PROVE FormInv'
<1>1. /\ outbox # <<>> /\ Head(outbox).req # asked /\ outbox' = Tail(outbox)
      /\ UNCHANGED <<inbox, worker, docs, cache, builds>>
      /\ UNCHANGED <<files, unsent, chosen, selects, asked, schemas, status, left, spent,
                     waiters, retries, hydrated, wanted, parse, listed>>
  BY DEF Drop, studio, thread
<1>2. /\ outbox' \in Seq(FormAnswer)
      /\ Tagged' /\ InTurn' /\ FilesOnTheWay' /\ TargetOnTheWay' /\ AnswersTheCurrent'
      /\ Pending => Pending'
  BY <1>1, AnswerTaken
<1>3. FormTypes /\ PanelSays /\ KeepsTrying
  BY DEF FormInv
<1>4. FormTypes'
  BY <1>1, <1>2, <1>3 DEF FormTypes
<1>5. PanelSays'
  BY <1>1, <1>2, <1>3 DEF PanelSays, Said
<1>6. AskedAgain => AskedAgain'
  BY <1>1 DEF AskedAgain, Missing
<1>7. KeepsTrying'
  BY <1>1, <1>2, <1>3, <1>6 DEF KeepsTrying
<1>8. QED
  BY <1>2, <1>4, <1>5, <1>7 DEF FormInv

LEMMA StaleInv == ASSUME FormInv, Stale PROVE FormInv'
<1> DEFINE t == Head(outbox).target
<1>1. /\ outbox # <<>> /\ Head(outbox).req = asked /\ Head(outbox).of = None /\ outbox' = Tail(outbox)
      /\ status' = (IF chosen # t THEN status
                    ELSE [state |-> IF schemas[t] # None THEN "stale" ELSE "unavailable", of |-> t])
      /\ UNCHANGED <<inbox, worker, docs, cache, builds>>
      /\ UNCHANGED <<files, unsent, chosen, selects, asked, schemas, left, spent,
                     waiters, retries, hydrated, wanted, parse, listed>>
  BY DEF Stale, thread
<1>2. /\ outbox' \in Seq(FormAnswer)
      /\ Tagged' /\ InTurn' /\ FilesOnTheWay' /\ TargetOnTheWay' /\ AnswersTheCurrent'
  BY <1>1, AnswerTaken
<1>3. chosen \in Targets /\ t = chosen /\ ~worker.have.ok /\ worker.have \in Files
  BY <1>1, CurrentAnswer DEF Good
<1> HIDE DEF t
<1>4. status' \in FormStatus /\ status'.of = chosen /\ status'.state \in {"stale", "unavailable"}
  BY <1>1, <1>3 DEF FormStatus
<1>5. FormTypes'
  BY <1>1, <1>2, <1>4 DEF FormInv, FormTypes
<1>6. PanelSays' /\ KeepsTrying'
  BY <1>1, <1>3, <1>4 DEF PanelSays, Said, KeepsTrying
<1>7. QED
  BY <1>2, <1>5, <1>6 DEF FormInv

\* The answer is shown.
LEMMA ShowSays ==
  ASSUME FormTypes, NEW f \in Files, f.ok, chosen \in Targets, Show(chosen, f),
         UNCHANGED <<worker, chosen>>, worker.have = f
  PROVE  /\ schemas' \in [Targets -> Files \cup {None}] /\ status' \in FormStatus
         /\ PanelSays' /\ status'.state = "ready"
<1>1. /\ schemas' = [schemas EXCEPT ![chosen] = f] /\ status' = [state |-> "ready", of |-> chosen]
      /\ schemas \in [Targets -> Files \cup {None}]
  BY DEF Show, FormTypes
<1>2. schemas' \in [Targets -> Files \cup {None}] /\ schemas'[chosen] = f
  BY <1>1
<1>3. status' \in FormStatus /\ status'.state = "ready" /\ status'.of = chosen
  BY <1>1 DEF FormStatus
<1>4. QED
  BY <1>2, <1>3 DEF PanelSays, Said

LEMMA ResolvedInv == ASSUME FormInv, Resolved PROVE FormInv'
<1> DEFINE m == Head(outbox)
<1>1. /\ outbox # <<>> /\ m.req = asked /\ m.of # None /\ outbox' = Tail(outbox)
      /\ Missing(m.target, m.of) = {} \/ ~listed
      /\ Show(m.target, m.of)
      /\ left' = [left EXCEPT ![m.target] = Undefined]
      /\ spent' = (IF Missing(m.target, m.of) = {} THEN [spent EXCEPT ![m.target] = 0] ELSE spent)
      /\ UNCHANGED <<inbox, worker, docs, cache, builds>>
      /\ UNCHANGED <<files, unsent, chosen, selects, asked, waiters, retries, hydrated,
                     wanted, parse, listed>>
  BY DEF Resolved, thread
<1>2. /\ outbox' \in Seq(FormAnswer)
      /\ Tagged' /\ InTurn' /\ FilesOnTheWay' /\ TargetOnTheWay' /\ AnswersTheCurrent'
  BY <1>1, AnswerTaken
<1>3. /\ chosen \in Targets /\ m.target = chosen /\ m.of = worker.have /\ worker.have.ok
      /\ worker.have \in Files
  BY <1>1, CurrentAnswer DEF Good
<1> HIDE DEF m
<1>4. FormTypes
  BY DEF FormInv
<1>5. /\ schemas' \in [Targets -> Files \cup {None}] /\ status' \in FormStatus
      /\ PanelSays' /\ status'.state = "ready"
  BY <1>1, <1>3, <1>4, ShowSays
<1>6. left' \in [Targets -> 0..Undefined] /\ spent' \in [Targets -> 0..MaxAttempts]
  <2>1. left \in [Targets -> 0..Undefined] /\ spent \in [Targets -> 0..MaxAttempts]
    BY <1>4 DEF FormTypes
  <2>2. Undefined \in 0..Undefined /\ 0 \in 0..MaxAttempts
    BY FormBoundAssumption DEF Undefined
  <2>3. QED
    BY <1>1, <2>1, <2>2
<1>7. FormTypes'
  BY <1>1, <1>2, <1>4, <1>5, <1>6 DEF FormTypes
<1>8. KeepsTrying'
  <2>1. Missing(chosen, worker.have) = {} => AskedAgain'
    BY <1>1 DEF AskedAgain, Missing
  <2>2. QED
    BY <1>1, <1>3, <2>1 DEF KeepsTrying
<1>9. QED
  BY <1>2, <1>5, <1>7, <1>8 DEF FormInv

\* A request for a namespace leaves a timer or a wait behind.
LEMMA RequestKeepsTrying ==
  ASSUME FormTypes, NEW t \in Targets, NEW round \in SUBSET Namespaces, round # {},
         RequestHydration(t, round)
  PROVE  /\ waiters' \in [Namespaces -> SUBSET Targets] /\ retries' \in [Targets -> Nat]
         /\ wanted' \subseteq Namespaces
         /\ parse' \in [marks : SUBSET Namespaces, wants : SUBSET Namespaces] /\ parse'.marks = wanted'
         /\ retries'[t] > 0 \/ \E n \in wanted' : t \in waiters'[n]
<1> DEFINE new == round \ hydrated
           old == round \cap hydrated
<1>1. /\ waiters' = [n \in Namespaces |-> IF n \in new THEN waiters[n] \cup {t} ELSE waiters[n]]
      /\ wanted' = wanted \cup new
      /\ retries' = [retries EXCEPT ![t] = @ + Cardinality(old)]
      /\ IF wanted' = wanted THEN UNCHANGED parse ELSE Reparse(wanted', hydrated)
  BY DEF RequestHydration
<1>2. /\ waiters \in [Namespaces -> SUBSET Targets] /\ retries \in [Targets -> Nat]
      /\ hydrated \subseteq Namespaces /\ wanted \subseteq Namespaces
      /\ parse \in [marks : SUBSET Namespaces, wants : SUBSET Namespaces] /\ parse.marks = wanted
  BY DEF FormTypes
<1>3. IsFiniteSet(old) /\ Cardinality(old) \in Nat /\ (old # {} => Cardinality(old) > 0)
  <2>1. IsFiniteSet(old)
    BY <1>2, NeedsAssumption, FS_Subset
  <2>2. Cardinality(old) \in Nat /\ (Cardinality(old) = 0 <=> old = {})
    BY <2>1, FS_CardinalityType, FS_EmptySet
  <2>3. QED
    BY <2>1, <2>2
<1>4. new \subseteq Namespaces /\ (new # {} \/ old # {})
  OBVIOUS
<1> HIDE DEF new, old
<1>5. wanted' \subseteq Namespaces /\ waiters' \in [Namespaces -> SUBSET Targets]
  BY <1>1, <1>2, <1>4
<1>6. retries' \in [Targets -> Nat] /\ retries'[t] = retries[t] + Cardinality(old)
  <2>1. retries[t] + Cardinality(old) \in Nat
    BY <1>2, <1>3
  <2>2. QED
    BY <1>1, <1>2, <2>1
<1>7. parse' \in [marks : SUBSET Namespaces, wants : SUBSET Namespaces] /\ parse'.marks = wanted'
  <2>1. CASE wanted' = wanted
    BY <1>1, <1>2, <2>1
  <2>2. CASE wanted' # wanted
    BY <1>1, <1>2, <1>5, <2>2, ReparseShows
  <2>3. QED
    BY <2>1, <2>2
<1>8. retries'[t] > 0 \/ \E n \in wanted' : t \in waiters'[n]
  <2>1. CASE new # {}
    BY <1>1, <1>4, <2>1
  <2>2. CASE old # {}
    BY <1>2, <1>3, <1>6, <2>2
  <2>3. QED
    BY <1>4, <2>1, <2>2
<1>9. QED
  BY <1>5, <1>6, <1>7, <1>8

LEMMA UnresolvedInv == ASSUME FormInv, Unresolved PROVE FormInv'
<1> DEFINE t == Head(outbox).target
           f == Head(outbox).of
<1>1. /\ outbox # <<>> /\ Head(outbox).req = asked /\ f # None /\ outbox' = Tail(outbox)
      /\ Missing(t, f) # {} /\ listed /\ Show(t, f)
      /\ (IF spent[t] < MaxAttempts
            THEN spent' = [spent EXCEPT ![t] = @ + 1] /\ RequestHydration(t, Missing(t, f))
            ELSE UNCHANGED <<spent, waiters, retries, wanted, parse>>)
      /\ left' = [left EXCEPT ![t] = MaxAttempts - spent'[t]]
      /\ UNCHANGED <<inbox, worker, docs, cache, builds>>
      /\ UNCHANGED <<files, unsent, chosen, selects, asked, hydrated, listed>>
  BY DEF Unresolved, thread
<1>2. /\ outbox' \in Seq(FormAnswer)
      /\ Tagged' /\ InTurn' /\ FilesOnTheWay' /\ TargetOnTheWay' /\ AnswersTheCurrent'
  BY <1>1, AnswerTaken
<1>3. chosen \in Targets /\ t = chosen /\ f = worker.have /\ worker.have.ok /\ f \in Files
  BY <1>1, CurrentAnswer DEF Good
<1> HIDE DEF t, f
<1>4. FormTypes
  BY DEF FormInv
<1>5. /\ schemas' \in [Targets -> Files \cup {None}] /\ status' \in FormStatus
      /\ PanelSays' /\ status'.state = "ready"
  BY <1>1, <1>3, <1>4, ShowSays
<1> DEFINE round == Missing(t, f)
<1>6. round \in SUBSET Namespaces /\ round # {}
  BY <1>1, <1>3, MissingShows
<1> HIDE DEF round
<1>7. /\ waiters' \in [Namespaces -> SUBSET Targets] /\ retries' \in [Targets -> Nat]
      /\ wanted' \subseteq Namespaces
      /\ parse' \in [marks : SUBSET Namespaces, wants : SUBSET Namespaces] /\ parse'.marks = wanted'
      /\ spent' \in [Targets -> 0..MaxAttempts]
      /\ (retries'[t] > 0 \/ \E n \in wanted' : t \in waiters'[n]) \/ spent'[t] = MaxAttempts
  <2>1. spent \in [Targets -> 0..MaxAttempts]
    BY <1>4 DEF FormTypes
  <2>2. CASE spent[t] < MaxAttempts
    <3>1. spent' = [spent EXCEPT ![t] = @ + 1] /\ RequestHydration(t, round)
      BY <1>1, <2>2 DEF round
    <3>2. spent[t] + 1 \in 0..MaxAttempts
      BY <1>3, <2>1, <2>2, FormBoundAssumption
    <3>3. spent' \in [Targets -> 0..MaxAttempts]
      BY <2>1, <3>1, <3>2
    <3>4. QED
      BY <1>3, <1>4, <1>6, <3>1, <3>3, RequestKeepsTrying
  <2>3. CASE ~(spent[t] < MaxAttempts)
    <3>1. UNCHANGED <<spent, waiters, retries, wanted, parse>>
      BY <1>1, <2>3
    <3>2. spent[t] = MaxAttempts
      BY <1>3, <2>1, <2>3, FormBoundAssumption
    <3>3. QED
      BY <1>4, <3>1, <3>2 DEF FormTypes
  <2>4. QED
    BY <2>2, <2>3
<1>8. left' \in [Targets -> 0..Undefined] /\ (spent'[t] = MaxAttempts => left'[t] = 0)
  <2>1. MaxAttempts - spent'[t] \in 0..Undefined /\ (spent'[t] = MaxAttempts => MaxAttempts - spent'[t] = 0)
    <3>1. spent'[t] \in 0..MaxAttempts
      BY <1>3, <1>7
    <3>2. QED
      BY <3>1, FormBoundAssumption DEF Undefined
  <2>2. left \in [Targets -> 0..Undefined]
    BY <1>4 DEF FormTypes
  <2>3. QED
    BY <1>1, <1>3, <2>1, <2>2
<1>9. FormTypes'
  BY <1>1, <1>2, <1>4, <1>5, <1>7, <1>8 DEF FormTypes
<1>10. AskedAgain'
  BY <1>1, <1>3, <1>7, <1>8 DEF AskedAgain
<1>11. QED
  BY <1>2, <1>5, <1>9, <1>10 DEF FormInv, KeepsTrying

\* The parse for hydration was of all that is wanted, so whoever waited for
\* any of it will ask again.
LEMMA HydrationParsedInv == ASSUME FormInv, NEW outcome, HydrationParsed(outcome) PROVE FormInv'
<1> DEFINE p == wanted \ parse.marks
           h == IF outcome = "failed" THEN hydrated ELSE hydrated \cup parse.marks
<1>0. /\ FormTypes /\ Tagged /\ InTurn /\ FilesOnTheWay /\ TargetOnTheWay /\ AnswersTheCurrent
      /\ PanelSays /\ KeepsTrying
  BY DEF FormInv
<1>1. /\ wanted' = p /\ hydrated' = h /\ Notify(p, h) /\ Reparse(p, h)
      /\ files' = (IF outcome = "loaded" THEN [files EXCEPT !.cur = @ \cup parse.wants] ELSE files)
      /\ unsent' = (unsent \/ outcome = "loaded")
      /\ listed' = (CASE outcome = "loaded" -> listed \/ files.ok
                      [] outcome = "fallback" -> listed /\ ~files.ok
                      [] OTHER -> listed)
      /\ UNCHANGED <<chosen, selects, asked, schemas, status, left, spent, inbox, outbox>>
      /\ UNCHANGED <<worker, docs, cache, builds>>
  BY DEF HydrationParsed, thread
<1>2. /\ files \in Files /\ unsent \in BOOLEAN /\ listed \in BOOLEAN
      /\ waiters \in [Namespaces -> SUBSET Targets] /\ retries \in [Targets -> Nat]
      /\ hydrated \subseteq Namespaces /\ wanted \subseteq Namespaces
      /\ parse \in [marks : SUBSET Namespaces, wants : SUBSET Namespaces] /\ parse.marks = wanted
  BY <1>0 DEF FormTypes
<1>3. p = {} /\ h \subseteq Namespaces
  BY <1>2
<1>4. /\ waiters' = [n \in Namespaces |-> {}]
      /\ retries' = [t \in Targets |->
           IF \E n \in Namespaces : t \in waiters[n] THEN retries[t] + 1 ELSE retries[t]]
  <2>1. {n \in Namespaces : n \in h \/ n \notin p} = Namespaces
    BY <1>3
  <2> HIDE DEF p, h
  <2>2. QED
    BY <1>1, <2>1 DEF Notify
<1>5. parse' \in [marks : SUBSET Namespaces, wants : SUBSET Namespaces] /\ parse'.marks = wanted'
  <2> HIDE DEF p, h
  <2>1. QED
    BY <1>1, <1>3, ReparseShows
<1> HIDE DEF p, h
<1>6. /\ waiters' \in [Namespaces -> SUBSET Targets] /\ retries' \in [Targets -> Nat]
      /\ \A t \in Targets : retries[t] > 0 \/ (\E n \in wanted : t \in waiters[n]) => retries'[t] > 0
  <2>1. \A t \in Targets : retries[t] \in Nat /\ retries[t] + 1 \in Nat
    BY <1>2
  <2>2. retries' \in [Targets -> Nat]
    BY <1>4, <2>1
  <2>3. \A t \in Targets : retries[t] > 0 \/ (\E n \in wanted : t \in waiters[n]) => retries'[t] > 0
    BY <1>2, <1>4, <2>1
  <2>4. QED
    BY <1>4, <2>2, <2>3
<1>7. files' \in Files /\ unsent' \in BOOLEAN /\ (~unsent' => ~unsent /\ files' = files)
  <2>1. CASE outcome = "loaded"
    <3>1. files' = [files EXCEPT !.cur = files.cur \cup parse.wants] /\ unsent'
      BY <1>1, <2>1
    <3>2. files.cur \cup parse.wants \in SUBSET Namespaces
      BY <1>2 DEF Files
    <3>3. files' \in Files
      BY <1>2, <3>1, <3>2 DEF Files
    <3>4. QED
      BY <1>1, <1>2, <3>1, <3>3
  <2>2. CASE outcome # "loaded"
    BY <1>1, <1>2, <2>2
  <2>3. QED
    BY <2>1, <2>2
<1>8. listed' \in BOOLEAN /\ (listed' /\ ~unsent' => listed)
  <2>1. CASE outcome = "loaded"
    BY <1>1, <1>2, <2>1 DEF Files
  <2>2. CASE outcome = "fallback"
    BY <1>1, <1>2, <2>2 DEF Files
  <2>3. CASE outcome \notin {"loaded", "fallback"}
    BY <1>1, <1>2, <2>3
  <2>4. QED
    BY <2>1, <2>2, <2>3
<1>9. FormTypes'
  BY <1>0, <1>1, <1>3, <1>5, <1>6, <1>7, <1>8 DEF FormTypes
<1>10. Tagged' /\ InTurn' /\ AnswersTheCurrent'
  <2>1. Tagged' /\ InTurn'
    BY <1>0, <1>1 DEF Tagged, InTurn
  <2>2. AnswersTheCurrent'
    BY <1>0, <1>1 DEF AnswersTheCurrent
  <2>3. QED
    BY <2>1, <2>2
<1>11. TargetOnTheWay' /\ FilesOnTheWay'
  <2>1. TargetOnTheWay'
    BY <1>0, <1>1 DEF TargetOnTheWay
  <2>2. FilesOnTheWay'
    BY <1>0, <1>1, <1>7 DEF FilesOnTheWay
  <2>3. QED
    BY <2>1, <2>2
<1>12. Pending' = Pending
  BY <1>1 DEF Pending
<1>13. PanelSays'
  BY <1>0, <1>1, <1>12 DEF PanelSays, Said
<1>14. KeepsTrying'
  <2>1. chosen \in Targets /\ AskedAgain => AskedAgain'
    BY <1>1, <1>6 DEF AskedAgain, Missing
  <2>2. chosen \in Targets \cup {None}
    BY <1>0 DEF FormTypes
  <2>3. QED
    BY <1>0, <1>1, <1>7, <1>8, <1>12, <2>1, <2>2 DEF KeepsTrying
<1>15. QED
  BY <1>9, <1>10, <1>11, <1>13, <1>14 DEF FormInv

-----------------------------------------------------------------------------
(* Every step of the form preview keeps the invariant. *)

LEMMA FormInit == PreviewInit => FormInv
<1> SUFFICES ASSUME PreviewInit PROVE FormInv
  OBVIOUS
<1>1. Start \in Files
  BY FormBoundAssumption DEF Start, Files
<1>2. Empty \in FormSlot /\ Empty.ver = -1
  BY DEF Empty, FormSlot
<1>3. worker \in FormWorker /\ worker.have = Start /\ worker.ver = 1 /\ worker.target = None
  BY <1>1 DEF PreviewInit, FormWorker
<1>4. FormTypes
  <2>1. /\ files \in Files /\ unsent \in BOOLEAN /\ chosen \in Targets \cup {None}
        /\ selects \in 0..MaxSelects /\ asked \in Nat
        /\ schemas \in [Targets -> Files \cup {None}] /\ status \in FormStatus
    <3>1. status \in FormStatus
      BY DEF PreviewInit, FormStatus
    <3>2. selects \in 0..MaxSelects
      BY FormBoundAssumption DEF PreviewInit
    <3>3. schemas \in [Targets -> Files \cup {None}]
      BY DEF PreviewInit
    <3>4. QED
      BY <1>1, <3>1, <3>2, <3>3 DEF PreviewInit
  <2>2. left \in [Targets -> 0..Undefined] /\ spent \in [Targets -> 0..MaxAttempts]
    BY FormBoundAssumption DEF PreviewInit, Undefined
  <2>3. /\ waiters \in [Namespaces -> SUBSET Targets] /\ retries \in [Targets -> Nat]
        /\ hydrated \subseteq Namespaces /\ wanted \subseteq Namespaces
        /\ parse \in [marks : SUBSET Namespaces, wants : SUBSET Namespaces] /\ parse.marks = wanted
        /\ listed \in BOOLEAN
    BY DEF PreviewInit, NoParse
  <2>4. inbox \in Seq(FormMessage) /\ outbox \in Seq(FormAnswer) /\ builds \subseteq FormBuild
    BY DEF PreviewInit
  <2>5. docs \in FormSlot /\ cache \in [Targets -> FormSlot]
    BY <1>2 DEF PreviewInit
  <2>6. QED
    BY <1>3, <2>1, <2>2, <2>3, <2>4, <2>5 DEF FormTypes
<1>5. Tagged
  BY <1>2, <1>3 DEF PreviewInit, Tagged
<1>6. InTurn /\ AnswersTheCurrent
  BY DEF PreviewInit, InTurn, AnswersTheCurrent
<1>7. FilesOnTheWay /\ TargetOnTheWay
  BY <1>3 DEF PreviewInit, FilesOnTheWay, TargetOnTheWay
<1>8. PanelSays /\ KeepsTrying
  BY DEF PreviewInit, PanelSays, KeepsTrying
<1>9. QED
  BY <1>4, <1>5, <1>6, <1>7, <1>8 DEF FormInv

LEMMA FormStep == FormInv /\ [PreviewNext]_preview => FormInv'
<1> SUFFICES ASSUME FormInv, [PreviewNext]_preview PROVE FormInv'
  OBVIOUS
<1>1. CASE Handle
  BY <1>1, HandleInv
<1>2. CASE \E j \in builds : Built(j)
  BY <1>2, FormBuiltInv
<1>3. CASE Commit
  BY <1>3, CommitInv
<1>4. CASE \E t \in Targets : Retry(t)
  BY <1>4, RetryInv
<1>5. CASE Drop
  BY <1>5, DropInv
<1>6. CASE Stale
  BY <1>6, StaleInv
<1>7. CASE Resolved
  BY <1>7, ResolvedInv
<1>8. CASE Unresolved
  BY <1>8, UnresolvedInv
<1>9. CASE \E outcome \in Outcomes : HydrationParsed(outcome)
  BY <1>9, HydrationParsedInv
<1>10. CASE \E ok \in BOOLEAN : Edit(ok)
  BY <1>10, EditInv
<1>11. CASE \E t \in Targets : Select(t)
  BY <1>11, SelectInv
<1>12. CASE UNCHANGED preview
  <2>1. /\ UNCHANGED <<files, unsent, chosen, selects, asked, schemas, status, left, spent,
                       waiters, retries, hydrated, wanted, parse, listed>>
        /\ UNCHANGED <<inbox, outbox, worker, docs, cache, builds>>
    BY <1>12 DEF preview, studio, thread
  <2>2. FormTypes' /\ Tagged' /\ InTurn'
    BY <2>1 DEF FormInv, FormTypes, Tagged, InTurn
  <2>3. FilesOnTheWay' /\ TargetOnTheWay' /\ AnswersTheCurrent'
    BY <2>1 DEF FormInv, FilesOnTheWay, TargetOnTheWay, AnswersTheCurrent
  <2>4. Pending' = Pending /\ Said' = Said /\ AskedAgain' = AskedAgain
    <3>1. Pending' = Pending
      BY <2>1 DEF Pending
    <3>2. Said' = Said
      BY <2>1 DEF Said
    <3>3. AskedAgain' = AskedAgain
      BY <2>1 DEF AskedAgain, Missing
    <3>4. QED
      BY <3>1, <3>2, <3>3
  <2>5. PanelSays' /\ KeepsTrying'
    BY <2>1, <2>4 DEF FormInv, PanelSays, KeepsTrying
  <2>6. QED
    BY <2>2, <2>3, <2>5 DEF FormInv
<1>13. QED
  BY <1>1, <1>2, <1>3, <1>4, <1>5, <1>6, <1>7, <1>8, <1>9, <1>10, <1>11, <1>12
     DEF PreviewNext, Machinery

LEMMA FormInvariant == PreviewSpec => []FormInv
BY FormInit, FormStep, PTL DEF PreviewSpec

\* The variables keep their types: whatever the queues hold, the worker's
\* builds are never of a version ahead of its files, and the counters of
\* attempts stay inside their bounds.
THEOREM FormTypeCorrect == PreviewSpec => []PreviewTypeOK
<1>1. FormInv => PreviewTypeOK
  <2> SUFFICES ASSUME FormInv PROVE PreviewTypeOK
    OBVIOUS
  <2>1. FormTypes /\ Tagged
    BY DEF FormInv
  <2>2. status.state \in {"waiting", "ready", "stale", "unavailable"} /\ status.of \in Targets \cup {None}
    BY <2>1 DEF FormTypes, FormStatus
  <2>3. /\ worker \in [have : Files, ver : Nat, target : Targets \cup {None}]
        /\ docs \in [ver : Int, of : Files \cup {None}]
        /\ cache \in [Targets -> [ver : Int, of : Files \cup {None}]]
    BY <2>1 DEF FormTypes, FormWorker, FormSlot
  <2>4. \A j \in builds : j.target \in Targets /\ j.ver <= worker.ver /\ j.text \in Files
    BY <2>1, FormRead DEF Tagged
  <2>5. \A m \in ToSet(inbox) : m.target \in Targets \cup {None} /\ m.files \in Files \cup {None}
    BY <2>1, FormRead DEF ToSet
  <2>6. \A m \in ToSet(outbox) : m.target \in Targets /\ m.of \in Files \cup {None}
    BY <2>1, FormRead DEF ToSet
  <2>7. /\ files \in Files /\ unsent \in BOOLEAN /\ chosen \in Targets \cup {None}
        /\ selects \in 0..MaxSelects /\ asked \in Nat
        /\ schemas \in [Targets -> Files \cup {None}]
        /\ left \in [Targets -> 0..Undefined] /\ spent \in [Targets -> 0..MaxAttempts]
        /\ waiters \in [Namespaces -> SUBSET Targets] /\ retries \in [Targets -> Nat]
        /\ hydrated \subseteq Namespaces /\ wanted \subseteq Namespaces
        /\ parse \in [marks : SUBSET Namespaces, wants : SUBSET Namespaces]
        /\ listed \in BOOLEAN
    BY <2>1 DEF FormTypes
  <2>8. QED
    BY <2>2, <2>3, <2>4, <2>5, <2>6, <2>7 DEF PreviewTypeOK
<1>2. QED
  BY <1>1, FormInvariant, PTL

\* A cached result that bears the version of the worker's files was made from
\* those files, although any number of builds of runPreview may have been
\* suspended, and overtaken by setFiles, when they were started.
THEOREM CachesKeepTheirVersion == PreviewSpec => []CacheIsOfItsVersion
<1>1. FormInv => CacheIsOfItsVersion
  BY DEF FormInv, Tagged, Good, CacheIsOfItsVersion
<1>2. QED
  BY <1>1, FormInvariant, PTL

\* The panel settles on the chosen target and on the files as they are: no
\* answer for an earlier selection, text or set of namespaces stays in it,
\* whatever order the answers came in (CodegenProvider drops the rest).
THEOREM PanelIsCurrent == PreviewSpec => []ShownIsCurrent
<1>1. FormInv => ShownIsCurrent
  <2> SUFFICES ASSUME FormInv, PreviewSettled, chosen # None
               PROVE  /\ status.of = chosen /\ status.state # "waiting"
                      /\ (status.state = "ready") = files.ok
                      /\ files.ok => schemas[chosen] = files
    BY DEF ShownIsCurrent
  <2>1. ~unsent /\ inbox = <<>> /\ outbox = <<>> /\ builds = {} /\ DOMAIN inbox = {} /\ DOMAIN outbox = {}
    BY DEF PreviewSettled
  <2>2. worker.have = files
    BY <2>1 DEF FormInv, FilesOnTheWay
  <2>3. ~Pending
    BY <2>1 DEF Pending
  <2>4. Said
    BY <2>3 DEF FormInv, PanelSays
  <2>5. files.ok \in BOOLEAN
    BY DEF FormInv, FormTypes, Files
  <2>6. status.of = chosen /\ status.state # "waiting" /\ (files.ok => schemas[chosen] = files)
    BY <2>2, <2>4 DEF Said
  <2>7. status.state = "ready" <=> files.ok
    BY <2>2, <2>4 DEF Said
  <2>8. (status.state = "ready") = files.ok
    BY <2>5, <2>7
  <2>9. QED
    BY <2>6, <2>8
<1>2. QED
  BY <1>1, FormInvariant, PTL

\* Nobody gives up early: a form that has settled with references missing has
\* spent its attempts, or the list of exports that says where to load them
\* from is gone.  No retry is lost between requestHydration and the parse.
THEOREM NoRetryIsLost == PreviewSpec => []GivesUpOnlyWhenSpent
<1>1. FormInv => GivesUpOnlyWhenSpent
  <2> SUFFICES ASSUME FormInv, PreviewSettled, chosen # None, status.state = "ready", listed
               PROVE  Missing(chosen, files) = {} \/ left[chosen] = 0
    BY DEF GivesUpOnlyWhenSpent
  <2>1. /\ ~unsent /\ inbox = <<>> /\ outbox = <<>> /\ builds = {} /\ DOMAIN inbox = {} /\ DOMAIN outbox = {}
        /\ parse = NoParse
    BY DEF PreviewSettled
  <2>2. worker.have = files /\ ~Pending
    BY <2>1 DEF FormInv, FilesOnTheWay, Pending
  <2>3. AskedAgain
    BY <2>1, <2>2 DEF FormInv, KeepsTrying
  <2>4. wanted = {} /\ chosen \in Targets
    BY <2>1 DEF FormInv, FormTypes, NoParse
  <2>5. ~(retries[chosen] > 0)
    BY <2>4 DEF PreviewSettled
  <2>6. QED
    BY <2>2, <2>3, <2>4, <2>5 DEF AskedAgain
<1>2. QED
  BY <1>1, FormInvariant, PTL
=============================================================================
