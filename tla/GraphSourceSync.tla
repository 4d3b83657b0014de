--------------------------- MODULE GraphSourceSync ---------------------------
(***************************************************************************)
(* The round trip between the visual editor and the source of one file.   *)
(* A graph edit is recorded as a patch and written into the file at once:  *)
(* elements with a patch are rendered anew, all others are sliced out of a *)
(* frozen baseline by the offsets of the last parse (useModelSourceSync,   *)
(* cst-reuse-renderer).  Every change of the file, by the graph or by the  *)
(* code pane, is parsed again after a pause (App.tsx), and loadModels      *)
(* rebuilds the graph from the result, replaying the patches the text does *)
(* not show yet (edit-reconcile).  Parses answer in any order; reference   *)
(* models, hydrations and links of documents load the graph as well.       *)
(*                                                                         *)
(* Data: an element shows the number of the edit it stems from, and        *)
(* whether its attributes are gone from it though no edit removed them.    *)
(***************************************************************************)
EXTENDS Integers, Sequences, FiniteSetsExt

CONSTANTS
  Count,          \* elements of the file, in file order
  Attributes,     \* how many attributes each element has after each edit
  Opaque,         \* elements whose patched value never equals its parsed one
  MaxEdits,       \* bound: edits of the user
  MaxBackground,  \* bound: reference models merged, hydrations, documents linked
  MaxMisparses    \* bound: parses that fail or come back without attributes

Elements == 1..Count
Broken == -1      \* a text the parser reports
Torn == -2        \* a slice taken at offsets of another text
ElementText == [edit : (0..MaxEdits) \cup {Broken, Torn}, bare : BOOLEAN]
Texts == [Elements -> ElementText]
Entire(v) == [edit |-> v, bare |-> FALSE]
NoText == <<>>

ASSUME GraphBoundAssumption ==
  MaxEdits \in Nat /\ MaxBackground \in Nat /\ MaxMisparses \in Nat
ASSUME AttributesAssumption == Attributes \in [Elements -> [0..MaxEdits -> Nat]]

VARIABLES
  file,        \* the live text
  timer,       \* the pause before the next parse runs
  token,       \* editParseTokenRef
  merges,      \* modelParseTokenRef
  jobs,        \* parses under way
  hydration,   \* the text the hydration under way parses, or NoText
  models,      \* the last parse the studio applied
  graph,       \* the nodes of the editor
  patches,     \* pendingEditPatches
  stamped,     \* the text the $cstRange offsets index
  baseline,    \* parseBaselineSourceRef
  edits, background, misparses,
  seen         \* history, for the properties only

text == <<file, timer, token, hydration>>
editor == <<graph, patches, stamped, baseline>>
roundTrip == <<text, merges, jobs, models, editor, edits, background, misparses, seen>>

First == [e \in Elements |-> Entire(0)]
RoundTripInit ==
  /\ file = First /\ timer = FALSE /\ token = 0 /\ hydration = NoText
  /\ merges = 0 /\ jobs = {} /\ models = [text |-> First, stripped |-> {}]
  /\ graph = First /\ patches = <<>> /\ stamped = First /\ baseline = First
  /\ edits = 0 /\ background = 0 /\ misparses = 0
  /\ seen = [typed |-> {}, drawn |-> {}, again |-> {}, stained |-> {}, stripped |-> {},
             misled |-> FALSE, excused |-> FALSE, refused |-> FALSE]

Ordinary(t) == \A e \in Elements : t[e].edit >= 0

\* nodeAttributeCount, of element e where it shows v.
Held(e, v) == IF v.bare \/ v.edit < 0 THEN 0 ELSE Attributes[e][v.edit]

-----------------------------------------------------------------------------
(* Changes of the file.                                                    *)

\* A new text is taken at once and parsed after a pause; it supersedes the
\* parse under way and restarts the hydration under way.
Save(t) ==
  /\ file' = t /\ timer' = TRUE /\ token' = token + 1
  /\ hydration' = IF hydration = NoText THEN NoText ELSE t

Type(e) ==
  /\ edits < MaxEdits /\ edits' = edits + 1
  /\ \E v \in {edits', Broken} : Save([file EXCEPT ![e] = Entire(v)])
  /\ seen' = [seen EXCEPT !.typed = @ \cup {e},
                          !.again = @ \cup ({e} \cap seen.drawn)]
  /\ UNCHANGED <<merges, jobs, models, editor, background, misparses>>

\* Offsets fit up to the first element where the baseline is another text.
Intact(e) == \A f \in 1..e : baseline[f] = stamped[f]
Dirty(edited) == {edited[i].el : i \in 1..Len(edited)}

\* A slip: slices are taken from the live text instead of the frozen baseline.
Rendered_SlicesLive(nodes, edited) ==
  [e \in Elements |-> IF \E f \in 1..e : file[f] # stamped[f] THEN Entire(Torn)
                      ELSE IF e \in Dirty(edited) THEN nodes[e] ELSE file[e]]

Rendered(nodes, edited) ==
  [e \in Elements |-> IF ~Intact(e) THEN Entire(Torn)
                      ELSE IF e \in Dirty(edited) THEN nodes[e] ELSE baseline[e]]

MutateGraph(e) ==
  /\ graph' = [graph EXCEPT ![e].edit = edits']
  /\ patches' = Append(patches, [el |-> e, value |-> edits', reach |-> Held(e, graph[e])])

WriteBack(t) == IF t = file THEN UNCHANGED text ELSE Save(t)

\* An edit in the graph or in a form, and the write-back its effect starts.
Draw(e) ==
  /\ edits < MaxEdits /\ edits' = edits + 1
  /\ MutateGraph(e) /\ WriteBack(Rendered(graph', patches'))
  /\ seen' = [seen EXCEPT !.drawn = @ \cup {e},
                          !.again = @ \cup ({e} \cap seen.drawn)]
  /\ UNCHANGED <<merges, jobs, models, stamped, baseline, background, misparses>>

-----------------------------------------------------------------------------
(* Loading a parse.                                                        *)

\* The nodes a parse comes with: of an element it has stripped, all but the
\* attributes.
Nodes(m) == [e \in Elements |-> IF e \in m.stripped THEN [m.text[e] EXCEPT !.bare = TRUE] ELSE m.text[e]]

\* Patches the nodes show already are dropped, the others are replayed in
\* their order.  If one of them reaches into attributes that the node lacks,
\* the replay as a whole may be given up.
Unsatisfied(p, t) == p.el \in Opaque \/ t[p.el].edit # p.value
Reconciled(t) ==
  [e \in Elements |->
     LET again == {i \in DOMAIN patches : patches[i].el = e /\ Unsatisfied(patches[i], t)}
     IN IF again = {} THEN t[e] ELSE [t[e] EXCEPT !.edit = patches[Max(again)].value]]
OutOfReach(t) ==
  \E i \in DOMAIN patches :
    Unsatisfied(patches[i], t) /\ patches[i].reach > Held(patches[i].el, t[patches[i].el])
Replays(t) == {Reconciled(t)} \cup (IF OutOfReach(t) THEN {t} ELSE {})

\* A parse is refused if the graph has three attributes or more and would keep
\* less than half of them, whether the parser lost them or the user deleted
\* them; a parse that lost fewer is taken.  What a torn element has is open.
Degraded(m) ==
  LET Total(t) == MapThenSumSet(LAMBDA e : Held(e, t[e]), Elements)
  IN Total(graph) >= 3 /\ 2 * Total(Nodes(m)) < Total(graph)
Refusals(m) ==
  IF \A e \in Elements : graph[e].edit # Torn /\ m.text[e].edit # Torn THEN {Degraded(m)} ELSE BOOLEAN

Witness(m, refused, excused) ==
  seen' = IF refused THEN [seen EXCEPT !.excused = excused, !.refused = TRUE]
          ELSE [typed |-> IF m.text = file THEN {} ELSE seen.typed, drawn |-> {},
                again |-> {}, stained |-> seen.again, stripped |-> m.stripped,
                misled |-> m.text # file, excused |-> excused, refused |-> FALSE]

\* The graph is rebuilt, with new offsets, and the live text becomes the
\* baseline.
Rebuild(m) ==
  /\ graph' \in Replays(Nodes(m)) /\ patches' = <<>>
  /\ stamped' = m.text /\ baseline' = file

LoadModels(m, excused) ==
  \E refused \in Refusals(m) :
    /\ IF refused THEN UNCHANGED editor ELSE Rebuild(m)
    /\ Witness(m, refused, excused)

\* A parse brings models, of which it may have lost the attributes of some
\* elements, or errors, or it fails.
ParseResults(t) ==
  LET bearing == {e \in Elements : Held(e, t[e]) > 0}
  IN (IF \E e \in Elements : t[e].edit = Broken THEN {}
      ELSE {[kind |-> "models", stripped |-> lost] : lost \in SUBSET bearing})
     \cup {[kind |-> k, stripped |-> {}] : k \in (IF Ordinary(t) THEN {} ELSE {"errors"}) \cup {"failed"}}

Faulty(r) == r.kind = "failed" \/ r.stripped # {}
Fault(r) == /\ Faulty(r) => misparses < MaxMisparses
            /\ misparses' = IF Faulty(r) THEN misparses + 1 ELSE misparses

\* A text with errors leaves models and graph as they are.
ApplyParseResult(t, r, late) ==
  IF r.kind = "models"
  THEN LET m == [text |-> t, stripped |-> r.stripped] IN models' = m /\ LoadModels(m, late)
  ELSE /\ UNCHANGED <<models, editor>>
       /\ seen' = [seen EXCEPT !.excused = @ \/ (r.kind = "failed" /\ models.text # file)]

-----------------------------------------------------------------------------
(* Parses.                                                                 *)

Parse ==
  /\ timer /\ timer' = FALSE
  /\ jobs' = jobs \cup {[kind |-> "edit", token |-> token, text |-> file]}
  /\ UNCHANGED <<file, token, merges, hydration, models, editor, edits, background, misparses, seen>>

\* A reference model is added: the workspace is parsed without a pause, under
\* a token that no edit supersedes.
MergeModels ==
  /\ background < MaxBackground /\ background' = background + 1
  /\ merges' = merges + 1
  /\ jobs' = jobs \cup {[kind |-> "merge", token |-> merges', text |-> file]}
  /\ UNCHANGED <<text, models, editor, edits, misparses, seen>>

\* A slip: the parse of an edit is taken although a newer edit is waiting.
Current_Overtaken(j) == TRUE

Current(j) == j.token = IF j.kind = "edit" THEN token ELSE merges

\* An overtaken parse changes nothing, however it ended.
Parsed(j) ==
  /\ j \in jobs /\ jobs' = jobs \ {j}
  /\ IF Current(j)
     THEN \E r \in ParseResults(j.text) :
            /\ Fault(r)
            /\ ApplyParseResult(j.text, r, j.kind = "merge" /\ j.text # file)
     ELSE UNCHANGED <<models, editor, misparses, seen>>
  /\ UNCHANGED <<text, merges, edits, background>>

Hydrate ==
  /\ background < MaxBackground /\ background' = background + 1
  /\ hydration = NoText /\ hydration' = file
  /\ UNCHANGED <<file, timer, token, merges, jobs, models, editor, edits, misparses, seen>>

Hydrated ==
  /\ hydration # NoText /\ hydration' = NoText
  /\ \E r \in ParseResults(hydration) : Fault(r) /\ ApplyParseResult(hydration, r, FALSE)
  /\ UNCHANGED <<file, timer, token, merges, jobs, edits, background>>

\* A linked document joins the graph: the models of the last parse load again.
Link ==
  /\ background < MaxBackground /\ background' = background + 1
  /\ LoadModels(models, seen.excused)
  /\ UNCHANGED <<text, merges, jobs, models, edits, misparses>>

RoundTripNext ==
  \/ \E e \in Elements : Type(e) \/ Draw(e)
  \/ Parse \/ MergeModels \/ Hydrate \/ Hydrated \/ Link
  \/ \E j \in jobs : Parsed(j)

RoundTripSpec == RoundTripInit /\ [][RoundTripNext]_roundTrip

-----------------------------------------------------------------------------
Jobs == [kind : {"edit", "merge"}, token : 0..(MaxEdits + MaxBackground), text : Texts]

RoundTripTypeOK ==
  /\ file \in Texts /\ timer \in BOOLEAN /\ token \in 0..MaxEdits
  /\ hydration = NoText \/ hydration \in Texts
  /\ merges \in 0..MaxBackground /\ jobs \subseteq Jobs
  /\ models.text \in Texts /\ models.stripped \subseteq Elements
  /\ graph \in Texts /\ stamped \in Texts /\ baseline \in Texts
  /\ \A i \in 1..Len(patches) :
       patches[i].el \in Elements /\ patches[i].value \in 1..MaxEdits /\ patches[i].reach \in Nat
  /\ edits \in 0..MaxEdits /\ background \in 0..MaxBackground /\ misparses \in 0..MaxMisparses

Settled == ~timer /\ jobs = {} /\ hydration = NoText

\* A graph edit writes the element it edits and touches no other element the
\* user has not typed into since the last load, as long as that load was of
\* the live text: between two loads every slice is right, however many edits,
\* refused parses and overtaken parses lie between.  (A load of another text
\* pairs the live text with offsets of the other one.)  The element keeps its
\* attributes, unless the load took a parse that had lost them.
GraphEditsStayLocal ==
  [][Len(patches') > Len(patches) /\ ~seen.misled =>
       LET e == patches'[Len(patches')].el
       IN /\ file'[e] = graph'[e]
          /\ file'[e].bare => file[e].bare \/ e \in seen.typed \cup seen.stripped
          /\ \A f \in Elements \ (seen.typed \cup {e}) : file'[f] = file[f]]_roundTrip

\* When nothing is under way, the studio works on the models of the text it
\* shows, unless that text has errors, its parse failed or a reference model's
\* parse of an older text came last.  And unless the graph refused them, it
\* shows these models, as the parser gave them, except for elements edited
\* again behind a graph edit before a parse came back.
SettledIsParsed ==
  Settled /\ Ordinary(file) /\ ~seen.excused =>
    /\ models.text = file
    /\ ~seen.refused => \A e \in Elements \ seen.stained : graph[e] = Nodes(models)[e]

\* What edit-reconcile.ts says of the replay: no patch brings back a value the
\* user changed later, so the graph shows the text once everything settled and
\* the last parse was sound and taken.
NothingResurrected ==
  Settled /\ Ordinary(file) /\ ~seen.excused /\ ~seen.refused /\ models.stripped = {} => graph = file
=============================================================================
