---------------------------- MODULE EditorProofs ----------------------------
(***************************************************************************)
(* Proofs about what the editor works on: the round trip between graph and *)
(* source (GraphSourceSync), for any file, edits, parses and faults, and   *)
(* the curated bundles of its workspaces (WorkspaceRecords), for any       *)
(* workspaces, bundles and restorations at once.                           *)
(***************************************************************************)
EXTENDS GraphSourceSync, WorkspaceRecords, SequenceTheorems, WellFoundedInduction, TLAPS

-----------------------------------------------------------------------------
(* The invariant of the round trip. *)

\* The texts there may be after n edits: no element shows a later one.
TextsUpTo(n) == [Elements -> [edit : (0..n) \cup {Broken, Torn}, bare : BOOLEAN]]
ModelsUpTo(n) == [text : TextsUpTo(n), stripped : SUBSET Elements]
Patch == [el : Elements, value : Nat, reach : Nat]
Job == [kind : {"edit", "merge"}, token : Nat, text : TextsUpTo(edits)]
Seen == [typed : SUBSET Elements, drawn : SUBSET Elements, again : SUBSET Elements,
         stained : SUBSET Elements, stripped : SUBSET Elements,
         misled : BOOLEAN, excused : BOOLEAN, refused : BOOLEAN]

TripTypes ==
  /\ file \in TextsUpTo(edits) /\ graph \in TextsUpTo(edits)
  /\ stamped \in TextsUpTo(edits) /\ baseline \in TextsUpTo(edits)
  /\ models \in ModelsUpTo(edits)
  /\ hydration \in {NoText, file} /\ timer \in BOOLEAN
  /\ patches \in Seq(Patch) /\ jobs \subseteq Job /\ seen \in Seen
  /\ edits \in 0..MaxEdits /\ token \in 0..edits
  /\ background \in 0..MaxBackground /\ merges \in 0..background
  /\ misparses \in 0..MaxMisparses
  /\ \A i \in DOMAIN patches : patches[i].value \in 1..edits
  /\ \A j \in jobs : j.token <= IF j.kind = "edit" THEN token ELSE merges

\* Between two parses every slice is right: the baseline is the text the
\* offsets index, and an element the user has not typed into shows its node if
\* it has a patch and its slice if it has none.
Local ==
  ~seen.misled =>
    /\ baseline = stamped
    /\ \A e \in Elements \ seen.typed :
         file[e] = IF e \in Dirty(patches) THEN graph[e] ELSE baseline[e]

\* The text is the one the models are of, or a parse of it is to come.
Parsing ==
  \/ timer
  \/ \E j \in jobs : j.kind = "edit" /\ j.token = token
  \/ hydration # NoText
OnItsWay == seen.excused \/ models.text = file \/ Parsing \/ ~Ordinary(file)
JobsAreOfTheFile == \A j \in jobs : j.kind = "edit" /\ j.token = token => j.text = file /\ ~timer

\* A patch is younger than the text the graph was loaded from.  On an element
\* edited but once since then it is the value of node and text, unless a slice
\* was torn.
PatchesAreNew ==
  /\ Dirty(patches) \subseteq seen.drawn
  /\ \A e \in Dirty(patches) : graph[e].edit > stamped[e].edit
  /\ \A i \in DOMAIN patches : patches[i].el \notin seen.again =>
       /\ graph[patches[i].el].edit = patches[i].value
       /\ file[patches[i].el].edit = patches[i].value \/ file[patches[i].el].edit < 0

\* What an element of the text is, since the models were loaded: its slice, or
\* torn, or younger.  Its node is the one the parse came with, unless it has
\* been edited.  Models the graph refused were not loaded: while they are the
\* last ones nothing of the kind is known.
SinceTheLoad ==
  ~seen.refused =>
    /\ stamped = models.text
    /\ \A e \in Elements :
         \/ file[e].edit < 0
         \/ file[e].edit > stamped[e].edit
         \/ e \notin Dirty(patches) /\ file[e] = baseline[e]
    /\ \A e \in Elements \ (seen.stained \cup Dirty(patches)) :
         baseline[e] = stamped[e] => graph[e] = Nodes(models)[e] \/ stamped[e].edit < 0

\* A node without attributes was loaded like that, from a text that has it like
\* that or from a parse that had lost them.
BareNodes == \A e \in Elements : graph[e].bare => stamped[e].bare \/ e \in seen.stripped

TripInv ==
  /\ TripTypes /\ Local /\ OnItsWay /\ JobsAreOfTheFile
  /\ PatchesAreNew /\ SinceTheLoad /\ BareNodes

-----------------------------------------------------------------------------
(* Texts, patches and their replay. *)

LEMMA LaterTexts ==
  ASSUME NEW n \in Nat, NEW m \in Nat, n <= m
  PROVE  TextsUpTo(n) \subseteq TextsUpTo(m)
<1>1. 0..n \subseteq 0..m
  OBVIOUS
<1>2. QED
  BY <1>1 DEF TextsUpTo

LEMMA Shown ==
  ASSUME NEW n \in Nat, NEW t \in TextsUpTo(n), NEW e \in Elements
  PROVE  t[e].edit \in Int /\ t[e].edit <= n /\ (t[e].edit < 0 <=> t[e].edit \in {Broken, Torn})
<1>1. t[e] \in [edit : (0..n) \cup {Broken, Torn}, bare : BOOLEAN]
  BY DEF TextsUpTo
<1>2. t[e].edit \in (0..n) \cup {-1, -2}
  BY <1>1 DEF Broken, Torn
<1>3. QED
  BY <1>2 DEF Broken, Torn

\* The nodes of a parse show the text, though some lack their attributes.
LEMMA NodesShow ==
  ASSUME NEW n \in Nat, NEW m \in ModelsUpTo(n)
  PROVE  /\ m.text \in TextsUpTo(n) /\ m.stripped \in SUBSET Elements
         /\ Nodes(m) \in TextsUpTo(n)
         /\ \A e \in Elements :
              /\ Nodes(m)[e].edit = m.text[e].edit
              /\ Nodes(m)[e].bare => m.text[e].bare \/ e \in m.stripped
<1>1. m.text \in TextsUpTo(n) /\ m.stripped \in SUBSET Elements
  BY DEF ModelsUpTo
<1>2. \A e \in Elements : m.text[e] \in [edit : (0..n) \cup {Broken, Torn}, bare : BOOLEAN]
  BY <1>1 DEF TextsUpTo
<1>3. ASSUME NEW e \in Elements
      PROVE  /\ Nodes(m)[e] \in [edit : (0..n) \cup {Broken, Torn}, bare : BOOLEAN]
             /\ Nodes(m)[e].edit = m.text[e].edit
             /\ Nodes(m)[e].bare => m.text[e].bare \/ e \in m.stripped
  <2>1. Nodes(m)[e] = IF e \in m.stripped THEN [m.text[e] EXCEPT !.bare = TRUE] ELSE m.text[e]
    BY DEF Nodes
  <2>2. QED
    BY <1>2, <2>1
<1>4. Nodes(m) \in TextsUpTo(n)
  <2> DEFINE N == Nodes(m)
  <2>1. N = [e \in Elements |-> N[e]]
    BY DEF Nodes
  <2>2. \A e \in Elements : N[e] \in [edit : (0..n) \cup {Broken, Torn}, bare : BOOLEAN]
    BY <1>3
  <2> HIDE DEF N
  <2>3. QED
    BY <2>1, <2>2 DEF TextsUpTo, N
<1>5. QED
  BY <1>1, <1>3, <1>4

\* A node has finitely many attributes.
LEMMA HeldIsNat ==
  ASSUME NEW n \in 0..MaxEdits, NEW t \in TextsUpTo(n), NEW e \in Elements
  PROVE  Held(e, t[e]) \in Nat
<1>1. t[e] \in [edit : (0..n) \cup {-1, -2}, bare : BOOLEAN]
  BY DEF TextsUpTo, Broken, Torn
<1>2. t[e].edit \in (0..n) \cup {-1, -2}
  BY <1>1
<1>3. ~(t[e].edit < 0) => t[e].edit \in 0..MaxEdits
  BY <1>2, GraphBoundAssumption
<1>4. ~(t[e].edit < 0) => Attributes[e][t[e].edit] \in Nat
  BY <1>3, AttributesAssumption
<1>5. QED
  BY <1>4 DEF Held

\* An element rendered anew is torn, or its node, or its slice.
LEMMA RenderedShows ==
  ASSUME NEW n \in Nat, NEW nodes \in TextsUpTo(n), NEW edited, baseline \in TextsUpTo(n)
  PROVE  /\ Rendered(nodes, edited) \in TextsUpTo(n)
         /\ \A e \in Elements :
              /\ ~Intact(e) => Rendered(nodes, edited)[e] = Entire(Torn)
              /\ Intact(e) /\ e \in Dirty(edited) => Rendered(nodes, edited)[e] = nodes[e]
              /\ Intact(e) /\ e \notin Dirty(edited) => Rendered(nodes, edited)[e] = baseline[e]
<1> DEFINE T == [edit : (0..n) \cup {Broken, Torn}, bare : BOOLEAN]
<1>1. Entire(Torn) \in T /\ \A e \in Elements : nodes[e] \in T /\ baseline[e] \in T
  BY DEF TextsUpTo, Entire
<1>2. TextsUpTo(n) = [Elements -> T]
  BY DEF TextsUpTo
<1> HIDE DEF T
<1>3. QED
  BY <1>1, <1>2 DEF Rendered

LEMMA Patched ==
  ASSUME NEW ps \in Seq(Patch), NEW p \in Patch
  PROVE  /\ Append(ps, p) \in Seq(Patch) /\ Len(Append(ps, p)) = Len(ps) + 1
         /\ Dirty(Append(ps, p)) = Dirty(ps) \cup {p.el}
         /\ DOMAIN Append(ps, p) = DOMAIN ps \cup {Len(ps) + 1}
         /\ \A i \in DOMAIN ps : Append(ps, p)[i] = ps[i] /\ ps[i] \in Patch
         /\ Append(ps, p)[Len(ps) + 1] = p
         /\ Len(ps) \in Nat /\ DOMAIN ps = 1..Len(ps)
<1>1. /\ Append(ps, p) \in Seq(Patch) /\ Len(Append(ps, p)) = Len(ps) + 1
      /\ DOMAIN Append(ps, p) = DOMAIN ps \cup {Len(ps) + 1}
      /\ \A i \in DOMAIN ps : Append(ps, p)[i] = ps[i] /\ ps[i] \in Patch
      /\ Append(ps, p)[Len(ps) + 1] = p
      /\ Len(ps) \in Nat /\ DOMAIN ps = 1..Len(ps)
  OBVIOUS
<1>2. Dirty(Append(ps, p)) = Dirty(ps) \cup {p.el}
  <2>1. Dirty(ps) = {ps[i].el : i \in DOMAIN ps}
    BY <1>1 DEF Dirty
  <2>2. Dirty(Append(ps, p)) = {Append(ps, p)[i].el : i \in DOMAIN Append(ps, p)}
    BY <1>1 DEF Dirty
  <2>3. QED
    BY <1>1, <2>1, <2>2
<1>3. QED
  BY <1>1, <1>2

LEMMA PatchedElements ==
  ASSUME TripTypes
  PROVE  \A i \in DOMAIN patches :
           patches[i] \in Patch /\ patches[i].el \in Elements /\ patches[i].el \in Dirty(patches)
<1>1. patches \in Seq(Patch) /\ DOMAIN patches = 1..Len(patches)
  BY DEF TripTypes
<1>2. \A i \in DOMAIN patches : patches[i] \in Patch
  BY <1>1
<1>3. \A i \in DOMAIN patches : patches[i].el \in Dirty(patches)
  BY <1>1 DEF Dirty
<1>4. QED
  BY <1>2, <1>3 DEF Patch

LEMMA NoPatches == Dirty(<<>>) = {} /\ <<>> \in Seq(Patch) /\ DOMAIN <<>> = {}
BY DEF Dirty

LEMMA HasMax ==
  ASSUME NEW n \in Nat, NEW S \in SUBSET (1..n), S # {}
  PROVE  Max(S) \in S
<1> DEFINE T == {n - i : i \in S}
<1>1. T \subseteq Nat /\ T # {}
  <2>1. \A i \in 1..n : n - i \in Nat
    OBVIOUS
  <2>2. QED
    BY <2>1
<1>2. PICK x \in T : \A y \in T : <<y, x>> \notin OpToRel(<, Nat)
  BY <1>1, NatLessThanWellFounded, WFMin
<1>3. PICK k \in S : x = n - k
  BY <1>2
<1>4. \A i \in S : k >= i
  <2>1. SUFFICES ASSUME NEW i \in S PROVE k >= i
    OBVIOUS
  <2>2. n - i \in T /\ n - i \in Nat /\ n - k \in Nat
    BY <1>3
  <2>3. ~(n - i < n - k)
    BY <1>2, <1>3, <2>2 DEF OpToRel
  <2>4. QED
    BY <2>2, <2>3
<1>5. QED
  BY <1>3, <1>4 DEF Max

\* An element of the replay shows the parse, or a patch the parse does not.  It
\* lacks its attributes only if the parse does.
LEMMA ReplayShows ==
  ASSUME TripTypes, NEW t \in TextsUpTo(edits), NEW g \in Replays(t)
  PROVE  /\ g \in TextsUpTo(edits)
         /\ \A e \in Elements :
              \/ g[e] = t[e]
              \/ \E i \in DOMAIN patches :
                   patches[i].el = e /\ g[e] = [t[e] EXCEPT !.edit = patches[i].value]
         /\ \A e \in Elements : g[e].bare = t[e].bare
<1> DEFINE T == [edit : (0..edits) \cup {Broken, Torn}, bare : BOOLEAN]
<1>1. patches \in Seq(Patch) /\ DOMAIN patches = 1..Len(patches) /\ Len(patches) \in Nat
  BY DEF TripTypes
<1>2. \A e \in Elements : t[e] \in T
  BY DEF TextsUpTo
<1>3. ASSUME NEW e \in Elements
      PROVE  \/ Reconciled(t)[e] = t[e]
             \/ \E i \in DOMAIN patches :
                  patches[i].el = e /\ Reconciled(t)[e] = [t[e] EXCEPT !.edit = patches[i].value]
  <2> DEFINE again == {i \in DOMAIN patches : patches[i].el = e /\ Unsatisfied(patches[i], t)}
  <2>1. Reconciled(t)[e] = IF again = {} THEN t[e] ELSE [t[e] EXCEPT !.edit = patches[Max(again)].value]
    BY DEF Reconciled
  <2>2. again \in SUBSET (1..Len(patches))
    BY <1>1
  <2>3. again # {} => Max(again) \in again
    <3> HIDE DEF again
    <3>1. QED
      BY <1>1, <2>2, HasMax
  <2>4. QED
    BY <2>1, <2>3
<1>4. g = t \/ g = Reconciled(t)
  BY DEF Replays
<1>5. ASSUME NEW e \in Elements
      PROVE  \/ g[e] = t[e]
             \/ \E i \in DOMAIN patches :
                  patches[i].el = e /\ g[e] = [t[e] EXCEPT !.edit = patches[i].value]
  BY <1>3, <1>4
<1>6. \A i \in DOMAIN patches : patches[i].value \in 0..edits
  BY DEF TripTypes
<1>7. ASSUME NEW e \in Elements PROVE g[e] \in T /\ g[e].bare = t[e].bare
  <2>1. ASSUME NEW v \in 0..edits
        PROVE  [t[e] EXCEPT !.edit = v] \in T /\ [t[e] EXCEPT !.edit = v].bare = t[e].bare
    BY <1>2
  <2> HIDE DEF T
  <2>2. CASE g[e] = t[e]
    BY <1>2, <2>2
  <2>3. ASSUME NEW i \in DOMAIN patches, g[e] = [t[e] EXCEPT !.edit = patches[i].value]
        PROVE  g[e] \in T /\ g[e].bare = t[e].bare
    <3> DEFINE v == patches[i].value
    <3>1. v \in 0..edits /\ g[e] = [t[e] EXCEPT !.edit = v]
      BY <1>6, <2>3
    <3> HIDE DEF v
    <3>2. QED
      BY <2>1, <3>1
  <2>4. QED
    BY <1>5, <2>2, <2>3
<1>8. g \in TextsUpTo(edits)
  <2>1. g = [e \in Elements |-> g[e]]
    BY <1>4 DEF Reconciled, TextsUpTo
  <2> HIDE DEF T
  <2>2. g \in [Elements -> T]
    BY <1>7, <2>1
  <2>3. QED
    BY <2>2 DEF TextsUpTo, T
<1>9. QED
  BY <1>5, <1>7, <1>8

-----------------------------------------------------------------------------
(* A parse comes back. *)

\* What the end of a parse does to the editor: it loads the models m, or it
\* leaves graph, patches and offsets as they are, and then either the models
\* too, or the graph has refused the new ones.
Loads(m, late) == models' = m /\ Rebuild(m) /\ Witness(m, FALSE, late)
Leaves ==
  /\ UNCHANGED editor
  /\ \/ models' = models /\ \E b \in BOOLEAN : seen' = [seen EXCEPT !.excused = b]
     \/ /\ models' \in ModelsUpTo(edits)
        /\ \E b \in BOOLEAN : seen' = [seen EXCEPT !.excused = b, !.refused = TRUE]

\* The graph takes models or refuses them.
LEMMA TakenOrRefused ==
  ASSUME TripTypes, NEW m \in ModelsUpTo(edits), NEW late \in BOOLEAN,
         models' = m, LoadModels(m, late)
  PROVE  Loads(m, late) \/ (Leaves /\ seen'.excused = late)
<1>1. PICK refused \in Refusals(m) :
        /\ IF refused THEN UNCHANGED editor ELSE Rebuild(m)
        /\ Witness(m, refused, late)
  BY DEF LoadModels
<1>2. refused \in BOOLEAN
  BY <1>1 DEF Refusals, Degraded
<1>3. CASE refused = TRUE
  <2>1. UNCHANGED editor /\ seen' = [seen EXCEPT !.excused = late, !.refused = TRUE]
    BY <1>1, <1>3 DEF Witness
  <2>2. seen'.excused = late
    BY <2>1 DEF TripTypes, Seen
  <2>3. QED
    BY <2>1, <2>2 DEF Leaves
<1>4. CASE refused = FALSE
  BY <1>1, <1>4 DEF Loads
<1>5. QED
  BY <1>2, <1>3, <1>4

\* Of whatever text it is, and however it ended.
LEMMA ParseEnds ==
  ASSUME TripTypes, NEW t \in TextsUpTo(edits), NEW late \in BOOLEAN, NEW r \in ParseResults(t),
         ApplyParseResult(t, r, late)
  PROVE  LET m == [text |-> t, stripped |-> r.stripped]
         IN /\ m \in ModelsUpTo(edits)
            /\ \/ Loads(m, late)
               \/ Leaves /\ models' = m /\ seen'.excused = late
               \/ /\ Leaves /\ models' = models
                  /\ r.kind = "failed" \/ (r.kind = "errors" /\ ~Ordinary(t))
                  /\ seen'.excused = (seen.excused \/ (r.kind = "failed" /\ models.text # file))
<1> DEFINE m == [text |-> t, stripped |-> r.stripped]
<1>0. /\ r.kind \in {"models", "errors", "failed"} /\ r.stripped \in SUBSET Elements
      /\ r.kind = "errors" => ~Ordinary(t)
  BY DEF ParseResults
<1>1. m \in ModelsUpTo(edits)
  BY <1>0 DEF ModelsUpTo
<1>2. CASE r.kind = "models"
  <2>1. models' = m /\ LoadModels(m, late)
    BY <1>2 DEF ApplyParseResult
  <2> HIDE DEF m
  <2>2. Loads(m, late) \/ (Leaves /\ seen'.excused = late)
    BY <1>1, <2>1, TakenOrRefused
  <2>3. QED
    BY <1>1, <2>1, <2>2 DEF m
<1>3. CASE r.kind \in {"errors", "failed"}
  <2> DEFINE b == seen.excused \/ (r.kind = "failed" /\ models.text # file)
  <2>1. UNCHANGED <<models, editor>> /\ seen' = [seen EXCEPT !.excused = b]
    BY <1>3 DEF ApplyParseResult
  <2>2. seen \in Seen /\ b \in BOOLEAN
    BY DEF TripTypes, Seen
  <2>3. seen'.excused = b
    BY <2>1, <2>2 DEF Seen
  <2>4. Leaves
    BY <2>1, <2>2 DEF Leaves
  <2>5. QED
    BY <1>0, <1>1, <1>3, <2>1, <2>3, <2>4
<1>4. QED
  BY <1>0, <1>2, <1>3

LEMMA LoadsReads ==
  ASSUME TripTypes, NEW m \in ModelsUpTo(edits), NEW late \in BOOLEAN, Loads(m, late)
  PROVE  /\ models' = m /\ graph' \in Replays(Nodes(m)) /\ patches' = <<>>
         /\ stamped' = m.text /\ baseline' = file /\ graph' \in TextsUpTo(edits)
         /\ seen'.typed = (IF m.text = file THEN {} ELSE seen.typed) /\ seen'.drawn = {}
         /\ seen'.again = {} /\ seen'.stained = seen.again /\ seen'.stripped = m.stripped
         /\ seen'.misled = (m.text # file) /\ seen'.excused = late /\ ~seen'.refused
         /\ seen' \in Seen /\ Dirty(patches') = {}
<1>1. /\ models' = m /\ graph' \in Replays(Nodes(m)) /\ patches' = <<>>
      /\ stamped' = m.text /\ baseline' = file
  BY DEF Loads, Rebuild
<1>2. seen' = [typed |-> IF m.text = file THEN {} ELSE seen.typed, drawn |-> {},
               again |-> {}, stained |-> seen.again, stripped |-> m.stripped,
               misled |-> m.text # file, excused |-> late, refused |-> FALSE]
  BY DEF Loads, Witness
<1>3. seen \in Seen /\ edits \in Nat
  BY GraphBoundAssumption DEF TripTypes
<1>4. m.stripped \in SUBSET Elements /\ Nodes(m) \in TextsUpTo(edits)
  BY <1>3, NodesShow
<1>5. seen' \in Seen
  BY <1>2, <1>3, <1>4 DEF Seen
<1>6. graph' \in TextsUpTo(edits)
  BY <1>1, <1>4, ReplayShows
<1>7. QED
  BY <1>1, <1>2, <1>5, <1>6, NoPatches

\* Loading makes the live text the baseline, without patches.
LEMMA LoadedInv ==
  ASSUME TripInv, NEW m \in ModelsUpTo(edits), NEW late \in BOOLEAN,
         Loads(m, late), UNCHANGED <<file, edits>>
  PROVE  Local' /\ PatchesAreNew' /\ SinceTheLoad' /\ BareNodes'
<1>0. TripTypes /\ PatchesAreNew /\ edits \in Nat
  BY GraphBoundAssumption DEF TripInv, TripTypes
<1>1. /\ models' = m /\ graph' \in Replays(Nodes(m)) /\ patches' = <<>>
      /\ stamped' = m.text /\ baseline' = file
      /\ seen'.typed = (IF m.text = file THEN {} ELSE seen.typed) /\ seen'.drawn = {}
      /\ seen'.again = {} /\ seen'.stained = seen.again /\ seen'.stripped = m.stripped
      /\ seen'.misled = (m.text # file) /\ Dirty(patches') = {}
  BY <1>0, LoadsReads
<1> DEFINE N == Nodes(m)
<1>2. /\ N \in TextsUpTo(edits)
      /\ \A e \in Elements : /\ N[e].edit = m.text[e].edit
                             /\ N[e].bare => m.text[e].bare \/ e \in m.stripped
  BY <1>0, NodesShow
<1>3. graph' \in Replays(N)
  BY <1>1
<1> HIDE DEF N
<1>4. /\ \A e \in Elements :
           \/ graph'[e] = N[e]
           \/ \E i \in DOMAIN patches :
                patches[i].el = e /\ graph'[e] = [N[e] EXCEPT !.edit = patches[i].value]
      /\ \A e \in Elements : graph'[e].bare = N[e].bare
  BY <1>0, <1>2, <1>3, ReplayShows
<1>5. Local'
  BY <1>1 DEF Local
<1>6. PatchesAreNew'
  BY <1>1, NoPatches DEF PatchesAreNew
<1>7. BareNodes'
  BY <1>1, <1>2, <1>4 DEF BareNodes
<1>8. ASSUME NEW e \in Elements \ seen.again, file[e] = m.text[e]
      PROVE  graph'[e] = N[e] \/ m.text[e].edit < 0
  <2>1. CASE graph'[e] = N[e]
    BY <2>1
  <2>2. CASE \E i \in DOMAIN patches :
               patches[i].el = e /\ graph'[e] = [N[e] EXCEPT !.edit = patches[i].value]
    <3>1. PICK i \in DOMAIN patches :
                 patches[i].el = e /\ graph'[e] = [N[e] EXCEPT !.edit = patches[i].value]
      BY <2>2
    <3>2. file[e].edit = patches[i].value \/ file[e].edit < 0
      BY <1>0, <1>8, <3>1 DEF PatchesAreNew
    <3>3. CASE file[e].edit = patches[i].value
      <4>1. N[e].edit = patches[i].value
        BY <1>2, <1>8, <3>3
      <4>2. N[e] \in [edit : (0..edits) \cup {Broken, Torn}, bare : BOOLEAN]
        BY <1>2 DEF TextsUpTo
      <4>3. [N[e] EXCEPT !.edit = N[e].edit] = N[e]
        BY <4>2
      <4>4. QED
        BY <3>1, <4>1, <4>3
    <3>4. QED
      BY <1>8, <3>2, <3>3
  <2>3. QED
    BY <1>4, <2>1, <2>2
<1>9. SinceTheLoad'
  <2>1. \A e \in Elements : file'[e] = baseline'[e] /\ e \notin Dirty(patches')
    BY <1>1
  <2>2. Nodes(models)' = N
    BY <1>1 DEF N, Nodes
  <2>3. \A e \in Elements \ (seen'.stained \cup Dirty(patches')) :
          baseline'[e] = stamped'[e] => graph'[e] = N[e] \/ stamped'[e].edit < 0
    BY <1>1, <1>8
  <2>4. QED
    BY <1>1, <2>1, <2>2, <2>3 DEF SinceTheLoad
<1>10. QED
  BY <1>5, <1>6, <1>7, <1>9

LEMMA LeftInv ==
  ASSUME TripInv, Leaves, UNCHANGED <<file, edits>>
  PROVE  Local' /\ PatchesAreNew' /\ SinceTheLoad' /\ BareNodes' /\ seen' \in Seen
<1>0. TripTypes /\ Local /\ PatchesAreNew /\ SinceTheLoad /\ BareNodes /\ seen \in Seen
  BY DEF TripInv, TripTypes
<1>1. PICK b \in BOOLEAN : \/ models' = models /\ seen' = [seen EXCEPT !.excused = b]
                           \/ seen' = [seen EXCEPT !.excused = b, !.refused = TRUE]
  BY DEF Leaves
<1>2. /\ seen'.typed = seen.typed /\ seen'.drawn = seen.drawn /\ seen'.again = seen.again
      /\ seen'.stained = seen.stained /\ seen'.stripped = seen.stripped
      /\ seen'.misled = seen.misled /\ seen' \in Seen
      /\ (models' = models /\ seen'.refused = seen.refused) \/ seen'.refused = TRUE
  BY <1>0, <1>1 DEF Seen
<1>3. UNCHANGED <<graph, patches, stamped, baseline>>
  BY DEF Leaves, editor
<1>4. Local' /\ PatchesAreNew' /\ BareNodes'
  BY <1>0, <1>2, <1>3 DEF Local, PatchesAreNew, BareNodes, Dirty
<1>5. CASE models' = models /\ seen'.refused = seen.refused
  <2>1. Dirty(patches') = Dirty(patches) /\ Nodes(models)' = Nodes(models)
    BY <1>3, <1>5 DEF Nodes
  <2>2. QED
    BY <1>0, <1>2, <1>3, <1>4, <1>5, <2>1 DEF SinceTheLoad
<1>6. CASE seen'.refused = TRUE
  BY <1>2, <1>4, <1>6 DEF SinceTheLoad
<1>7. QED
  BY <1>2, <1>5, <1>6

-----------------------------------------------------------------------------
(* The user's edits. *)

\* A changed text restarts the pause and supersedes every parse of an edit; an
\* unchanged one leaves the parses of the text as they were.
LEMMA TextMoves ==
  ASSUME TripTypes, OnItsWay, JobsAreOfTheFile, NEW t \in TextsUpTo(edits'), Save(t) \/ WriteBack(t),
         edits < MaxEdits, edits' = edits + 1, UNCHANGED <<merges, jobs, models, background, misparses>>,
         seen'.excused = seen.excused
  PROVE  /\ file' = t /\ hydration' \in {NoText, file'} /\ timer' \in BOOLEAN
         /\ edits' \in 0..MaxEdits /\ token' \in 0..edits' /\ jobs' \subseteq Job'
         /\ \A j \in jobs' : j.token <= IF j.kind = "edit" THEN token' ELSE merges'
         /\ OnItsWay' /\ JobsAreOfTheFile'
<1>1. edits \in Nat /\ edits' \in 0..MaxEdits /\ token \in 0..edits /\ jobs \subseteq Job
  BY GraphBoundAssumption DEF TripTypes
<1>2. jobs' \subseteq Job'
  <2>1. TextsUpTo(edits) \subseteq TextsUpTo(edits')
    BY <1>1, LaterTexts, GraphBoundAssumption
  <2>2. Job \subseteq Job'
    BY <2>1 DEF Job
  <2>3. QED
    BY <1>1, <2>2
<1>3. CASE Save(t)
  <2>1. /\ file' = t /\ timer' = TRUE /\ token' = token + 1
        /\ hydration' \in {NoText, t}
    BY <1>3 DEF Save
  <2>2. \A j \in jobs : j \in Job /\ j.token <= IF j.kind = "edit" THEN token ELSE merges
    BY <1>1 DEF TripTypes
  <2>3. \A j \in jobs : j.token \in Nat /\ (j.kind = "edit" => j.token # token') /\ merges' = merges
    BY <1>1, <2>1, <2>2 DEF Job
  <2>4. \A j \in jobs : j.token <= IF j.kind = "edit" THEN token' ELSE merges'
    BY <1>1, <2>1, <2>2, <2>3
  <2>5. OnItsWay'
    BY <2>1 DEF OnItsWay, Parsing
  <2>6. JobsAreOfTheFile'
    BY <2>3 DEF JobsAreOfTheFile
  <2>7. token' \in 0..edits'
    BY <1>1, <2>1
  <2>8. QED
    BY <1>1, <1>2, <2>1, <2>4, <2>5, <2>6, <2>7
<1>4. CASE t = file /\ UNCHANGED text
  <2>1. file' = t /\ UNCHANGED <<file, timer, token, hydration>>
    BY <1>4 DEF text
  <2>2. token' \in 0..edits'
    BY <1>1, <2>1
  <2>3. OnItsWay'
    BY <2>1 DEF OnItsWay, Parsing, Ordinary
  <2>4. JobsAreOfTheFile'
    BY <2>1 DEF JobsAreOfTheFile
  <2>5. QED
    BY <1>1, <1>2, <2>1, <2>2, <2>3, <2>4 DEF TripTypes
<1>5. QED
  BY <1>3, <1>4 DEF WriteBack

\* What there is of older texts.
LEMMA OlderTexts ==
  ASSUME TripTypes, edits < MaxEdits, edits' = edits + 1
  PROVE  /\ edits \in Nat /\ edits' \in Nat /\ edits' > 0
         /\ \A t \in TextsUpTo(edits) :
              t \in TextsUpTo(edits') /\ \A e \in Elements : t[e].edit \in Int /\ t[e].edit < edits'
         /\ \A i \in DOMAIN patches : patches[i].value \in 1..edits'
<1>1. edits \in Nat /\ edits' \in Nat /\ edits' > 0 /\ edits <= edits'
  BY GraphBoundAssumption DEF TripTypes
<1>2. \A t \in TextsUpTo(edits) : t \in TextsUpTo(edits')
  BY <1>1, LaterTexts
<1>3. \A t \in TextsUpTo(edits) : \A e \in Elements : t[e].edit \in Int /\ t[e].edit < edits'
  <2>1. SUFFICES ASSUME NEW t \in TextsUpTo(edits), NEW e \in Elements
                 PROVE  t[e].edit \in Int /\ t[e].edit < edits'
    OBVIOUS
  <2>2. t[e].edit \in Int /\ t[e].edit <= edits
    BY <1>1, <2>1, Shown
  <2>3. QED
    BY <1>1, <2>2
<1>4. \A i \in DOMAIN patches : patches[i].value \in 1..edits'
  <2>1. \A i \in DOMAIN patches : patches[i].value \in 1..edits
    BY DEF TripTypes
  <2>2. QED
    BY <1>1, <2>1
<1>5. QED
  BY <1>1, <1>2, <1>3, <1>4

LEMMA TypeInv == ASSUME TripInv, NEW e \in Elements, Type(e) PROVE TripInv'
<1>0. /\ TripTypes /\ Local /\ OnItsWay /\ JobsAreOfTheFile
      /\ PatchesAreNew /\ SinceTheLoad /\ BareNodes
  BY DEF TripInv
<1>1. /\ edits < MaxEdits /\ edits' = edits + 1
      /\ UNCHANGED <<merges, jobs, models, editor, background, misparses>>
  BY DEF Type
<1>2. PICK v \in {edits', Broken} : Save([file EXCEPT ![e] = Entire(v)])
  BY DEF Type
<1> DEFINE t == [file EXCEPT ![e] = Entire(v)]
<1>3. /\ edits \in Nat /\ edits' \in Nat /\ edits' > 0
      /\ \A s \in TextsUpTo(edits) :
           s \in TextsUpTo(edits') /\ \A f \in Elements : s[f].edit \in Int /\ s[f].edit < edits'
      /\ \A i \in DOMAIN patches : patches[i].value \in 1..edits'
  BY <1>0, <1>1, OlderTexts
<1>4. file \in TextsUpTo(edits') /\ seen \in Seen
  BY <1>0, <1>3 DEF TripTypes
<1>5. t \in TextsUpTo(edits') /\ t[e].edit = v /\ \A f \in Elements \ {e} : t[f] = file[f]
  <2>1. Entire(v) \in [edit : (0..edits') \cup {Broken, Torn}, bare : BOOLEAN] /\ Entire(v).edit = v
    BY <1>3 DEF Entire
  <2>2. QED
    BY <1>4, <2>1 DEF TextsUpTo
<1> HIDE DEF t
<1>6. seen' = [seen EXCEPT !.typed = @ \cup {e}, !.again = @ \cup ({e} \cap seen.drawn)]
  BY DEF Type
<1>7. /\ seen' \in Seen /\ seen'.typed = seen.typed \cup {e} /\ seen'.drawn = seen.drawn
      /\ seen'.again = seen.again \cup ({e} \cap seen.drawn) /\ seen'.stained = seen.stained
      /\ seen'.stripped = seen.stripped /\ seen'.misled = seen.misled
      /\ seen'.excused = seen.excused /\ seen'.refused = seen.refused
  BY <1>4, <1>6 DEF Seen
<1>8. /\ file' = t /\ hydration' \in {NoText, file'} /\ timer' \in BOOLEAN
      /\ edits' \in 0..MaxEdits /\ token' \in 0..edits' /\ jobs' \subseteq Job'
      /\ \A j \in jobs' : j.token <= IF j.kind = "edit" THEN token' ELSE merges'
      /\ OnItsWay' /\ JobsAreOfTheFile'
  <2>1. Save(t)
    BY <1>2 DEF t
  <2>2. QED
    BY <1>0, <1>1, <1>5, <1>7, <2>1, TextMoves
<1>9. UNCHANGED <<graph, patches, stamped, baseline, models>>
  BY <1>1 DEF editor
<1>10. models' \in ModelsUpTo(edits')
  BY <1>0, <1>3, <1>9 DEF TripTypes, ModelsUpTo
<1>11. TripTypes'
  BY <1>0, <1>1, <1>3, <1>5, <1>7, <1>8, <1>9, <1>10 DEF TripTypes
<1>12. Dirty(patches') = Dirty(patches)
  BY <1>9
<1>13. Local'
  BY <1>0, <1>5, <1>7, <1>8, <1>9, <1>12 DEF Local
<1>14. PatchesAreNew'
  <2>1. Dirty(patches') \subseteq seen'.drawn /\ \A f \in Dirty(patches') : graph'[f].edit > stamped'[f].edit
    BY <1>0, <1>7, <1>9, <1>12 DEF PatchesAreNew
  <2>2. ASSUME NEW i \in DOMAIN patches, patches[i].el \notin seen'.again
        PROVE  /\ graph[patches[i].el].edit = patches[i].value
               /\ file'[patches[i].el].edit = patches[i].value \/ file'[patches[i].el].edit < 0
    <3>1. patches[i].el \in Dirty(patches) /\ patches[i].el \in Elements
      BY <1>0, PatchedElements
    <3>2. patches[i].el \in seen.drawn /\ patches[i].el # e /\ patches[i].el \notin seen.again
      BY <1>0, <1>7, <2>2, <3>1 DEF PatchesAreNew
    <3>3. file'[patches[i].el] = file[patches[i].el]
      BY <1>5, <1>8, <3>1, <3>2
    <3>4. QED
      BY <1>0, <3>2, <3>3 DEF PatchesAreNew
  <2>3. QED
    BY <1>9, <2>1, <2>2 DEF PatchesAreNew
<1>15. SinceTheLoad'
  <2>1. SUFFICES ASSUME ~seen.refused PROVE SinceTheLoad'
    BY <1>7 DEF SinceTheLoad
  <2>2. ASSUME NEW f \in Elements
        PROVE  \/ file'[f].edit < 0
               \/ file'[f].edit > stamped[f].edit
               \/ f \notin Dirty(patches) /\ file'[f] = baseline[f]
    <3>1. CASE f = e
      <4>1. stamped[e].edit < edits' /\ stamped[e].edit \in Int
        BY <1>0, <1>3 DEF TripTypes
      <4>2. file'[e].edit = edits' \/ file'[e].edit = -1
        BY <1>5, <1>8 DEF Broken
      <4>3. QED
        BY <1>3, <3>1, <4>1, <4>2
    <3>2. CASE f # e
      BY <1>0, <1>5, <1>8, <2>1, <3>2 DEF SinceTheLoad
    <3>3. QED
      BY <3>1, <3>2
  <2>3. QED
    BY <1>0, <1>7, <1>9, <1>12, <2>1, <2>2 DEF SinceTheLoad
<1>16. BareNodes'
  BY <1>0, <1>7, <1>9 DEF BareNodes
<1>17. QED
  BY <1>8, <1>11, <1>13, <1>14, <1>15, <1>16 DEF TripInv

\* A graph edit changes its node, and no attributes go with it.
Drawn(g, e, v) == [g EXCEPT ![e].edit = v]

LEMMA DrawnNode ==
  ASSUME NEW n \in Nat, NEW g \in TextsUpTo(n), NEW e \in Elements, NEW v \in 0..n
  PROVE  /\ Drawn(g, e, v) \in TextsUpTo(n)
         /\ Drawn(g, e, v)[e].edit = v /\ Drawn(g, e, v)[e].bare = g[e].bare
         /\ \A f \in Elements \ {e} : Drawn(g, e, v)[f] = g[f]
<1> DEFINE T == [edit : (0..n) \cup {Broken, Torn}, bare : BOOLEAN]
           d == Drawn(g, e, v)
           w == [g[e] EXCEPT !.edit = v]
<1>1. g \in [Elements -> T] /\ g[e] \in T
  BY DEF TextsUpTo
<1>2. w \in T /\ w.edit = v /\ w.bare = g[e].bare
  BY <1>1
<1>3. d = [g EXCEPT ![e] = w]
  BY DEF Drawn
<1> HIDE DEF w, d, T
<1>4. d \in [Elements -> T] /\ d[e] = w /\ \A f \in Elements \ {e} : d[f] = g[f]
  BY <1>1, <1>2, <1>3
<1>5. QED
  BY <1>2, <1>4 DEF TextsUpTo, T, d

LEMMA DrawInv == ASSUME TripInv, NEW e \in Elements, Draw(e) PROVE TripInv'
<1>0. /\ TripTypes /\ Local /\ OnItsWay /\ JobsAreOfTheFile
      /\ PatchesAreNew /\ SinceTheLoad /\ BareNodes
  BY DEF TripInv
<1>1. /\ edits < MaxEdits /\ edits' = edits + 1
      /\ UNCHANGED <<merges, jobs, models, stamped, baseline, background, misparses>>
  BY DEF Draw
<1> DEFINE p == [el |-> e, value |-> edits', reach |-> Held(e, graph[e])]
           t == Rendered(graph', patches')
<1>2. graph' = [graph EXCEPT ![e].edit = edits'] /\ patches' = Append(patches, p) /\ WriteBack(t)
  BY DEF Draw, MutateGraph
<1>3. /\ edits \in Nat /\ edits' \in Nat /\ edits' > 0
      /\ \A s \in TextsUpTo(edits) :
           s \in TextsUpTo(edits') /\ \A f \in Elements : s[f].edit \in Int /\ s[f].edit < edits'
      /\ \A i \in DOMAIN patches : patches[i].value \in 1..edits'
  BY <1>0, <1>1, OlderTexts
<1>4. /\ graph \in TextsUpTo(edits') /\ baseline \in TextsUpTo(edits')
      /\ stamped \in TextsUpTo(edits') /\ seen \in Seen /\ patches \in Seq(Patch)
      /\ stamped[e].edit < edits' /\ stamped[e].edit \in Int
  BY <1>0, <1>3 DEF TripTypes
<1>5. /\ graph' \in TextsUpTo(edits') /\ graph'[e].edit = edits' /\ graph'[e].bare = graph[e].bare
      /\ \A f \in Elements \ {e} : graph'[f] = graph[f]
  <2>1. edits' \in Nat /\ edits' \in 0..edits'
    BY <1>3
  <2>2. graph' = Drawn(graph, e, edits')
    BY <1>2 DEF Drawn
  <2>3. QED
    BY <1>4, <2>1, <2>2, DrawnNode
<1>6. p \in Patch /\ p.el = e /\ p.value = edits'
  <2>1. Held(e, graph[e]) \in Nat
    BY <1>0, HeldIsNat DEF TripTypes
  <2>2. QED
    BY <1>3, <2>1 DEF Patch
<1> HIDE DEF p
<1> DEFINE n == Len(patches) + 1
<1>7. /\ patches' \in Seq(Patch) /\ Dirty(patches') = Dirty(patches) \cup {e}
      /\ DOMAIN patches' = DOMAIN patches \cup {n} /\ patches'[n] = p
      /\ \A i \in DOMAIN patches : patches'[i] = patches[i]
  BY <1>2, <1>4, <1>6, Patched
<1> HIDE DEF n
<1>8. /\ t \in TextsUpTo(edits')
      /\ \A f \in Elements :
           /\ ~Intact(f) => t[f] = Entire(Torn)
           /\ Intact(f) /\ f \in Dirty(patches') => t[f] = graph'[f]
           /\ Intact(f) /\ f \notin Dirty(patches') => t[f] = baseline[f]
  BY <1>3, <1>4, <1>5, RenderedShows
<1> HIDE DEF t
<1>9. seen' = [seen EXCEPT !.drawn = @ \cup {e}, !.again = @ \cup ({e} \cap seen.drawn)]
  BY DEF Draw
<1>10. /\ seen' \in Seen /\ seen'.typed = seen.typed /\ seen'.drawn = seen.drawn \cup {e}
       /\ seen'.again = seen.again \cup ({e} \cap seen.drawn) /\ seen'.stained = seen.stained
       /\ seen'.stripped = seen.stripped /\ seen'.misled = seen.misled
       /\ seen'.excused = seen.excused /\ seen'.refused = seen.refused
  BY <1>4, <1>9 DEF Seen
<1>11. /\ file' = t /\ hydration' \in {NoText, file'} /\ timer' \in BOOLEAN
       /\ edits' \in 0..MaxEdits /\ token' \in 0..edits' /\ jobs' \subseteq Job'
       /\ \A j \in jobs' : j.token <= IF j.kind = "edit" THEN token' ELSE merges'
       /\ OnItsWay' /\ JobsAreOfTheFile'
  BY <1>0, <1>1, <1>2, <1>8, <1>10, TextMoves
<1>12. models' \in ModelsUpTo(edits')
  BY <1>0, <1>1, <1>3 DEF TripTypes, ModelsUpTo
<1>13. \A i \in DOMAIN patches' : patches'[i].value \in 1..edits'
  BY <1>3, <1>6, <1>7
<1>14. TripTypes'
  BY <1>0, <1>1, <1>4, <1>5, <1>7, <1>8, <1>10, <1>11, <1>12, <1>13 DEF TripTypes
<1>15. Local'
  <2>1. SUFFICES ASSUME ~seen.misled PROVE Local'
    BY <1>10 DEF Local
  <2>2. baseline = stamped /\ \A f \in Elements : Intact(f)
    BY <1>0, <2>1 DEF Local, Intact
  <2>3. \A f \in Elements : file'[f] = IF f \in Dirty(patches') THEN graph'[f] ELSE baseline[f]
    BY <1>8, <1>11, <2>2
  <2>4. QED
    BY <1>1, <2>2, <2>3 DEF Local
<1>16. \A f \in Dirty(patches') : f \in Elements /\ graph'[f].edit > stamped[f].edit
  <2>1. \A f \in Dirty(patches) : f \in Elements
    BY <1>0, PatchedElements DEF Dirty, TripTypes
  <2>2. QED
    BY <1>0, <1>3, <1>4, <1>5, <1>7, <2>1 DEF PatchesAreNew
<1>17. PatchesAreNew'
  <2>1. Dirty(patches') \subseteq seen'.drawn
    BY <1>0, <1>7, <1>10 DEF PatchesAreNew
  <2>2. ASSUME NEW i \in DOMAIN patches, patches[i].el \notin seen'.again
        PROVE  /\ graph'[patches[i].el].edit = patches[i].value
               /\ file'[patches[i].el].edit = patches[i].value \/ file'[patches[i].el].edit < 0
    <3> DEFINE f == patches[i].el
    <3>1. f \in Dirty(patches) /\ f \in Elements
      BY <1>0, PatchedElements
    <3>2. f # e /\ f \notin seen.again
      BY <1>0, <1>10, <2>2, <3>1 DEF PatchesAreNew
    <3>3. graph[f].edit = patches[i].value
      BY <1>0, <3>2 DEF PatchesAreNew
    <3> HIDE DEF f
    <3>4. graph'[f] = graph[f] /\ f \in Dirty(patches')
      BY <1>5, <1>7, <3>1, <3>2
    <3>5. file'[f] = graph'[f] \/ file'[f].edit = -2
      BY <1>8, <1>11, <3>1, <3>4 DEF Entire, Torn
    <3>6. QED
      BY <3>3, <3>4, <3>5 DEF f
  <2>3. /\ graph'[patches'[n].el].edit = patches'[n].value
        /\ file'[patches'[n].el].edit = patches'[n].value \/ file'[patches'[n].el].edit < 0
    <3>1. file'[e] = graph'[e] \/ file'[e].edit = -2
      BY <1>7, <1>8, <1>11 DEF Entire, Torn
    <3>2. QED
      BY <1>5, <1>6, <1>7, <3>1
  <2>4. QED
    BY <1>1, <1>7, <1>16, <2>1, <2>2, <2>3 DEF PatchesAreNew
<1>18. SinceTheLoad'
  <2>1. SUFFICES ASSUME ~seen.refused PROVE SinceTheLoad'
    BY <1>10 DEF SinceTheLoad
  <2>2. ASSUME NEW f \in Elements
        PROVE  \/ file'[f].edit < 0
               \/ file'[f].edit > stamped[f].edit
               \/ f \notin Dirty(patches') /\ file'[f] = baseline[f]
    <3>1. CASE ~Intact(f)
      BY <1>8, <1>11, <3>1 DEF Entire, Torn
    <3>2. CASE Intact(f)
      BY <1>8, <1>11, <1>16, <3>2
    <3>3. QED
      BY <3>1, <3>2
  <2>3. \A f \in Elements \ (seen'.stained \cup Dirty(patches')) :
          baseline[f] = stamped[f] => graph'[f] = Nodes(models)[f] \/ stamped[f].edit < 0
    BY <1>0, <1>5, <1>7, <1>10, <2>1 DEF SinceTheLoad
  <2>4. stamped = models.text
    BY <1>0, <2>1 DEF SinceTheLoad
  <2>5. QED
    BY <1>1, <2>2, <2>3, <2>4 DEF SinceTheLoad
<1>19. BareNodes'
  BY <1>0, <1>1, <1>5, <1>10 DEF BareNodes
<1>20. QED
  BY <1>11, <1>14, <1>15, <1>17, <1>18, <1>19 DEF TripInv

-----------------------------------------------------------------------------
(* Parses start and end. *)

\* A step that leaves text, editor and models alone.
LEMMA StillInv ==
  ASSUME TripInv, UNCHANGED <<file, models, graph, patches, stamped, baseline, seen>>
  PROVE  Local' /\ PatchesAreNew' /\ SinceTheLoad' /\ BareNodes'
<1>1. Nodes(models)' = Nodes(models) /\ Dirty(patches') = Dirty(patches)
  BY DEF Nodes
<1>2. QED
  BY <1>1 DEF TripInv, Local, PatchesAreNew, SinceTheLoad, BareNodes

LEMMA EndInv ==
  ASSUME TripInv, UNCHANGED <<file, edits>>,
         Leaves \/ \E m \in ModelsUpTo(edits), late \in BOOLEAN : Loads(m, late)
  PROVE  /\ Local' /\ PatchesAreNew' /\ SinceTheLoad' /\ BareNodes'
         /\ graph' \in TextsUpTo(edits) /\ stamped' \in TextsUpTo(edits) /\ baseline' \in TextsUpTo(edits)
         /\ models' \in ModelsUpTo(edits)
         /\ patches' \in Seq(Patch) /\ (\A i \in DOMAIN patches' : patches'[i].value \in 1..edits)
         /\ seen' \in Seen
<1>0. TripTypes
  BY DEF TripInv
<1>1. CASE Leaves
  <2>1. Local' /\ PatchesAreNew' /\ SinceTheLoad' /\ BareNodes' /\ seen' \in Seen
    BY <1>1, LeftInv
  <2>2. UNCHANGED <<graph, patches, stamped, baseline>>
    BY <1>1 DEF Leaves, editor
  <2>3. models' \in ModelsUpTo(edits)
    BY <1>0, <1>1 DEF Leaves, TripTypes
  <2>4. QED
    BY <1>0, <2>1, <2>2, <2>3 DEF TripTypes
<1>2. ASSUME NEW m \in ModelsUpTo(edits), NEW late \in BOOLEAN, Loads(m, late)
      PROVE  /\ Local' /\ PatchesAreNew' /\ SinceTheLoad' /\ BareNodes'
             /\ graph' \in TextsUpTo(edits) /\ stamped' \in TextsUpTo(edits) /\ baseline' \in TextsUpTo(edits)
             /\ models' \in ModelsUpTo(edits)
             /\ patches' \in Seq(Patch) /\ (\A i \in DOMAIN patches' : patches'[i].value \in 1..edits)
             /\ seen' \in Seen
  <2>1. Local' /\ PatchesAreNew' /\ SinceTheLoad' /\ BareNodes'
    BY <1>2, LoadedInv
  <2>2. /\ models' = m /\ patches' = <<>> /\ stamped' = m.text /\ baseline' = file
        /\ graph' \in TextsUpTo(edits) /\ seen' \in Seen
    BY <1>0, <1>2, LoadsReads
  <2>3. m.text \in TextsUpTo(edits) /\ file \in TextsUpTo(edits)
    BY <1>0 DEF TripTypes, ModelsUpTo
  <2>4. QED
    BY <1>2, <2>1, <2>2, <2>3, NoPatches
<1>3. QED
  BY <1>1, <1>2

\* The parse of the live text, when it is the last one, takes the obligation
\* with it; any other parse leaves it where it is.
LEMMA ParsedInv == ASSUME TripInv, NEW j \in jobs, Parsed(j) PROVE TripInv'
<1>0. TripTypes /\ OnItsWay /\ JobsAreOfTheFile
  BY DEF TripInv
<1>1. jobs' = jobs \ {j} /\ UNCHANGED <<file, timer, token, hydration, merges, edits, background>>
  BY DEF Parsed, text
<1>2. /\ j \in Job /\ j.text \in TextsUpTo(edits) /\ file \in TextsUpTo(edits)
      /\ jobs' \subseteq Job' /\ edits' = edits
      /\ j.kind \in {"edit", "merge"}
  BY <1>0, <1>1 DEF TripTypes, Job
<1>3. CASE ~Current(j)
  <2>1. UNCHANGED <<models, graph, patches, stamped, baseline, misparses, seen>>
    BY <1>3 DEF Parsed, editor
  <2>2. ~(j.kind = "edit" /\ j.token = token)
    BY <1>3 DEF Current
  <2>3. TripTypes'
    BY <1>0, <1>1, <1>2, <2>1 DEF TripTypes
  <2>4. OnItsWay' /\ JobsAreOfTheFile'
    BY <1>0, <1>1, <2>1, <2>2 DEF OnItsWay, Parsing, JobsAreOfTheFile, Ordinary
  <2>5. Local' /\ PatchesAreNew' /\ SinceTheLoad' /\ BareNodes'
    BY <1>1, <2>1, StillInv
  <2>6. QED
    BY <2>3, <2>4, <2>5 DEF TripInv
<1>4. CASE Current(j)
  <2> DEFINE late == j.kind = "merge" /\ j.text # file
  <2>1. PICK r \in ParseResults(j.text) : Fault(r) /\ ApplyParseResult(j.text, r, late)
    BY <1>4 DEF Parsed
  <2>2. late \in BOOLEAN
    OBVIOUS
  <2>3. late \/ j.text = file
    BY <1>0, <1>2, <1>4 DEF Current, JobsAreOfTheFile
  <2> HIDE DEF late
  <2>4. misparses' \in 0..MaxMisparses
    BY <1>0, <2>1, GraphBoundAssumption DEF Fault, TripTypes
  <2> DEFINE m == [text |-> j.text, stripped |-> r.stripped]
  <2>5. /\ m \in ModelsUpTo(edits)
        /\ \/ Loads(m, late)
           \/ Leaves /\ models' = m /\ seen'.excused = late
           \/ /\ Leaves /\ models' = models
              /\ r.kind = "failed" \/ (r.kind = "errors" /\ ~Ordinary(j.text))
              /\ seen'.excused = (seen.excused \/ (r.kind = "failed" /\ models.text # file))
    BY <1>0, <1>2, <2>1, <2>2, ParseEnds
  <2>6. m.text = j.text
    OBVIOUS
  <2> HIDE DEF m
  <2>7. Leaves \/ \E n \in ModelsUpTo(edits), b \in BOOLEAN : Loads(n, b)
    BY <2>2, <2>5
  <2>8. /\ Local' /\ PatchesAreNew' /\ SinceTheLoad' /\ BareNodes'
        /\ graph' \in TextsUpTo(edits) /\ stamped' \in TextsUpTo(edits) /\ baseline' \in TextsUpTo(edits)
        /\ models' \in ModelsUpTo(edits)
        /\ patches' \in Seq(Patch) /\ (\A i \in DOMAIN patches' : patches'[i].value \in 1..edits)
        /\ seen' \in Seen
    BY <1>1, <2>7, EndInv
  <2>9. TripTypes'
    BY <1>0, <1>1, <1>2, <2>4, <2>8 DEF TripTypes
  <2>10. OnItsWay'
    <3>1. CASE Loads(m, late)
      <4>1. models'.text = j.text /\ seen'.excused = late
        BY <1>0, <2>2, <2>5, <2>6, <3>1, LoadsReads
      <4>2. QED
        BY <1>1, <2>3, <4>1 DEF OnItsWay
    <3>2. CASE models' = m /\ seen'.excused = late
      BY <1>1, <2>3, <2>6, <3>2 DEF OnItsWay
    <3>3. ASSUME models' = models, r.kind = "failed" \/ (r.kind = "errors" /\ ~Ordinary(j.text)),
                 seen'.excused = (seen.excused \/ (r.kind = "failed" /\ models.text # file))
          PROVE  OnItsWay'
      <4>1. CASE r.kind = "failed"
        BY <1>1, <3>3, <4>1 DEF OnItsWay
      <4>2. CASE r.kind # "failed" /\ j.text = file
        BY <1>1, <3>3, <4>2 DEF OnItsWay, Ordinary
      <4>3. CASE r.kind # "failed" /\ j.text # file
        <5>1. ~(j.kind = "edit" /\ j.token = token)
          BY <1>0, <4>3 DEF JobsAreOfTheFile
        <5>2. Parsing => Parsing'
          BY <1>1, <5>1 DEF Parsing
        <5>3. QED
          BY <1>0, <1>1, <3>3, <4>3, <5>2 DEF OnItsWay, Ordinary
      <4>4. QED
        BY <4>1, <4>2, <4>3
    <3>4. QED
      BY <2>5, <3>1, <3>2, <3>3
  <2>11. JobsAreOfTheFile'
    BY <1>0, <1>1 DEF JobsAreOfTheFile
  <2>12. QED
    BY <2>8, <2>9, <2>10, <2>11 DEF TripInv
<1>5. QED
  BY <1>3, <1>4

LEMMA HydratedInv == ASSUME TripInv, Hydrated PROVE TripInv'
<1>0. TripTypes /\ OnItsWay /\ JobsAreOfTheFile
  BY DEF TripInv
<1>1. /\ hydration # NoText /\ hydration' = NoText /\ hydration = file
      /\ UNCHANGED <<file, timer, token, merges, jobs, edits, background>>
  BY <1>0 DEF Hydrated, TripTypes
<1>2. file \in TextsUpTo(edits) /\ jobs' \subseteq Job' /\ FALSE \in BOOLEAN
  BY <1>0, <1>1 DEF TripTypes, Job
<1>3. PICK r \in ParseResults(file) : Fault(r) /\ ApplyParseResult(file, r, FALSE)
  BY <1>1 DEF Hydrated
<1>4. misparses' \in 0..MaxMisparses
  BY <1>0, <1>3, GraphBoundAssumption DEF Fault, TripTypes
<1> DEFINE m == [text |-> file, stripped |-> r.stripped]
<1>5. /\ m \in ModelsUpTo(edits)
      /\ \/ Loads(m, FALSE)
         \/ Leaves /\ models' = m /\ seen'.excused = FALSE
         \/ /\ Leaves /\ models' = models
            /\ r.kind = "failed" \/ (r.kind = "errors" /\ ~Ordinary(file))
            /\ seen'.excused = (seen.excused \/ (r.kind = "failed" /\ models.text # file))
  BY <1>0, <1>2, <1>3, ParseEnds
<1>6. m.text = file
  OBVIOUS
<1> HIDE DEF m
<1>7. Leaves \/ \E n \in ModelsUpTo(edits), b \in BOOLEAN : Loads(n, b)
  BY <1>2, <1>5
<1>8. /\ Local' /\ PatchesAreNew' /\ SinceTheLoad' /\ BareNodes'
      /\ graph' \in TextsUpTo(edits) /\ stamped' \in TextsUpTo(edits) /\ baseline' \in TextsUpTo(edits)
      /\ models' \in ModelsUpTo(edits)
      /\ patches' \in Seq(Patch) /\ (\A i \in DOMAIN patches' : patches'[i].value \in 1..edits)
      /\ seen' \in Seen
  BY <1>1, <1>7, EndInv
<1>9. TripTypes'
  BY <1>0, <1>1, <1>2, <1>4, <1>8 DEF TripTypes
<1>10. OnItsWay'
  <2>1. CASE Loads(m, FALSE)
    <3>1. models'.text = file
      BY <1>0, <1>2, <1>5, <1>6, <2>1, LoadsReads
    <3>2. QED
      BY <1>1, <3>1 DEF OnItsWay
  <2>2. CASE models' = m
    BY <1>1, <1>6, <2>2 DEF OnItsWay
  <2>3. ASSUME models' = models, r.kind = "failed" \/ (r.kind = "errors" /\ ~Ordinary(file)),
               seen'.excused = (seen.excused \/ (r.kind = "failed" /\ models.text # file))
        PROVE  OnItsWay'
    BY <1>1, <2>3 DEF OnItsWay, Ordinary
  <2>4. QED
    BY <1>5, <2>1, <2>2, <2>3
<1>11. JobsAreOfTheFile'
  BY <1>0, <1>1 DEF JobsAreOfTheFile
<1>12. QED
  BY <1>8, <1>9, <1>10, <1>11 DEF TripInv

LEMMA LinkInv == ASSUME TripInv, Link PROVE TripInv'
<1>0. TripTypes /\ OnItsWay /\ JobsAreOfTheFile
  BY DEF TripInv
<1>1. /\ background < MaxBackground /\ background' = background + 1
      /\ LoadModels(models, seen.excused)
      /\ UNCHANGED <<file, timer, token, hydration, merges, jobs, models, edits, misparses>>
  BY DEF Link, text
<1>2. /\ models \in ModelsUpTo(edits) /\ seen.excused \in BOOLEAN
      /\ jobs' \subseteq Job' /\ background' \in 0..MaxBackground /\ merges \in 0..background'
      /\ seen \in Seen
  BY <1>0, <1>1, GraphBoundAssumption DEF TripTypes, Job, Seen
<1>3. Loads(models, seen.excused) \/ (Leaves /\ seen'.excused = seen.excused)
  BY <1>0, <1>1, <1>2, TakenOrRefused
<1>4. seen'.excused = seen.excused
  BY <1>0, <1>2, <1>3, LoadsReads
<1>5. Leaves \/ \E n \in ModelsUpTo(edits), b \in BOOLEAN : Loads(n, b)
  BY <1>2, <1>3
<1>6. /\ Local' /\ PatchesAreNew' /\ SinceTheLoad' /\ BareNodes'
      /\ graph' \in TextsUpTo(edits) /\ stamped' \in TextsUpTo(edits) /\ baseline' \in TextsUpTo(edits)
      /\ models' \in ModelsUpTo(edits)
      /\ patches' \in Seq(Patch) /\ (\A i \in DOMAIN patches' : patches'[i].value \in 1..edits)
      /\ seen' \in Seen
  BY <1>1, <1>5, EndInv
<1>7. TripTypes'
  BY <1>0, <1>1, <1>2, <1>6 DEF TripTypes
<1>8. OnItsWay'
  BY <1>0, <1>1, <1>4 DEF OnItsWay, Parsing, Ordinary
<1>9. JobsAreOfTheFile'
  BY <1>0, <1>1 DEF JobsAreOfTheFile
<1>10. QED
  BY <1>6, <1>7, <1>8, <1>9 DEF TripInv

LEMMA ParseInv == ASSUME TripInv, Parse PROVE TripInv'
<1>0. TripTypes /\ OnItsWay /\ JobsAreOfTheFile
  BY DEF TripInv
<1> DEFINE j == [kind |-> "edit", token |-> token, text |-> file]
<1>1. /\ timer /\ timer' = FALSE /\ jobs' = jobs \cup {j}
      /\ UNCHANGED <<file, token, merges, hydration, models, graph, patches, stamped, baseline,
                     edits, background, misparses, seen>>
  BY DEF Parse, editor
<1>2. j \in Job /\ j.kind = "edit" /\ j.token = token /\ j.text = file
  BY <1>0 DEF TripTypes, Job
<1>3. jobs' \subseteq Job'
  BY <1>0, <1>1, <1>2 DEF TripTypes, Job
<1> HIDE DEF j
<1>4. \A k \in jobs' : k.token <= IF k.kind = "edit" THEN token' ELSE merges'
  <2>1. token <= token
    BY <1>0 DEF TripTypes
  <2>2. QED
    BY <1>0, <1>1, <1>2, <2>1 DEF TripTypes
<1>5. TripTypes'
  BY <1>0, <1>1, <1>3, <1>4 DEF TripTypes
<1>6. OnItsWay'
  BY <1>1, <1>2 DEF OnItsWay, Parsing
<1>7. JobsAreOfTheFile'
  BY <1>0, <1>1, <1>2 DEF JobsAreOfTheFile
<1>8. Local' /\ PatchesAreNew' /\ SinceTheLoad' /\ BareNodes'
  BY <1>1, StillInv
<1>9. QED
  BY <1>6, <1>7, <1>8, <1>5 DEF TripInv

LEMMA MergeInv == ASSUME TripInv, MergeModels PROVE TripInv'
<1>0. TripTypes /\ OnItsWay /\ JobsAreOfTheFile
  BY DEF TripInv
<1> DEFINE j == [kind |-> "merge", token |-> merges', text |-> file]
<1>1. /\ background < MaxBackground /\ background' = background + 1 /\ merges' = merges + 1
      /\ jobs' = jobs \cup {j}
      /\ UNCHANGED <<file, timer, token, hydration, models, graph, patches, stamped, baseline,
                     edits, misparses, seen>>
  BY DEF MergeModels, text, editor
<1>2. /\ background' \in 0..MaxBackground /\ merges' \in 0..background' /\ merges' \in Nat
      /\ merges \in Nat /\ merges < merges'
  BY <1>0, <1>1, GraphBoundAssumption DEF TripTypes
<1>3. j \in Job /\ j.kind = "merge" /\ j.token = merges'
  BY <1>0, <1>2 DEF TripTypes, Job
<1>4. jobs' \subseteq Job'
  BY <1>0, <1>1, <1>3 DEF TripTypes, Job
<1> HIDE DEF j
<1>5. \A k \in jobs' : k.token <= IF k.kind = "edit" THEN token' ELSE merges'
  <2>1. \A k \in jobs : k.token \in Nat
    BY <1>0 DEF TripTypes, Job
  <2>2. QED
    BY <1>0, <1>1, <1>2, <1>3, <2>1 DEF TripTypes
<1>6. TripTypes'
  BY <1>0, <1>1, <1>2, <1>4, <1>5 DEF TripTypes
<1>7. OnItsWay'
  BY <1>0, <1>1 DEF OnItsWay, Parsing, Ordinary
<1>8. JobsAreOfTheFile'
  BY <1>0, <1>1, <1>3 DEF JobsAreOfTheFile
<1>9. Local' /\ PatchesAreNew' /\ SinceTheLoad' /\ BareNodes'
  BY <1>1, StillInv
<1>10. QED
  BY <1>6, <1>7, <1>8, <1>9 DEF TripInv

LEMMA HydrateInv == ASSUME TripInv, Hydrate PROVE TripInv'
<1>0. TripTypes /\ OnItsWay /\ JobsAreOfTheFile
  BY DEF TripInv
<1>1. /\ background < MaxBackground /\ background' = background + 1
      /\ hydration = NoText /\ hydration' = file
      /\ UNCHANGED <<file, timer, token, merges, jobs, models, graph, patches, stamped, baseline,
                     edits, misparses, seen>>
  BY DEF Hydrate, editor
<1>2. background' \in 0..MaxBackground /\ merges' \in 0..background' /\ jobs' \subseteq Job'
  BY <1>0, <1>1, GraphBoundAssumption DEF TripTypes, Job
<1>3. TripTypes'
  BY <1>0, <1>1, <1>2 DEF TripTypes
<1>4. OnItsWay' /\ JobsAreOfTheFile'
  BY <1>0, <1>1 DEF OnItsWay, Parsing, Ordinary, JobsAreOfTheFile
<1>5. Local' /\ PatchesAreNew' /\ SinceTheLoad' /\ BareNodes'
  BY <1>1, StillInv
<1>6. QED
  BY <1>3, <1>4, <1>5 DEF TripInv

-----------------------------------------------------------------------------
(* The theorems. *)

LEMMA TripInvInit == RoundTripInit => TripInv
<1> SUFFICES ASSUME RoundTripInit PROVE TripInv
  OBVIOUS
<1>1. /\ file = First /\ timer = FALSE /\ token = 0 /\ hydration = NoText
      /\ merges = 0 /\ jobs = {} /\ models = [text |-> First, stripped |-> {}]
      /\ graph = First /\ patches = <<>> /\ stamped = First /\ baseline = First
      /\ edits = 0 /\ background = 0 /\ misparses = 0
      /\ seen = [typed |-> {}, drawn |-> {}, again |-> {}, stained |-> {}, stripped |-> {},
                 misled |-> FALSE, excused |-> FALSE, refused |-> FALSE]
  BY DEF RoundTripInit
<1>2. First \in TextsUpTo(0) /\ \A e \in Elements : ~First[e].bare
  BY DEF First, TextsUpTo, Entire
<1>3. seen \in Seen
  BY <1>1 DEF Seen
<1>4. models \in ModelsUpTo(edits) /\ Nodes(models) = First
  BY <1>1, <1>2 DEF ModelsUpTo, Nodes, First
<1>5. TripTypes
  <2>1. /\ file \in TextsUpTo(edits) /\ graph \in TextsUpTo(edits)
        /\ stamped \in TextsUpTo(edits) /\ baseline \in TextsUpTo(edits)
    BY <1>1, <1>2
  <2>2. edits \in 0..MaxEdits /\ background \in 0..MaxBackground /\ misparses \in 0..MaxMisparses
    BY <1>1, GraphBoundAssumption
  <2>3. token \in 0..edits /\ merges \in 0..background
    BY <1>1
  <2>4. patches \in Seq(Patch) /\ DOMAIN patches = {}
    BY <1>1, NoPatches
  <2>5. QED
    BY <1>1, <1>3, <1>4, <2>1, <2>2, <2>3, <2>4 DEF TripTypes
<1>6. Dirty(patches) = {} /\ DOMAIN patches = {}
  BY <1>1, NoPatches
<1>7. Local /\ OnItsWay /\ JobsAreOfTheFile /\ PatchesAreNew
  BY <1>1, <1>6 DEF Local, OnItsWay, JobsAreOfTheFile, PatchesAreNew
<1>8. SinceTheLoad
  BY <1>1, <1>4, <1>6 DEF SinceTheLoad
<1>9. BareNodes
  BY <1>1, <1>2 DEF BareNodes
<1>10. QED
  BY <1>5, <1>7, <1>8, <1>9 DEF TripInv

LEMMA TripInvNext == TripInv /\ [RoundTripNext]_roundTrip => TripInv'
<1> SUFFICES ASSUME TripInv, [RoundTripNext]_roundTrip PROVE TripInv'
  OBVIOUS
<1>1. ASSUME NEW e \in Elements, Type(e) PROVE TripInv'
  BY <1>1, TypeInv
<1>2. ASSUME NEW e \in Elements, Draw(e) PROVE TripInv'
  BY <1>2, DrawInv
<1>3. CASE Parse
  BY <1>3, ParseInv
<1>4. CASE MergeModels
  BY <1>4, MergeInv
<1>5. CASE Hydrate
  BY <1>5, HydrateInv
<1>6. CASE Hydrated
  BY <1>6, HydratedInv
<1>7. CASE Link
  BY <1>7, LinkInv
<1>8. ASSUME NEW j \in jobs, Parsed(j) PROVE TripInv'
  BY <1>8, ParsedInv
<1>9. CASE UNCHANGED roundTrip
  <2>1. UNCHANGED <<file, timer, token, hydration, merges, jobs, models, graph, patches, stamped,
                    baseline, edits, background, misparses, seen>>
    BY <1>9 DEF roundTrip, text, editor
  <2>2. TripTypes'
    BY <2>1 DEF TripInv, TripTypes, Job
  <2>3. OnItsWay' /\ JobsAreOfTheFile'
    BY <2>1 DEF TripInv, OnItsWay, Parsing, Ordinary, JobsAreOfTheFile
  <2>4. Local' /\ PatchesAreNew' /\ SinceTheLoad' /\ BareNodes'
    BY <2>1, StillInv
  <2>5. QED
    BY <2>2, <2>3, <2>4 DEF TripInv
<1>10. QED
  BY <1>1, <1>2, <1>3, <1>4, <1>5, <1>6, <1>7, <1>8, <1>9 DEF RoundTripNext

LEMMA RoundTripHolds == RoundTripSpec => []TripInv
BY TripInvInit, TripInvNext, PTL DEF RoundTripSpec

LEMMA TypesFromInv == TripTypes => RoundTripTypeOK
<1> SUFFICES ASSUME TripTypes PROVE RoundTripTypeOK
  OBVIOUS
<1>1. edits \in Nat /\ edits <= MaxEdits /\ background \in Nat /\ background <= MaxBackground
  BY GraphBoundAssumption DEF TripTypes
<1>2. 0..edits \subseteq 0..MaxEdits
  BY <1>1, GraphBoundAssumption
<1>3. TextsUpTo(edits) \subseteq Texts
  BY <1>2 DEF TextsUpTo, Texts, ElementText
<1>4. merges \in 0..MaxBackground /\ token \in 0..MaxEdits
  BY <1>1, GraphBoundAssumption DEF TripTypes
<1>5. ASSUME NEW j \in jobs PROVE j \in Jobs
  <2>1. j \in Job /\ j.token \in Nat /\ j.kind \in {"edit", "merge"} /\ j.text \in TextsUpTo(edits)
    BY DEF TripTypes, Job
  <2>2. j.token <= token \/ j.token <= merges
    BY DEF TripTypes
  <2>3. j.token \in 0..(MaxEdits + MaxBackground)
    BY <1>4, <2>1, <2>2, GraphBoundAssumption
  <2>4. QED
    BY <1>3, <2>1, <2>3 DEF Job, Jobs
<1>6. \A i \in 1..Len(patches) :
        patches[i].el \in Elements /\ patches[i].value \in 1..MaxEdits /\ patches[i].reach \in Nat
  <2>1. patches \in Seq(Patch) /\ DOMAIN patches = 1..Len(patches)
    BY DEF TripTypes
  <2>2. 1..edits \subseteq 1..MaxEdits
    BY <1>1, GraphBoundAssumption
  <2>3. QED
    BY <2>1, <2>2, PatchedElements DEF TripTypes, Patch
<1>7. /\ models.text \in Texts /\ models.stripped \subseteq Elements
      /\ hydration = NoText \/ hydration \in Texts
  BY <1>3 DEF TripTypes, ModelsUpTo
<1>8. QED
  BY <1>3, <1>4, <1>5, <1>6, <1>7 DEF TripTypes, RoundTripTypeOK

\* The round trip keeps its types: the models, the graph, the offsets and the
\* parses under way are always of texts the file has had, and no parse carries
\* a token that was not given out.
THEOREM RoundTripTypeCorrect == RoundTripSpec => []RoundTripTypeOK
<1>1. TripInv => RoundTripTypeOK
  BY TypesFromInv DEF TripInv
<1>2. QED
  BY <1>1, RoundTripHolds, PTL

\* Any number of elements, attributes, edits, parses and hydrations, in any
\* order: when nothing is under way the studio works on the models of the text
\* it shows, unless that text has errors, its parse failed or a reference
\* model's parse of an older text came last.  And unless isDegradedReparse
\* refused the last models, rightly or not, the graph shows them as the parser
\* gave them; elements edited again behind a graph edit before a parse came
\* back are excepted.
THEOREM SettledIsParsedAlways == RoundTripSpec => []SettledIsParsed
<1>1. TripInv => SettledIsParsed
  <2>1. SUFFICES ASSUME TripInv, Settled, Ordinary(file), ~seen.excused
        PROVE  /\ models.text = file
               /\ ~seen.refused => \A e \in Elements \ seen.stained : graph[e] = Nodes(models)[e]
    BY DEF SettledIsParsed
  <2>2. models.text = file
    BY <2>1 DEF TripInv, OnItsWay, Parsing, Settled
  <2>3. ASSUME ~seen.refused, NEW e \in Elements \ seen.stained PROVE graph[e] = Nodes(models)[e]
    <3>1. edits \in Nat /\ file \in TextsUpTo(edits)
      BY <2>1, GraphBoundAssumption DEF TripInv, TripTypes
    <3>2. file[e].edit \in Int /\ file[e].edit >= 0
      BY <2>1, <3>1, Shown DEF Ordinary
    <3>3. stamped = file
      BY <2>1, <2>2, <2>3 DEF TripInv, SinceTheLoad
    <3>4. e \notin Dirty(patches) /\ file[e] = baseline[e]
      BY <2>1, <2>3, <3>2, <3>3 DEF TripInv, SinceTheLoad
    <3>5. graph[e] = Nodes(models)[e] \/ stamped[e].edit < 0
      BY <2>1, <2>3, <3>3, <3>4 DEF TripInv, SinceTheLoad
    <3>6. QED
      BY <3>2, <3>3, <3>5
  <2>4. QED
    BY <2>2, <2>3
<1>2. QED
  BY <1>1, RoundTripHolds, PTL

\* Only an edit of the graph records a patch.
LEMMA OnlyDrawingPatches ==
  ASSUME TripInv, [RoundTripNext]_roundTrip, Len(patches') > Len(patches)
  PROVE  \E e \in Elements : Draw(e)
<1>0. Len(patches) \in Nat
  BY DEF TripInv, TripTypes
<1>1. patches' # patches /\ patches' # <<>>
  BY <1>0
<1>2. ASSUME NEW m, NEW late, LoadModels(m, late) PROVE FALSE
  BY <1>1, <1>2 DEF LoadModels, Rebuild, editor
<1>3. ASSUME NEW t, NEW r, NEW late, ApplyParseResult(t, r, late) PROVE FALSE
  BY <1>1, <1>2, <1>3 DEF ApplyParseResult, editor
<1>4. ~(\E j \in jobs : Parsed(j)) /\ ~Hydrated /\ ~Link
  BY <1>1, <1>2, <1>3 DEF Parsed, Hydrated, Link, editor
<1>5. ~Parse /\ ~MergeModels /\ ~Hydrate /\ ~UNCHANGED roundTrip
  BY <1>1 DEF Parse, MergeModels, Hydrate, editor, roundTrip
<1>6. ~\E e \in Elements : Type(e)
  BY <1>1 DEF Type, editor
<1>7. QED
  BY <1>4, <1>5, <1>6 DEF RoundTripNext

\* Rendering is local: a graph edit writes the element it edits, and every
\* element the user has not typed into since the last load keeps its text,
\* however many edits, refused parses and overtaken parses lie in between.  And
\* it keeps the attributes of its element, unless isDegradedReparse let a parse
\* through that had lost them.
THEOREM GraphEditsStayLocalAlways == RoundTripSpec => GraphEditsStayLocal
<1>1. ASSUME TripInv, [RoundTripNext]_roundTrip, Len(patches') > Len(patches), ~seen.misled
      PROVE  LET e == patches'[Len(patches')].el
             IN /\ file'[e] = graph'[e]
                /\ file'[e].bare => file[e].bare \/ e \in seen.typed \cup seen.stripped
                /\ \A f \in Elements \ (seen.typed \cup {e}) : file'[f] = file[f]
  <2>1. PICK e \in Elements : Draw(e)
    BY <1>1, OnlyDrawingPatches
  <2> DEFINE p == [el |-> e, value |-> edits', reach |-> Held(e, graph[e])]
             t == Rendered(graph', patches')
  <2>2. /\ graph' = [graph EXCEPT ![e].edit = edits'] /\ patches' = Append(patches, p) /\ WriteBack(t)
        /\ UNCHANGED baseline /\ edits < MaxEdits /\ edits' = edits + 1
    BY <2>1 DEF Draw, MutateGraph
  <2>3. TripInv' /\ TripTypes /\ Local /\ BareNodes
    BY <1>1, <2>1, DrawInv DEF TripInv
  <2>4. p \in Patch /\ p.el = e
    <3>1. Held(e, graph[e]) \in Nat /\ edits' \in Nat
      BY <2>3, HeldIsNat, GraphBoundAssumption DEF TripInv, TripTypes
    <3>2. QED
      BY <3>1 DEF Patch
  <2> HIDE DEF p
  <2>5. /\ Dirty(patches') = Dirty(patches) \cup {e} /\ patches'[Len(patches')].el = e
    BY <2>2, <2>3, <2>4, Patched DEF TripTypes
  <2>6. /\ edits' \in Nat /\ graph' \in TextsUpTo(edits') /\ baseline \in TextsUpTo(edits')
    BY <2>2, <2>3, GraphBoundAssumption DEF TripInv, TripTypes
  <2>7. baseline = stamped /\ \A f \in Elements : Intact(f)
    BY <1>1, <2>3 DEF Local, Intact
  <2>8. \A f \in Elements : t[f] = IF f \in Dirty(patches') THEN graph'[f] ELSE baseline[f]
    BY <2>6, <2>7, RenderedShows
  <2> HIDE DEF t
  <2>9. file' = t
    BY <2>2 DEF WriteBack, Save, text
  <2>10. graph'[e].bare = graph[e].bare /\ \A f \in Elements \ {e} : graph'[f] = graph[f]
    <3>1. graph \in TextsUpTo(edits') /\ edits' \in Nat /\ edits' \in 0..edits'
      BY <2>2, <2>3, <2>6, OlderTexts DEF TripTypes
    <3>2. graph' = Drawn(graph, e, edits')
      BY <2>2 DEF Drawn
    <3>3. QED
      BY <3>1, <3>2, DrawnNode
  <2>11. file'[e] = graph'[e]
    BY <2>5, <2>8, <2>9
  <2>12. file'[e].bare => file[e].bare \/ e \in seen.typed \cup seen.stripped
    <3>1. SUFFICES ASSUME graph[e].bare, e \notin seen.typed, e \notin seen.stripped PROVE file[e].bare
      BY <2>10, <2>11
    <3>2. baseline[e].bare
      BY <2>3, <2>7, <3>1 DEF BareNodes
    <3>3. file[e] = graph[e] \/ file[e] = baseline[e]
      BY <1>1, <2>3, <3>1 DEF Local
    <3>4. QED
      BY <3>1, <3>2, <3>3
  <2>13. \A f \in Elements \ (seen.typed \cup {e}) : file'[f] = file[f]
    BY <1>1, <2>3, <2>5, <2>8, <2>9, <2>10 DEF Local
  <2>14. QED
    BY <2>5, <2>11, <2>12, <2>13
<1>2. TripInv /\ [RoundTripNext]_roundTrip =>
        [Len(patches') > Len(patches) /\ ~seen.misled =>
           LET e == patches'[Len(patches')].el
           IN /\ file'[e] = graph'[e]
              /\ file'[e].bare => file[e].bare \/ e \in seen.typed \cup seen.stripped
              /\ \A f \in Elements \ (seen.typed \cup {e}) : file'[f] = file[f]]_roundTrip
  BY <1>1
<1>3. QED
  BY <1>2, RoundTripHolds, PTL DEF RoundTripSpec, GraphEditsStayLocal

-----------------------------------------------------------------------------
(* The invariant of the records. *)

\* Nothing is restored: the open workspace is settled, and the store, its
\* record and the copy of the record agree on its bundles.
Steady ==
  Usable /\ open # NoWorkspace /\ open \notin mixed =>
    gate = open /\ loaded = records[open] /\ bound = records[open]

\* A workspace that is not mixed up is restored alone, from its record.
Alone ==
  \A r \in restores :
    /\ r.of \in Range(recents)
    /\ r.of \notin mixed => restores = {r} /\ r.declared = records[r.of]

\* While its files come, the store of a workspace opened again is its own.
Reopening ==
  \A r \in restores :
    r.at = "files" /\ r.of \notin mixed /\ r.from = r.of => loaded \subseteq r.declared

\* While it is parsed, the store holds nothing it will not bind.
Opening ==
  \A r \in restores : r.at = "parse" =>
    /\ open \in {NoWorkspace, r.of} \cup mixed
    /\ open = r.of /\ open \notin mixed =>
         /\ bound = r.declared
         /\ loaded \subseteq r.declared \cup (IF r.from = NoWorkspace THEN fresh ELSE {})
         /\ r.from = NoWorkspace => fresh \subseteq loaded

\* What was loaded with no workspace open stays in the store until one is.
FreshIsLoaded ==
  /\ fresh \subseteq loaded \/ \E r \in restores : r.at = "parse"
  /\ Usable /\ open # NoWorkspace => fresh = {}

RecordTypes ==
  /\ RecordsTypeOK /\ recents \in Seq(WorkspaceIds)
  /\ open # NoWorkspace => open \in Range(recents)

RecordsInv ==
  RecordTypes /\ BindingsAreOwn /\ Steady /\ Alone /\ Reopening /\ Opening /\ FreshIsLoaded

-----------------------------------------------------------------------------
(* The list of saved workspaces. *)

LEMMA WithoutShows ==
  ASSUME recents \in Seq(WorkspaceIds), IsInjective(recents), NEW w \in Range(recents)
  PROVE  /\ Without(w) \in Seq(WorkspaceIds) /\ Range(Without(w)) = Range(recents) \ {w}
         /\ IsInjective(Without(w))
<1> DEFINE k == CHOOSE i \in DOMAIN recents : recents[i] = w
           q == Without(w)
           n == Len(recents)
<1>1. n \in Nat /\ DOMAIN recents = 1..n /\ \A i \in 1..n : recents[i] \in WorkspaceIds
  OBVIOUS
<1>2. k \in 1..n /\ recents[k] = w
  <2>1. \E i \in DOMAIN recents : recents[i] = w
    BY DEF Range
  <2>2. QED
    BY <1>1, <2>1
<1>3. q = SubSeq(recents, 1, k - 1) \o SubSeq(recents, k + 1, n)
  BY DEF Without, RemoveAt
<1> HIDE DEF k, q, n
<1>4. /\ SubSeq(recents, 1, k - 1) \in Seq(WorkspaceIds) /\ Len(SubSeq(recents, 1, k - 1)) = k - 1
      /\ \A i \in 1..(k - 1) : SubSeq(recents, 1, k - 1)[i] = recents[i]
  BY <1>1, <1>2, SubSeqProperties
<1>5. /\ SubSeq(recents, k + 1, n) \in Seq(WorkspaceIds) /\ Len(SubSeq(recents, k + 1, n)) = n - k
      /\ \A i \in 1..(n - k) : SubSeq(recents, k + 1, n)[i] = recents[k + i]
  BY <1>1, <1>2, SubSeqProperties
<1>6. /\ q \in Seq(WorkspaceIds) /\ Len(q) = n - 1 /\ DOMAIN q = 1..(n - 1)
      /\ \A i \in 1..(n - 1) : q[i] = IF i < k THEN recents[i] ELSE recents[i + 1]
  <2>1. q \in Seq(WorkspaceIds) /\ Len(q) = n - 1
    BY <1>1, <1>2, <1>3, <1>4, <1>5
  <2>2. \A i \in 1..(n - 1) : q[i] = IF i < k THEN recents[i] ELSE recents[i + 1]
    <3>1. SUFFICES ASSUME NEW i \in 1..(n - 1)
                   PROVE  q[i] = IF i < k THEN recents[i] ELSE recents[i + 1]
      OBVIOUS
    <3>2. CASE i < k
      BY <1>1, <1>2, <1>3, <1>4, <1>5, <3>2
    <3>3. CASE ~(i < k)
      <4>1. q[i] = SubSeq(recents, k + 1, n)[i - (k - 1)]
        BY <1>1, <1>2, <1>3, <1>4, <1>5, <3>3
      <4>2. i - (k - 1) \in 1..(n - k) /\ k + (i - (k - 1)) = i + 1
        BY <1>1, <1>2, <3>3
      <4>3. QED
        BY <1>5, <3>3, <4>1, <4>2
    <3>4. QED
      BY <3>2, <3>3
  <2>3. QED
    BY <1>1, <2>1, <2>2
<1>7. ASSUME NEW i \in 1..(n - 1)
      PROVE  \E j \in 1..n \ {k} : q[i] = recents[j] /\ j = IF i < k THEN i ELSE i + 1
  <2>1. (IF i < k THEN i ELSE i + 1) \in 1..n \ {k}
    BY <1>1, <1>2
  <2>2. QED
    BY <1>6, <2>1
<1>8. \A v : v \in Range(q) <=> v \in Range(recents) \ {w}
  <2>1. ASSUME NEW v \in Range(q) PROVE v \in Range(recents) \ {w}
    <3>1. PICK i \in 1..(n - 1) : v = q[i]
      BY <1>6, <2>1 DEF Range
    <3>2. PICK j \in 1..n \ {k} : v = recents[j]
      BY <1>7, <3>1
    <3>3. QED
      BY <1>1, <1>2, <3>2 DEF IsInjective, Range
  <2>2. ASSUME NEW v \in Range(recents) \ {w} PROVE v \in Range(q)
    <3>1. PICK j \in 1..n : v = recents[j]
      BY <1>1, <2>2 DEF Range
    <3>2. j # k
      BY <1>2, <2>2, <3>1
    <3>3. CASE j < k
      <4>1. j \in 1..(n - 1) /\ q[j] = v
        BY <1>1, <1>2, <1>6, <3>1, <3>3
      <4>2. QED
        BY <1>6, <4>1 DEF Range
    <3>4. CASE j > k
      <4>1. j - 1 \in 1..(n - 1) /\ ~(j - 1 < k) /\ (j - 1) + 1 = j
        BY <1>1, <1>2, <3>4
      <4>2. q[j - 1] = v
        BY <1>6, <3>1, <4>1
      <4>3. QED
        BY <1>6, <4>1, <4>2 DEF Range
    <3>5. QED
      BY <1>1, <1>2, <3>2, <3>3, <3>4
  <2>3. QED
    BY <2>1, <2>2
<1>9. IsInjective(q)
  <2>1. SUFFICES ASSUME NEW a \in 1..(n - 1), NEW b \in 1..(n - 1), q[a] = q[b] PROVE a = b
    BY <1>6 DEF IsInjective
  <2>2. PICK i \in 1..n \ {k} : q[a] = recents[i] /\ i = IF a < k THEN a ELSE a + 1
    BY <1>7
  <2>3. PICK j \in 1..n \ {k} : q[b] = recents[j] /\ j = IF b < k THEN b ELSE b + 1
    BY <1>7
  <2>4. i = j
    BY <1>1, <2>1, <2>2, <2>3 DEF IsInjective
  <2>5. QED
    BY <1>1, <1>2, <2>2, <2>3, <2>4
<1>10. QED
  BY <1>6, <1>8, <1>9 DEF q

LEMMA FirstShows ==
  ASSUME NEW s \in Seq(WorkspaceIds), IsInjective(s), NEW w \in WorkspaceIds, w \notin Range(s)
  PROVE  /\ <<w>> \o s \in Seq(WorkspaceIds) /\ Range(<<w>> \o s) = Range(s) \cup {w}
         /\ IsInjective(<<w>> \o s)
<1> DEFINE q == <<w>> \o s
           n == Len(s)
<1>1. /\ n \in Nat /\ DOMAIN s = 1..n /\ q \in Seq(WorkspaceIds) /\ DOMAIN q = 1..(n + 1)
      /\ q[1] = w /\ \A i \in 2..(n + 1) : q[i] = s[i - 1]
  OBVIOUS
<1> HIDE DEF q, n
<1>2. \A i \in 1..(n + 1) : i = 1 \/ (i \in 2..(n + 1) /\ i - 1 \in 1..n)
  BY <1>1
<1>3. \A i \in 1..n : i + 1 \in 2..(n + 1) /\ i + 1 \in 1..(n + 1) /\ (i + 1) - 1 = i /\ 1 \in 1..(n + 1)
  BY <1>1
<1>4. \A i \in 1..n : q[i + 1] = s[i]
  BY <1>1, <1>3
<1>5. \A v : v \in Range(q) <=> v \in Range(s) \cup {w}
  <2>1. ASSUME NEW v \in Range(q) PROVE v \in Range(s) \cup {w}
    BY <1>1, <1>2, <2>1 DEF Range
  <2>2. ASSUME NEW v \in Range(s) PROVE v \in Range(q)
    BY <1>1, <1>3, <1>4, <2>2 DEF Range
  <2>3. 1 \in 1..(n + 1)
    BY <1>1
  <2>4. w \in Range(q)
    BY <1>1, <2>3 DEF Range
  <2>5. QED
    BY <2>1, <2>2, <2>4
<1>6. IsInjective(q)
  <2>1. SUFFICES ASSUME NEW a \in 1..(n + 1), NEW b \in 1..(n + 1), q[a] = q[b] PROVE a = b
    BY <1>1 DEF IsInjective
  <2>2. ASSUME NEW i \in 2..(n + 1) PROVE q[i] # w
    <3>1. i - 1 \in 1..n /\ q[i] = s[i - 1]
      BY <1>1
    <3>2. QED
      BY <1>1, <3>1 DEF Range
  <2>3. CASE a = 1 \/ b = 1
    BY <1>1, <1>2, <2>1, <2>2, <2>3
  <2>4. CASE a # 1 /\ b # 1
    <3>1. a \in 2..(n + 1) /\ b \in 2..(n + 1) /\ a - 1 \in 1..n /\ b - 1 \in 1..n
      BY <1>2, <2>4
    <3>2. s[a - 1] = s[b - 1]
      BY <1>1, <2>1, <3>1
    <3>3. a - 1 = b - 1
      BY <1>1, <3>1, <3>2 DEF IsInjective
    <3>4. QED
      BY <3>3
  <2>5. QED
    BY <2>3, <2>4
<1>7. QED
  BY <1>1, <1>5, <1>6 DEF q

LEMMA DepsTyped == ASSUME NEW S \in SUBSET Bundles PROVE WithDeps(S) \in SUBSET Bundles /\ S \subseteq WithDeps(S)
BY RecordsAssumption DEF WithDeps

\* What a rendering comes to.
Shows(o, g, l, copy, recs) ==
  /\ open' = o /\ gate' = g /\ loaded' = l /\ bound' \in SUBSET Bundles
  /\ records' \in [WorkspaceIds -> SUBSET Bundles]
  /\ \A w \in WorkspaceIds \ {o} : records'[w] = recs[w]
  /\ g # o \/ o = NoWorkspace => bound' = copy /\ records' = recs
  /\ g = o /\ o # NoWorkspace =>
       bound' = l /\ records'[o] = IF l = copy THEN recs[o] ELSE l

LEMMA RenderShows ==
  ASSUME NEW o \in WorkspaceIds \cup {NoWorkspace}, NEW g, NEW l \in SUBSET Bundles, NEW copy \in SUBSET Bundles,
         NEW recs \in [WorkspaceIds -> SUBSET Bundles], Render(o, g, l, copy, recs)
  PROVE  Shows(o, g, l, copy, recs)
<1>1. CASE o # NoWorkspace /\ g = o /\ l # copy
  BY <1>1 DEF Render, Shows
<1>2. CASE ~(o # NoWorkspace /\ g = o /\ l # copy)
  BY <1>2 DEF Render, Shows
<1>3. QED
  BY <1>1, <1>2

-----------------------------------------------------------------------------
(* Every step keeps the invariant. *)

\* What the invariant says, in the form the steps use.
LEMMA RecordsRead ==
  ASSUME RecordTypes
  PROVE  /\ records \in [WorkspaceIds -> SUBSET Bundles] /\ own \in [WorkspaceIds -> SUBSET Bundles]
         /\ recents \in Seq(WorkspaceIds) /\ IsInjective(recents)
         /\ Range(recents) \subseteq WorkspaceIds /\ Range(recents) \cap unborn = {}
         /\ unborn \subseteq WorkspaceIds /\ blank \subseteq WorkspaceIds /\ mixed \subseteq WorkspaceIds
         /\ loaded \in SUBSET Bundles /\ bound \in SUBSET Bundles /\ fresh \in SUBSET Bundles
         /\ open \in WorkspaceIds \cup {NoWorkspace} /\ gate \in WorkspaceIds \cup {NoWorkspace}
         /\ restores \subseteq Restore /\ (open # NoWorkspace => open \in Range(recents))
         /\ NoWorkspace \notin mixed /\ NoWorkspace \notin WorkspaceIds
         /\ \A r \in restores :
              /\ r \in Restore /\ r.of \in WorkspaceIds /\ r.at \in {"files", "parse"}
              /\ r.declared \in SUBSET Bundles /\ r.from \in WorkspaceIds \cup {NoWorkspace}
<1>1. /\ records \in [WorkspaceIds -> SUBSET Bundles] /\ own \in [WorkspaceIds -> SUBSET Bundles]
      /\ recents \in Seq(WorkspaceIds) /\ IsInjective(recents) /\ Range(recents) \subseteq WorkspaceIds \ unborn
      /\ unborn \subseteq WorkspaceIds /\ blank \subseteq WorkspaceIds /\ mixed \subseteq WorkspaceIds
      /\ loaded \in SUBSET Bundles /\ bound \in SUBSET Bundles /\ fresh \in SUBSET Bundles
      /\ open \in WorkspaceIds \cup {NoWorkspace} /\ gate \in WorkspaceIds \cup {NoWorkspace}
      /\ restores \subseteq Restore /\ (open # NoWorkspace => open \in Range(recents))
  BY DEF RecordTypes, RecordsTypeOK
<1>2. \A r \in Restore :
        /\ r.of \in WorkspaceIds /\ r.at \in {"files", "parse"}
        /\ r.declared \in SUBSET Bundles /\ r.from \in WorkspaceIds \cup {NoWorkspace}
  BY DEF Restore
<1>3. NoWorkspace \notin WorkspaceIds /\ NoWorkspace \notin mixed
  BY <1>1, RecordsAssumption
<1>4. Range(recents) \subseteq WorkspaceIds /\ Range(recents) \cap unborn = {}
  BY <1>1
<1>5. QED
  BY <1>1, <1>2, <1>3, <1>4

\* Bundles loaded or unloaded, k what is in the store then: the record of a
\* settled workspace follows the store.
LEMMA StoreInv ==
  ASSUME RecordsInv, NEW k \in SUBSET Bundles, Usable,
         Render(open, gate, k, bound, records),
         UNCHANGED <<recents, unborn, blank, restores, mixed>>,
         \/ open = NoWorkspace /\ fresh' \in SUBSET k /\ UNCHANGED own
         \/ /\ open # NoWorkspace /\ UNCHANGED fresh /\ \E d \in SUBSET Bundles : own' = [own EXCEPT ![open] = d]
            /\ own[open] = loaded => own'[open] = k
  PROVE  RecordsInv'
<1>0. RecordTypes /\ BindingsAreOwn /\ Steady /\ (open # NoWorkspace => fresh = {})
  BY DEF RecordsInv, FreshIsLoaded
<1>1. /\ own \in [WorkspaceIds -> SUBSET Bundles] /\ restores = {}
      /\ open \in WorkspaceIds \cup {NoWorkspace} /\ NoWorkspace \notin WorkspaceIds
      /\ Range(recents) \subseteq WorkspaceIds /\ (open # NoWorkspace => open \in Range(recents))
      /\ records \in [WorkspaceIds -> SUBSET Bundles] /\ bound \in SUBSET Bundles
  BY <1>0, RecordsRead DEF Usable
<1>2. Shows(open, gate, k, bound, records)
  BY <1>1, RenderShows
<1>3. /\ open' = open /\ gate' = gate /\ loaded' = k /\ bound' \in SUBSET Bundles
      /\ records' \in [WorkspaceIds -> SUBSET Bundles]
      /\ \A w \in WorkspaceIds \ {open} : records'[w] = records[w]
      /\ gate = open /\ open # NoWorkspace =>
           bound' = k /\ records'[open] = IF k = bound THEN records[open] ELSE k
  BY <1>2 DEF Shows
<1>4. /\ own' \in [WorkspaceIds -> SUBSET Bundles] /\ \A w \in WorkspaceIds \ {open} : own'[w] = own[w]
      /\ fresh' \in SUBSET Bundles /\ fresh' \subseteq k /\ (open # NoWorkspace => fresh' = {})
  BY <1>0, <1>1
<1>5. RecordTypes'
  BY <1>0, <1>3, <1>4 DEF RecordTypes, RecordsTypeOK
<1>6. open # NoWorkspace /\ open \notin mixed =>
        /\ gate' = open' /\ loaded' = records'[open'] /\ bound' = records'[open']
        /\ records'[open] = own'[open]
  <2>1. SUFFICES ASSUME open # NoWorkspace, open \notin mixed
                 PROVE  /\ gate' = open' /\ loaded' = records'[open'] /\ bound' = records'[open']
                        /\ records'[open] = own'[open]
    OBVIOUS
  <2>2. gate = open /\ loaded = records[open] /\ bound = records[open] /\ own[open] = loaded
    BY <1>0, <1>1, <2>1 DEF Steady, BindingsAreOwn
  <2>3. QED
    BY <1>3, <2>1, <2>2
<1>7. Steady'
  BY <1>3, <1>6 DEF Steady
<1>8. BindingsAreOwn'
  <2>1. SUFFICES ASSUME NEW w \in Range(recents) \ mixed PROVE records'[w] = own'[w]
    BY DEF BindingsAreOwn
  <2>2. CASE w = open
    BY <1>1, <1>6, <2>1, <2>2
  <2>3. CASE w # open
    BY <1>0, <1>1, <1>3, <1>4, <2>1, <2>3 DEF BindingsAreOwn
  <2>4. QED
    BY <2>2, <2>3
<1>9. Alone' /\ Reopening' /\ Opening'
  BY <1>1 DEF Alone, Reopening, Opening
<1>10. FreshIsLoaded'
  BY <1>3, <1>4 DEF FreshIsLoaded
<1>11. QED
  BY <1>5, <1>7, <1>8, <1>9, <1>10 DEF RecordsInv

LEMMA LoadBundleInv == ASSUME RecordsInv, NEW b \in Bundles, LoadBundle(b) PROVE RecordsInv'
<1> DEFINE d == WithDeps({b})
<1>1. RecordTypes /\ FreshIsLoaded
  BY DEF RecordsInv
<1>2. d \in SUBSET Bundles
  BY DepsTyped
<1>3. /\ Usable /\ Render(open, gate, loaded \cup d, bound, records)
      /\ UNCHANGED <<recents, unborn, blank, restores, mixed>>
      /\ \/ open = NoWorkspace /\ fresh' = fresh \cup d /\ UNCHANGED own
         \/ open # NoWorkspace /\ own' = [own EXCEPT ![open] = own[open] \cup d] /\ UNCHANGED fresh
  BY DEF LoadBundle
<1> HIDE DEF d
<1>4. /\ loaded \in SUBSET Bundles /\ fresh \in SUBSET Bundles /\ fresh \subseteq loaded
      /\ own \in [WorkspaceIds -> SUBSET Bundles] /\ open \in WorkspaceIds \cup {NoWorkspace}
  BY <1>1, <1>3, RecordsRead DEF FreshIsLoaded, Usable
<1>5. loaded \cup d \in SUBSET Bundles /\ (open = NoWorkspace => fresh' \in SUBSET (loaded \cup d))
  BY <1>2, <1>3, <1>4
<1>6. open # NoWorkspace => own[open] \cup d \in SUBSET Bundles /\ own'[open] = own[open] \cup d
  BY <1>2, <1>3, <1>4
<1>7. QED
  BY <1>3, <1>5, <1>6, StoreInv

LEMMA UnloadBundleInv == ASSUME RecordsInv, NEW b \in Bundles, UnloadBundle(b) PROVE RecordsInv'
<1>1. RecordTypes /\ FreshIsLoaded
  BY DEF RecordsInv
<1>2. /\ Usable /\ Render(open, gate, loaded \ {b}, bound, records)
      /\ UNCHANGED <<recents, unborn, blank, restores, mixed>>
      /\ \/ open = NoWorkspace /\ fresh' = fresh \ {b} /\ UNCHANGED own
         \/ open # NoWorkspace /\ own' = [own EXCEPT ![open] = own[open] \ {b}] /\ UNCHANGED fresh
  BY DEF UnloadBundle
<1>3. /\ loaded \in SUBSET Bundles /\ fresh \in SUBSET Bundles /\ fresh \subseteq loaded
      /\ own \in [WorkspaceIds -> SUBSET Bundles] /\ open \in WorkspaceIds \cup {NoWorkspace}
  BY <1>1, <1>2, RecordsRead DEF FreshIsLoaded, Usable
<1>4. loaded \ {b} \in SUBSET Bundles /\ (open = NoWorkspace => fresh' \in SUBSET (loaded \ {b}))
  BY <1>2, <1>3
<1>5. open # NoWorkspace => own[open] \ {b} \in SUBSET Bundles /\ own'[open] = own[open] \ {b}
  BY <1>2, <1>3
<1>6. QED
  BY <1>2, <1>4, <1>5, StoreInv

\* A new workspace binds what was loaded for it.
LEMMA CreateInv == ASSUME RecordsInv, NEW w \in WorkspaceIds, CreateWorkspace(w) PROVE RecordsInv'
<1>0. RecordTypes /\ BindingsAreOwn /\ FreshIsLoaded
  BY DEF RecordsInv
<1> DEFINE recs == [records EXCEPT ![w] = {}]
<1>1. /\ restores = {} /\ w \in unborn /\ unborn' = unborn \ {w} /\ recents' = <<w>> \o recents
      /\ Render(w, w, loaded, {}, recs) /\ own' = [own EXCEPT ![w] = fresh] /\ fresh' = {}
      /\ mixed' = IF loaded \subseteq fresh THEN mixed ELSE mixed \cup {w}
      /\ UNCHANGED <<blank, restores>>
  BY DEF CreateWorkspace, Usable
<1>2. /\ records \in [WorkspaceIds -> SUBSET Bundles] /\ own \in [WorkspaceIds -> SUBSET Bundles]
      /\ recents \in Seq(WorkspaceIds) /\ IsInjective(recents) /\ w \notin Range(recents)
      /\ Range(recents) \subseteq WorkspaceIds \ unborn /\ unborn \subseteq WorkspaceIds
      /\ loaded \in SUBSET Bundles /\ fresh \in SUBSET Bundles /\ fresh \subseteq loaded
      /\ NoWorkspace \notin WorkspaceIds /\ mixed \subseteq WorkspaceIds
  BY <1>0, <1>1, RecordsRead DEF FreshIsLoaded
<1>3. recs \in [WorkspaceIds -> SUBSET Bundles] /\ recs[w] = {} /\ \A v \in WorkspaceIds \ {w} : recs[v] = records[v]
  BY <1>2
<1> HIDE DEF recs
<1>4. w \in WorkspaceIds \cup {NoWorkspace} /\ {} \in SUBSET Bundles /\ w # NoWorkspace
  BY <1>2
<1>5. Shows(w, w, loaded, {}, recs)
  BY <1>1, <1>2, <1>3, <1>4, RenderShows
<1>6. /\ open' = w /\ gate' = w /\ loaded' = loaded /\ bound' \in SUBSET Bundles
      /\ records' \in [WorkspaceIds -> SUBSET Bundles]
      /\ \A v \in WorkspaceIds \ {w} : records'[v] = recs[v]
      /\ bound' = loaded /\ records'[w] = IF loaded = {} THEN recs[w] ELSE loaded
  BY <1>2, <1>5 DEF Shows
<1>7. records'[w] = loaded
  BY <1>3, <1>6
<1>8. recents' \in Seq(WorkspaceIds) /\ Range(recents') = Range(recents) \cup {w} /\ IsInjective(recents')
  BY <1>1, <1>2, FirstShows
<1>9. /\ own' \in [WorkspaceIds -> SUBSET Bundles] /\ own'[w] = fresh
      /\ \A v \in WorkspaceIds \ {w} : own'[v] = own[v]
  BY <1>1, <1>2
<1>10. mixed' \subseteq WorkspaceIds /\ mixed \subseteq mixed' /\ (w \notin mixed' => loaded = fresh)
  BY <1>1, <1>2
<1>11. RecordTypes'
  BY <1>0, <1>1, <1>2, <1>6, <1>8, <1>9, <1>10 DEF RecordTypes, RecordsTypeOK
<1>12. BindingsAreOwn'
  <2>1. SUFFICES ASSUME NEW v \in Range(recents') \ mixed' PROVE records'[v] = own'[v]
    BY DEF BindingsAreOwn
  <2>2. CASE v = w
    BY <1>7, <1>9, <1>10, <2>1, <2>2
  <2>3. CASE v # w
    <3>1. v \in Range(recents) \ mixed /\ v \in WorkspaceIds
      BY <1>2, <1>8, <1>10, <2>1, <2>3
    <3>2. QED
      BY <1>0, <1>3, <1>6, <1>9, <2>3, <3>1 DEF BindingsAreOwn
  <2>4. QED
    BY <2>2, <2>3
<1>13. Steady' /\ FreshIsLoaded'
  BY <1>1, <1>6, <1>7 DEF Steady, FreshIsLoaded
<1>14. Alone' /\ Reopening' /\ Opening'
  BY <1>1 DEF Alone, Reopening, Opening
<1>15. QED
  BY <1>11, <1>12, <1>13, <1>14 DEF RecordsInv

\* A second restoration mixes up both workspaces.
LEMMA SwitchInv == ASSUME RecordsInv, NEW w \in WorkspaceIds, Switch(w) PROVE RecordsInv'
<1>0. RecordTypes /\ BindingsAreOwn /\ Steady /\ Alone /\ Reopening /\ Opening /\ FreshIsLoaded
  BY DEF RecordsInv
<1> DEFINE new == [of |-> w, at |-> "files", declared |-> records[w], from |-> open]
<1>1. /\ w \in Range(recents) /\ restores' = restores \cup {new}
      /\ mixed' = IF Usable THEN mixed ELSE mixed \cup {r.of : r \in restores'}
      /\ UNCHANGED <<records, recents, unborn, blank, loaded, open, bound, gate, own, fresh>>
  BY DEF Switch, stored
<1>2. /\ records \in [WorkspaceIds -> SUBSET Bundles] /\ open \in WorkspaceIds \cup {NoWorkspace}
      /\ mixed \subseteq WorkspaceIds /\ restores \subseteq Restore
      /\ \A r \in restores : r.of \in WorkspaceIds
      /\ NoWorkspace \notin WorkspaceIds
  BY <1>0, RecordsRead
<1>3. new \in Restore /\ new.of = w /\ new.at = "files" /\ new.declared = records[w] /\ new.from = open
  BY <1>2 DEF Restore
<1> HIDE DEF new
<1>4. mixed' \subseteq WorkspaceIds /\ mixed \subseteq mixed'
  BY <1>1, <1>2, <1>3
<1>5. restores # {} => \A r \in restores' : r.of \in mixed'
  BY <1>1 DEF Usable
<1>6. restores = {} => restores' = {new} /\ mixed' = mixed
  BY <1>1 DEF Usable
<1>7. RecordTypes'
  BY <1>0, <1>1, <1>2, <1>3, <1>4 DEF RecordTypes, RecordsTypeOK
<1>8. BindingsAreOwn'
  BY <1>0, <1>1, <1>4 DEF BindingsAreOwn
<1>9. Steady'
  BY <1>1 DEF Steady, Usable
<1>10. Alone'
  BY <1>0, <1>1, <1>3, <1>5, <1>6 DEF Alone
<1>11. Reopening'
  <2>1. SUFFICES ASSUME NEW r \in restores', r.of \notin mixed', r.from = r.of PROVE loaded \subseteq r.declared
    BY <1>1 DEF Reopening
  <2>2. restores = {} /\ r = new
    BY <1>5, <1>6, <2>1
  <2>3. open = w /\ open # NoWorkspace /\ open \notin mixed
    BY <1>2, <1>3, <1>6, <2>1, <2>2
  <2>4. QED
    BY <1>0, <1>3, <2>2, <2>3 DEF Steady, Usable
<1>12. Opening'
  <2>1. SUFFICES ASSUME NEW r \in restores', r.at = "parse"
                 PROVE  /\ open \in {NoWorkspace, r.of} \cup mixed'
                        /\ ~(open = r.of /\ open \notin mixed')
    BY <1>1 DEF Opening
  <2>2. r \in restores
    BY <1>1, <1>3, <2>1
  <2>3. QED
    BY <1>0, <1>4, <1>5, <2>1, <2>2 DEF Opening
<1>13. FreshIsLoaded'
  BY <1>0, <1>1 DEF FreshIsLoaded, Usable
<1>14. QED
  BY <1>7, <1>8, <1>9, <1>10, <1>11, <1>12, <1>13 DEF RecordsInv

\* The files have come: the workspace is open, the gate is shut, and the store
\* holds what the workspace declares, unless bundles are mixed up.
LEMMA RestoredInv == ASSUME RecordsInv, NEW r \in restores, Restored(r) PROVE RecordsInv'
<1>0. RecordTypes /\ BindingsAreOwn /\ Alone /\ Reopening /\ Opening /\ FreshIsLoaded
  BY DEF RecordsInv
<1> DEFINE new == [r EXCEPT !.at = "parse"]
           w == r.of
           recs == [records EXCEPT ![w] = r.declared]
           evicts == r.from \notin {NoWorkspace, r.of}
           k == IF evicts THEN loaded \cap r.declared ELSE loaded
<1>1. /\ r.at = "files" /\ restores' = (restores \ {r}) \cup {new}
      /\ recents' = <<w>> \o Without(w) /\ Render(w, NoWorkspace, k, r.declared, recs)
      /\ mixed' = IF r.from # NoWorkspace \/ loaded \subseteq fresh \cup r.declared THEN mixed
                  ELSE mixed \cup {w}
      /\ UNCHANGED <<unborn, blank, own, fresh>>
  BY DEF Restored
<1>2. /\ records \in [WorkspaceIds -> SUBSET Bundles] /\ recents \in Seq(WorkspaceIds)
      /\ IsInjective(recents) /\ Range(recents) \subseteq WorkspaceIds /\ Range(recents) \cap unborn = {}
      /\ loaded \in SUBSET Bundles /\ restores \subseteq Restore /\ mixed \subseteq WorkspaceIds
      /\ r \in Restore /\ w \in WorkspaceIds /\ r.declared \in SUBSET Bundles
      /\ r.from \in WorkspaceIds \cup {NoWorkspace} /\ NoWorkspace \notin WorkspaceIds
      /\ \A s \in restores : s.of \in WorkspaceIds
  BY <1>0, RecordsRead
<1>3. w \in Range(recents)
  BY <1>0 DEF Alone
<1>4. /\ new \in Restore /\ new.of = w /\ new.at = "parse" /\ new.declared = r.declared /\ new.from = r.from
  BY <1>2 DEF Restore
<1>5. /\ k \in SUBSET Bundles /\ recs \in [WorkspaceIds -> SUBSET Bundles] /\ recs[w] = r.declared
      /\ \A v \in WorkspaceIds \ {w} : recs[v] = records[v]
  BY <1>2
<1>6. /\ evicts => k \subseteq r.declared
      /\ ~evicts => k = loaded
  OBVIOUS
<1> HIDE DEF recs, k
<1>7. w \in WorkspaceIds \cup {NoWorkspace} /\ NoWorkspace # w
  BY <1>2
<1>8. Shows(w, NoWorkspace, k, r.declared, recs)
  BY <1>1, <1>2, <1>5, <1>7, RenderShows
<1>9. open' = w /\ gate' = NoWorkspace /\ loaded' = k /\ bound' = r.declared /\ records' = recs
  BY <1>7, <1>8 DEF Shows
<1> DEFINE rest == Without(w)
<1>10. rest \in Seq(WorkspaceIds) /\ Range(rest) = Range(recents) \ {w} /\ IsInjective(rest)
  BY <1>2, <1>3, WithoutShows
<1>11. recents' \in Seq(WorkspaceIds) /\ Range(recents') = Range(recents) /\ IsInjective(recents')
  <2>1. w \notin Range(rest)
    BY <1>10
  <2> HIDE DEF rest
  <2>2. /\ <<w>> \o rest \in Seq(WorkspaceIds) /\ Range(<<w>> \o rest) = Range(rest) \cup {w}
        /\ IsInjective(<<w>> \o rest)
    BY <1>2, <1>10, <2>1, FirstShows
  <2>3. recents' = <<w>> \o rest
    BY <1>1 DEF rest
  <2>4. QED
    BY <1>3, <1>10, <2>2, <2>3
<1>12. mixed' \subseteq WorkspaceIds /\ mixed \subseteq mixed'
  BY <1>1, <1>2
<1>13. RecordTypes'
  <2>1. restores' \subseteq Restore
    BY <1>1, <1>2, <1>4
  <2>2. gate' \in WorkspaceIds \cup {NoWorkspace} /\ Range(recents') \subseteq WorkspaceIds \ unborn
    BY <1>2, <1>9, <1>11
  <2>3. QED
    BY <1>0, <1>1, <1>2, <1>3, <1>5, <1>7, <1>9, <1>11, <1>12, <2>1, <2>2 DEF RecordTypes, RecordsTypeOK
<1>14. w \notin mixed' => restores = {r} /\ restores' = {new} /\ r.declared = records[w] /\ w \notin mixed
  BY <1>0, <1>1, <1>12 DEF Alone
<1>15. BindingsAreOwn'
  <2>1. SUFFICES ASSUME NEW v \in Range(recents') \ mixed' PROVE records'[v] = own[v]
    BY <1>1 DEF BindingsAreOwn
  <2>2. v \in Range(recents) \ mixed /\ v \in WorkspaceIds
    BY <1>2, <1>11, <1>12
  <2>3. records'[v] = records[v]
    BY <1>5, <1>9, <1>14, <2>1, <2>2
  <2>4. QED
    BY <1>0, <2>2, <2>3 DEF BindingsAreOwn
<1>16. Steady' /\ FreshIsLoaded'
  BY <1>1, <1>4 DEF Steady, FreshIsLoaded, Usable
<1>17. Alone'
  <2>1. SUFFICES ASSUME NEW s \in restores'
                 PROVE  /\ s.of \in Range(recents')
                        /\ s.of \notin mixed' => restores' = {s} /\ s.declared = records'[s.of]
    BY DEF Alone
  <2>2. CASE s = new
    BY <1>3, <1>4, <1>5, <1>9, <1>11, <1>14, <2>2
  <2>3. CASE s # new
    <3>1. s \in restores /\ s # r
      BY <1>1, <2>1, <2>3
    <3>2. s.of \in Range(recents) /\ s.of \in mixed
      BY <1>0, <3>1 DEF Alone
    <3>3. QED
      BY <1>11, <1>12, <3>2
  <2>4. QED
    BY <2>2, <2>3
<1>18. Reopening'
  <2>1. SUFFICES ASSUME NEW s \in restores', s.at = "files", s.of \notin mixed' PROVE FALSE
    BY DEF Reopening
  <2>2. s \in restores /\ s # r
    BY <1>1, <1>4, <2>1
  <2>3. QED
    BY <1>0, <1>12, <2>1, <2>2 DEF Alone
<1>19. Opening'
  <2>1. SUFFICES ASSUME NEW s \in restores', s.at = "parse"
                 PROVE  /\ w \in {NoWorkspace, s.of} \cup mixed'
                        /\ w = s.of /\ w \notin mixed' =>
                             /\ bound' = s.declared
                             /\ k \subseteq s.declared \cup (IF s.from = NoWorkspace THEN fresh ELSE {})
                             /\ s.from = NoWorkspace => fresh \subseteq k
    BY <1>1, <1>9 DEF Opening
  <2>2. CASE w \in mixed'
    BY <2>2
  <2>3. CASE w \notin mixed'
    <3>1. s = new /\ restores = {r} /\ w \notin mixed
      BY <1>14, <2>1, <2>3
    <3>2. fresh \subseteq loaded
      BY <1>0, <1>1, <3>1 DEF FreshIsLoaded
    <3>3. CASE r.from = NoWorkspace
      <4>1. loaded \subseteq fresh \cup r.declared /\ k = loaded
        BY <1>1, <1>6, <2>3, <3>3
      <4>2. QED
        BY <1>4, <1>9, <3>1, <3>2, <3>3, <4>1
    <3>4. CASE r.from = w
      <4>1. loaded \subseteq r.declared /\ k = loaded
        BY <1>0, <1>1, <1>6, <3>1, <3>4 DEF Reopening
      <4>2. QED
        BY <1>4, <1>7, <1>9, <3>1, <3>4, <4>1
    <3>5. CASE r.from \notin {NoWorkspace, w}
      BY <1>4, <1>6, <1>9, <3>1, <3>5
    <3>6. QED
      BY <3>3, <3>4, <3>5
  <2>4. QED
    BY <2>2, <2>3
<1>20. QED
  BY <1>13, <1>15, <1>16, <1>17, <1>18, <1>19 DEF RecordsInv

\* Nothing is open any more; what is restored goes on.
LEMMA NothingOpenInv ==
  ASSUME RecordsInv, NEW S \in SUBSET restores, restores' = S,
         Render(NoWorkspace, NoWorkspace, loaded, {}, records),
         UNCHANGED <<recents, unborn, own, mixed>>, blank' \subseteq WorkspaceIds,
         fresh' = {} \/ (fresh' = fresh /\ \A r \in restores \ S : r.at = "files")
  PROVE  RecordsInv'
<1>0. RecordTypes /\ BindingsAreOwn /\ Alone /\ Reopening /\ Opening /\ FreshIsLoaded
  BY DEF RecordsInv
<1>1. /\ records \in [WorkspaceIds -> SUBSET Bundles] /\ loaded \in SUBSET Bundles /\ {} \in SUBSET Bundles
      /\ NoWorkspace \in WorkspaceIds \cup {NoWorkspace} /\ NoWorkspace \notin WorkspaceIds
      /\ fresh \in SUBSET Bundles /\ NoWorkspace \notin mixed /\ restores \subseteq Restore
      /\ \A r \in restores : r.of \in WorkspaceIds
  BY <1>0, RecordsRead
<1>2. Shows(NoWorkspace, NoWorkspace, loaded, {}, records)
  BY <1>1, RenderShows
<1>3. open' = NoWorkspace /\ gate' = NoWorkspace /\ loaded' = loaded /\ bound' = {} /\ records' = records
  BY <1>2 DEF Shows
<1>4. RecordTypes'
  BY <1>0, <1>1, <1>3 DEF RecordTypes, RecordsTypeOK
<1>5. BindingsAreOwn' /\ Steady'
  BY <1>0, <1>3 DEF BindingsAreOwn, Steady
<1>6. Alone'
  BY <1>0, <1>3 DEF Alone
<1>7. Reopening' /\ FreshIsLoaded'
  BY <1>0, <1>3 DEF Reopening, FreshIsLoaded
<1>8. Opening'
  BY <1>1, <1>3 DEF Opening
<1>9. QED
  BY <1>4, <1>5, <1>6, <1>7, <1>8 DEF RecordsInv

LEMMA LeaveInv == ASSUME RecordsInv, Close \/ StartPage PROVE RecordsInv'
<1>1. RecordTypes
  BY DEF RecordsInv
<1>2. /\ Render(NoWorkspace, NoWorkspace, loaded, {}, records) /\ fresh' = {} /\ open # NoWorkspace
      /\ UNCHANGED <<recents, unborn, restores, own, mixed>>
  BY DEF Close, StartPage, Left
<1>3. blank' \subseteq WorkspaceIds
  BY <1>1, <1>2, RecordsRead DEF Close, StartPage
<1>4. QED
  BY <1>2, <1>3, NothingOpenInv

LEMMA NothingThereInv == ASSUME RecordsInv, NEW r \in restores, NothingThere(r) PROVE RecordsInv'
<1>1. /\ r.at = "files" /\ restores' = restores \ {r}
      /\ Render(NoWorkspace, NoWorkspace, loaded, {}, records)
      /\ UNCHANGED <<recents, unborn, blank, own, fresh, mixed>>
  BY DEF NothingThere
<1>2. blank' \subseteq WorkspaceIds
  BY <1>1, RecordsRead DEF RecordsInv
<1>3. QED
  BY <1>1, <1>2, NothingOpenInv

\* The declared bundles are loaded and the gate opens: the record takes what
\* the store holds, and that is what the user has loaded in this workspace.
LEMMA SyncedInv == ASSUME RecordsInv, NEW r \in restores, Synced(r) PROVE RecordsInv'
<1>0. RecordTypes /\ BindingsAreOwn /\ Alone /\ Opening
  BY DEF RecordsInv
<1> DEFINE d == WithDeps(r.declared)
           l == loaded \cup d
           mine == IF r.from = NoWorkspace THEN fresh ELSE {}
           o == WithDeps(own[open]) \cup mine
<1>1. /\ r.at = "parse" /\ restores' = restores \ {r} /\ Render(open, r.of, l, bound, records)
      /\ own' = (IF open # r.of THEN own ELSE [own EXCEPT ![open] = o]) /\ fresh' = {}
      /\ UNCHANGED <<recents, unborn, blank, mixed>>
  BY DEF Synced
<1>2. /\ records \in [WorkspaceIds -> SUBSET Bundles] /\ own \in [WorkspaceIds -> SUBSET Bundles]
      /\ loaded \in SUBSET Bundles /\ bound \in SUBSET Bundles /\ fresh \in SUBSET Bundles
      /\ open \in WorkspaceIds \cup {NoWorkspace} /\ r.of \in WorkspaceIds /\ r.declared \in SUBSET Bundles
      /\ NoWorkspace \notin WorkspaceIds /\ Range(recents) \subseteq WorkspaceIds
      /\ restores \subseteq Restore /\ (open # NoWorkspace => open \in Range(recents))
  BY <1>0, RecordsRead
<1>3. d \in SUBSET Bundles /\ r.declared \subseteq d /\ l \in SUBSET Bundles
  BY <1>2, DepsTyped
<1>4. open = r.of => o \in SUBSET Bundles
  BY <1>2, DepsTyped
<1> HIDE DEF d, o
<1>5. Shows(open, r.of, l, bound, records)
  <2> HIDE DEF l
  <2>1. QED
    BY <1>1, <1>2, <1>3, RenderShows
<1>6. /\ open' = open /\ gate' = r.of /\ loaded' = l /\ bound' \in SUBSET Bundles
      /\ records' \in [WorkspaceIds -> SUBSET Bundles]
      /\ \A v \in WorkspaceIds \ {open} : records'[v] = records[v]
      /\ open # r.of => records' = records
      /\ open = r.of => bound' = l /\ records'[open] = IF l = bound THEN records[open] ELSE l
  BY <1>2, <1>5 DEF Shows
<1>7. /\ own' \in [WorkspaceIds -> SUBSET Bundles]
      /\ \A v \in WorkspaceIds \ {open} : own'[v] = own[v]
      /\ open # r.of => own' = own
      /\ open = r.of => own'[open] = o
  BY <1>1, <1>2, <1>4
<1>8. ASSUME open = r.of, open \notin mixed
      PROVE  records'[open] = l /\ bound' = l /\ own'[open] = l
  <2>1. r.declared = records[open] /\ open \in Range(recents)
    BY <1>0, <1>8 DEF Alone
  <2>2. own[open] = r.declared
    BY <1>0, <1>8, <2>1 DEF BindingsAreOwn
  <2>3. bound = r.declared /\ loaded \subseteq r.declared \cup mine /\ mine \subseteq loaded
    BY <1>0, <1>1, <1>8 DEF Opening
  <2>4. o = d \cup mine
    BY <2>2 DEF d, o
  <2>5. o = l
    BY <1>3, <2>3, <2>4
  <2>6. QED
    BY <1>6, <1>7, <1>8, <2>1, <2>3, <2>5
<1>9. open # NoWorkspace /\ open \notin mixed => open = r.of
  BY <1>0, <1>1 DEF Opening
<1>10. \A s \in restores' : s \in restores /\ s.of \in Range(recents) /\ s.of \in mixed
  BY <1>0, <1>1 DEF Alone
<1>11. RecordTypes'
  BY <1>0, <1>1, <1>2, <1>3, <1>6, <1>7 DEF RecordTypes, RecordsTypeOK
<1>12. BindingsAreOwn'
  <2>1. SUFFICES ASSUME NEW v \in Range(recents) \ mixed PROVE records'[v] = own'[v]
    BY <1>1 DEF BindingsAreOwn
  <2>2. v \in WorkspaceIds /\ records[v] = own[v]
    BY <1>0, <1>2 DEF BindingsAreOwn
  <2>3. CASE v = open /\ open = r.of
    BY <1>8, <2>1, <2>3
  <2>4. CASE open # r.of
    BY <1>6, <1>7, <2>2, <2>4
  <2>5. CASE v # open
    BY <1>6, <1>7, <2>2, <2>5
  <2>6. QED
    BY <2>3, <2>4, <2>5
<1>13. Steady'
  BY <1>1, <1>6, <1>8, <1>9 DEF Steady
<1>14. Alone' /\ Reopening'
  BY <1>1, <1>10 DEF Alone, Reopening
<1>15. Opening'
  <2>1. \A s \in restores' : s.at = "parse" => open \in {NoWorkspace, s.of} \cup mixed
    BY <1>0, <1>10 DEF Opening
  <2>2. QED
    BY <1>1, <1>6, <1>10, <2>1 DEF Opening
<1>16. FreshIsLoaded'
  BY <1>1 DEF FreshIsLoaded
<1>17. QED
  BY <1>11, <1>12, <1>13, <1>14, <1>15, <1>16 DEF RecordsInv

LEMMA DeleteInv == ASSUME RecordsInv, NEW w \in WorkspaceIds, Delete(w) PROVE RecordsInv'
<1>0. RecordTypes /\ BindingsAreOwn /\ Steady /\ FreshIsLoaded
  BY DEF RecordsInv
<1> DEFINE recs == [records EXCEPT ![w] = {}]
<1>1. /\ restores = {} /\ w \in Range(recents) /\ recents' = Without(w)
      /\ \/ w = open /\ Render(NoWorkspace, NoWorkspace, loaded, {}, recs)
         \/ w # open /\ Render(open, gate, loaded, bound, recs)
      /\ own' = [own EXCEPT ![w] = {}]
      /\ UNCHANGED <<unborn, blank, restores, fresh, mixed>>
  BY DEF Delete, Usable
<1>2. /\ records \in [WorkspaceIds -> SUBSET Bundles] /\ own \in [WorkspaceIds -> SUBSET Bundles]
      /\ recents \in Seq(WorkspaceIds) /\ IsInjective(recents) /\ Range(recents) \subseteq WorkspaceIds
      /\ Range(recents) \cap unborn = {} /\ NoWorkspace \notin WorkspaceIds
      /\ loaded \in SUBSET Bundles /\ bound \in SUBSET Bundles /\ {} \in SUBSET Bundles
      /\ open \in WorkspaceIds \cup {NoWorkspace} /\ gate \in WorkspaceIds \cup {NoWorkspace}
      /\ NoWorkspace \in WorkspaceIds \cup {NoWorkspace}
      /\ (open # NoWorkspace => open \in Range(recents)) /\ mixed \subseteq WorkspaceIds
  BY <1>0, RecordsRead
<1>3. recs \in [WorkspaceIds -> SUBSET Bundles] /\ \A v \in WorkspaceIds \ {w} : recs[v] = records[v]
  BY <1>2
<1> HIDE DEF recs
<1>4. /\ recents' \in Seq(WorkspaceIds) /\ Range(recents') = Range(recents) \ {w} /\ IsInjective(recents')
  BY <1>1, <1>2, WithoutShows
<1>5. own' \in [WorkspaceIds -> SUBSET Bundles] /\ \A v \in WorkspaceIds \ {w} : own'[v] = own[v]
  BY <1>1, <1>2
<1>6. ASSUME w = open
      PROVE  open' = NoWorkspace /\ gate' = NoWorkspace /\ loaded' = loaded /\ bound' = {} /\ records' = recs
  <2>1. Shows(NoWorkspace, NoWorkspace, loaded, {}, recs)
    BY <1>1, <1>2, <1>3, <1>6, RenderShows
  <2>2. QED
    BY <2>1 DEF Shows
<1>7. ASSUME w # open
      PROVE  /\ open' = open /\ gate' = gate /\ loaded' = loaded /\ bound' \in SUBSET Bundles
             /\ records' \in [WorkspaceIds -> SUBSET Bundles]
             /\ \A v \in WorkspaceIds \ {w} : v # open \/ v \notin mixed => records'[v] = records[v]
             /\ open # NoWorkspace /\ open \notin mixed => bound' = bound
  <2>1. Shows(open, gate, loaded, bound, recs)
    BY <1>1, <1>2, <1>3, <1>7, RenderShows
  <2>2. open # NoWorkspace /\ open \notin mixed => gate = open /\ loaded = records[open] /\ bound = loaded
    BY <1>0, <1>1 DEF Steady, Usable
  <2>3. \A v \in WorkspaceIds \ {w} : v # open => records'[v] = records[v]
    BY <1>3, <2>1 DEF Shows
  <2>4. open # NoWorkspace /\ open \notin mixed => bound' = bound /\ records'[open] = records[open]
    BY <1>2, <1>3, <1>7, <2>1, <2>2 DEF Shows
  <2>5. QED
    BY <1>2, <2>1, <2>3, <2>4 DEF Shows
<1>8. RecordTypes'
  <2>1. Range(recents') \subseteq WorkspaceIds \ unborn /\ (open' # NoWorkspace => open' \in Range(recents'))
    BY <1>2, <1>4, <1>6, <1>7
  <2>2. /\ records' \in [WorkspaceIds -> SUBSET Bundles] /\ loaded' \subseteq Bundles /\ bound' \subseteq Bundles
        /\ open' \in WorkspaceIds \cup {NoWorkspace} /\ gate' \in WorkspaceIds \cup {NoWorkspace}
    BY <1>2, <1>3, <1>6, <1>7
  <2>3. QED
    BY <1>0, <1>1, <1>4, <1>5, <2>1, <2>2 DEF RecordTypes, RecordsTypeOK
<1>9. BindingsAreOwn'
  <2>1. SUFFICES ASSUME NEW v \in Range(recents') \ mixed PROVE records'[v] = own'[v]
    BY <1>1 DEF BindingsAreOwn
  <2>2. v \in WorkspaceIds \ {w} /\ records[v] = own[v]
    BY <1>0, <1>2, <1>4 DEF BindingsAreOwn
  <2>3. records'[v] = records[v]
    BY <1>3, <1>6, <1>7, <2>1, <2>2
  <2>4. QED
    BY <1>5, <2>2, <2>3
<1>10. Steady'
  <2>1. SUFFICES ASSUME open' # NoWorkspace, open' \notin mixed
                 PROVE  gate' = open' /\ loaded' = records'[open'] /\ bound' = records'[open']
    BY <1>1 DEF Steady
  <2>2. open # w /\ open' = open /\ open \in WorkspaceIds \ {w}
    BY <1>2, <1>6, <1>7, <2>1
  <2>3. gate = open /\ loaded = records[open] /\ bound = records[open]
    BY <1>0, <1>1, <2>1, <2>2 DEF Steady, Usable
  <2>4. QED
    BY <1>7, <2>1, <2>2, <2>3
<1>11. FreshIsLoaded'
  BY <1>0, <1>1, <1>6, <1>7 DEF FreshIsLoaded, Usable
<1>12. Alone' /\ Reopening' /\ Opening'
  BY <1>1 DEF Alone, Reopening, Opening
<1>13. QED
  BY <1>8, <1>9, <1>10, <1>11, <1>12 DEF RecordsInv

LEMMA BootInv == ASSUME RecordsInv, Boot PROVE RecordsInv'
<1>0. RecordTypes /\ BindingsAreOwn
  BY DEF RecordsInv
<1> DEFINE first == IF recents = <<>> THEN {} ELSE {Head(recents)}
           Again(w) == [of |-> w, at |-> "files", declared |-> records[w], from |-> NoWorkspace]
<1>1. /\ Render(NoWorkspace, NoWorkspace, {}, {}, records) /\ restores' = {Again(w) : w \in first}
      /\ fresh' = {} /\ UNCHANGED <<recents, unborn, blank, own, mixed>>
  BY DEF Boot
<1>2. /\ records \in [WorkspaceIds -> SUBSET Bundles] /\ {} \in SUBSET Bundles
      /\ NoWorkspace \in WorkspaceIds \cup {NoWorkspace} /\ NoWorkspace \notin WorkspaceIds
      /\ recents \in Seq(WorkspaceIds) /\ Range(recents) \subseteq WorkspaceIds
  BY <1>0, RecordsRead
<1>3. Shows(NoWorkspace, NoWorkspace, {}, {}, records)
  BY <1>1, <1>2, RenderShows
<1>4. open' = NoWorkspace /\ gate' = NoWorkspace /\ loaded' = {} /\ bound' = {} /\ records' = records
  BY <1>3 DEF Shows
<1>5. first \subseteq Range(recents) /\ \A v, w \in first : v = w
  <2>1. CASE recents = <<>>
    BY <2>1
  <2>2. CASE recents # <<>>
    <3>1. 1 \in DOMAIN recents /\ Head(recents) = recents[1]
      BY <1>2, <2>2
    <3>2. QED
      BY <2>2, <3>1 DEF Range
  <2>3. QED
    BY <2>1, <2>2
<1> HIDE DEF first
<1>6. ASSUME NEW r \in restores'
      PROVE  /\ r \in Restore /\ r.of \in Range(recents) /\ r.of \in WorkspaceIds /\ r.at = "files"
             /\ r.declared = records[r.of] /\ r.from = NoWorkspace /\ restores' = {r}
  <2>1. PICK w \in first : r = Again(w)
    BY <1>1
  <2>2. w \in WorkspaceIds /\ w \in Range(recents) /\ restores' = {r}
    BY <1>1, <1>2, <1>5, <2>1
  <2>3. QED
    BY <1>2, <2>1, <2>2 DEF Restore
<1>7. RecordTypes'
  BY <1>0, <1>1, <1>2, <1>4, <1>6 DEF RecordTypes, RecordsTypeOK
<1>8. BindingsAreOwn' /\ Steady'
  BY <1>0, <1>1, <1>4 DEF BindingsAreOwn, Steady
<1>9. Alone'
  BY <1>1, <1>4, <1>6 DEF Alone
<1>10. Reopening' /\ Opening'
  BY <1>2, <1>6 DEF Reopening, Opening
<1>11. FreshIsLoaded'
  BY <1>1 DEF FreshIsLoaded
<1>12. QED
  BY <1>7, <1>8, <1>9, <1>10, <1>11 DEF RecordsInv

LEMMA RecordsInvInit == RecordsInit => RecordsInv
<1> SUFFICES ASSUME RecordsInit PROVE RecordsInv
  OBVIOUS
<1>1. /\ records = [w \in WorkspaceIds |-> {}] /\ own = records
      /\ recents = <<>> /\ unborn = WorkspaceIds /\ blank = {} /\ mixed = {}
      /\ loaded = {} /\ bound = {} /\ fresh = {}
      /\ open = NoWorkspace /\ gate = NoWorkspace /\ restores = {}
  BY DEF RecordsInit
<1>2. recents \in Seq(WorkspaceIds) /\ Range(recents) = {} /\ IsInjective(recents)
  BY <1>1 DEF Range, IsInjective
<1>3. records \in [WorkspaceIds -> SUBSET Bundles] /\ own \in [WorkspaceIds -> SUBSET Bundles]
  BY <1>1
<1>4. RecordTypes
  BY <1>1, <1>2, <1>3 DEF RecordTypes, RecordsTypeOK
<1>5. BindingsAreOwn /\ Steady /\ Alone /\ Reopening /\ Opening /\ FreshIsLoaded
  BY <1>1, <1>2 DEF BindingsAreOwn, Steady, Alone, Reopening, Opening, FreshIsLoaded
<1>6. QED
  BY <1>4, <1>5 DEF RecordsInv

LEMMA RecordsInvNext == RecordsInv /\ [RecordsNext]_books => RecordsInv'
<1> SUFFICES ASSUME RecordsInv, [RecordsNext]_books PROVE RecordsInv'
  OBVIOUS
<1>1. ASSUME NEW b \in Bundles, LoadBundle(b) PROVE RecordsInv'
  BY <1>1, LoadBundleInv
<1>2. ASSUME NEW b \in Bundles, UnloadBundle(b) PROVE RecordsInv'
  BY <1>2, UnloadBundleInv
<1>3. ASSUME NEW w \in WorkspaceIds, CreateWorkspace(w) PROVE RecordsInv'
  BY <1>3, CreateInv
<1>4. ASSUME NEW w \in WorkspaceIds, Switch(w) PROVE RecordsInv'
  BY <1>4, SwitchInv
<1>5. ASSUME NEW w \in WorkspaceIds, Delete(w) PROVE RecordsInv'
  BY <1>5, DeleteInv
<1>6. ASSUME NEW r \in restores, Restored(r) PROVE RecordsInv'
  BY <1>6, RestoredInv
<1>7. ASSUME NEW r \in restores, NothingThere(r) PROVE RecordsInv'
  BY <1>7, NothingThereInv
<1>8. ASSUME NEW r \in restores, Synced(r) PROVE RecordsInv'
  BY <1>8, SyncedInv
<1>9. CASE Close \/ StartPage
  BY <1>9, LeaveInv
<1>10. CASE Boot
  BY <1>10, BootInv
<1>11. CASE UNCHANGED books
  <2>1. UNCHANGED <<records, recents, unborn, blank, loaded, open, bound, gate, restores, own, fresh, mixed>>
    BY <1>11 DEF books, stored, page
  <2>2. RecordTypes' /\ BindingsAreOwn' /\ Steady'
    BY <2>1 DEF RecordsInv, RecordTypes, RecordsTypeOK, BindingsAreOwn, Steady, Usable
  <2>3. Alone' /\ Reopening' /\ Opening' /\ FreshIsLoaded'
    BY <2>1 DEF RecordsInv, Alone, Reopening, Opening, FreshIsLoaded, Usable
  <2>4. QED
    BY <2>2, <2>3 DEF RecordsInv
<1>12. QED
  BY <1>1, <1>2, <1>3, <1>4, <1>5, <1>6, <1>7, <1>8, <1>9, <1>10, <1>11 DEF RecordsNext

LEMMA RecordsHold == RecordsSpec => []RecordsInv
BY RecordsInvInit, RecordsInvNext, PTL DEF RecordsSpec

\* The records keep their types: the list of saved workspaces never holds one
\* twice, nor one that has not been created, through every restoration that is
\* overtaken, abandoned or cut off by a reload.
THEOREM RecordsTypeCorrect == RecordsSpec => []RecordsTypeOK
<1>1. RecordsInv => RecordsTypeOK
  BY DEF RecordsInv, RecordTypes
<1>2. QED
  BY <1>1, RecordsHold, PTL

\* Any number of workspaces, bundles and restorations at once: the record of a
\* workspace that is not mixed up binds what the user has loaded in it, no less
\* and no more; and a workspace once mixed up never reaches into another.
THEOREM BindingsStayOwn == RecordsSpec => []BindingsAreOwn
<1>1. RecordsInv => BindingsAreOwn
  BY DEF RecordsInv
<1>2. QED
  BY <1>1, RecordsHold, PTL
=============================================================================
