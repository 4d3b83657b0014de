---------------------------- MODULE MCStudioParts ----------------------------
(* Parts that share no state, checked side by side: `part` says which one   *)
(* runs, the others stay as they start.                                     *)
EXTENDS InstanceStore, CodegenService, CodePreview, FormPreview, GraphSourceSync, WorkspaceRecords
CONSTANTS Parts, T1, T2, A, B
VARIABLE part

VisitsDef == {<<"generate", "generate", "generate">>, <<"health", "generate", "health">>}

\* T1 refers to A, and what A brings refers to B; T2 needs nothing.
NeedsDef == [t \in {T1, T2} |-> IF t = T1 THEN <<{A}, {B}>> ELSE <<>>]

\* The first edit of element 1 deletes its three attributes; element 2 always
\* has one.  Parses are taken and refused, stripped or not, and once the three
\* are gone any parse is taken.
AttributesDef == [e \in 1..Count |-> [v \in 0..MaxEdits |-> IF e # 1 THEN 1 ELSE IF v = 1 THEN 0 ELSE 3]]

\* cdm loads fpml, as in the registry.
DependsDef == [b \in {"cdm", "fpml"} |-> IF b = "cdm" THEN {"fpml"} ELSE {}]

vars == <<part, service, preview, codegen, store, roundTrip, books>>
Init == /\ part \in Parts /\ ServiceInit /\ PreviewInit /\ CodeInit
        /\ StoreInit /\ RoundTripInit /\ RecordsInit
        /\ part # "service" => asks[1] = "health"

Service == part = "service" /\ ServiceNext /\ UNCHANGED <<part, preview, codegen, store, roundTrip, books>>
Form == part = "form" /\ PreviewNext /\ UNCHANGED <<part, service, codegen, store, roundTrip, books>>
Code == part = "code" /\ CodeNext /\ UNCHANGED <<part, service, preview, store, roundTrip, books>>
\* The instances of InstanceStore.  One is enough, as instances never meet; the
\* workspaces are alike, and the first one to be opened is A.  Of three openings
\* the last is a switch, the second may be of the same workspace again.
Store == /\ part = "store" /\ StoreNext
         /\ (opens = 0 => root' # "B") /\ (opens = 2 /\ opens' = 3 => root' # root)
         /\ UNCHANGED <<part, service, preview, codegen, roundTrip, books>>
Trip == part = "trip" /\ RoundTripNext /\ UNCHANGED <<part, service, preview, codegen, store, books>>
\* The first workspace is A.  A behaviour ends when bundles are mixed up.
Records == /\ part = "records" /\ mixed = {} /\ RecordsNext /\ ("A" \in unborn => "B" \in unborn')
           /\ UNCHANGED <<part, service, preview, codegen, store, roundTrip>>
Next == Service \/ Form \/ Code \/ Store \/ Trip \/ Records

\* The parts' own machinery, never the user nor the clock.  Every request,
\* build and message is finite, so fairness of the whole is fairness of each.
Running ==
  \/ part = "service" /\ (\E r \in 1..3 : Work(r)) /\ UNCHANGED <<part, preview, codegen, store, roundTrip, books>>
  \/ part = "form" /\ Machinery /\ UNCHANGED <<part, service, codegen, store, roundTrip, books>>
  \/ part = "code" /\ Generation /\ UNCHANGED <<part, service, preview, store, roundTrip, books>>
Spec == Init /\ [][Next]_vars /\ WF_vars(Running)

\* The parts that do not run stay as they start.
TypeOK == /\ part \in Parts
          /\ part = "service" => ServiceTypeOK
          /\ part = "form" => PreviewTypeOK
          /\ part = "code" => CodeTypeOK
          /\ part = "store" => StoreTypeOK
          /\ part = "trip" => RoundTripTypeOK
          /\ part = "records" => RecordsTypeOK

\* Nobody waits for ever: a request to the service is answered, whatever the
\* challenge service, the budget and the container do; "Resolving reference..."
\* gives way to the form, to what is missing or to a warning; a question about
\* the code on view is answered, also when an edit follows it to the worker.
Waits == Waiting # {} \/ Resolving \/ Asking
EveryWaitEnds == Waits ~> ~Waits
=============================================================================
