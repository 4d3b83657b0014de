---------------------------- MODULE SteadyServer ----------------------------
(***************************************************************************)
(* What LspSession promises the studio (apps/lsp-worker/src/session.ts):   *)
(* a language server that never hibernates.  It takes the client's frames  *)
(* one by one in the order they were sent, each once and none twice; only  *)
(* what it takes changes its documents, until shutdown or the end of the   *)
(* connection ends the session; and it answers what it has taken.          *)
(***************************************************************************)
EXTENDS Naturals, Sequences

CONSTANTS
  Doc, Text, None,
  Request,   \* the methods that are answered
  Frame,     \* what a client sends
  Fails      \* a server may fail to come up

VARIABLES
  line,   \* frames sent, not yet taken
  asked,  \* requests without an answer
  docs,   \* the documents of the server
  over    \* the session has ended

svars == <<line, asked, docs, over>>

Init == line = <<>> /\ asked = {} /\ docs = [d \in Doc |-> None] /\ over = FALSE

\* The client has one request of each method at a time.
Send(f) ==
  /\ f.m \notin asked
  /\ line' = Append(line, f)
  /\ asked' = asked \cup ({f.m} \cap Request)
  /\ UNCHANGED <<docs, over>>

Leave ==
  /\ asked' = {}
  /\ \E n \in 0..Len(line) : line' = SubSeq(line, 1, n)
  /\ UNCHANGED <<docs, over>>

\* A document nobody opened cannot be changed or closed.
Noted(f) ==
  IF f.m \in {"didOpen", "didChange", "didClose"} /\ (f.m = "didOpen" \/ docs[f.doc] # None)
    THEN [docs EXCEPT ![f.doc] = IF f.m = "didClose" THEN None ELSE f.text]
    ELSE docs

TakeNext == line # <<>> /\ line' = Tail(line)

Take ==
  /\ TakeNext
  /\ IF over \/ Head(line).m = "shutdown"
       THEN over' = TRUE /\ docs' = [d \in Doc |-> None]
       ELSE UNCHANGED over /\ docs' = Noted(Head(line))
  /\ UNCHANGED asked

\* A server that did not come up answers with an error and notes nothing.
Refuse ==
  /\ Fails /\ TakeNext
  /\ asked' = asked \ {Head(line).m}
  /\ UNCHANGED <<docs, over>>

\* The result of initialize makes the client send initialized.
Answer(m) ==
  /\ m \in asked /\ \A i \in DOMAIN line : line[i].m # m
  /\ asked' = asked \ {m}
  /\ line' \in {line} \cup IF m = "initialize" THEN {Append(line, [m |-> "initialized"])} ELSE {}
  /\ UNCHANGED <<docs, over>>

End == over' = TRUE /\ docs' = [d \in Doc |-> None] /\ UNCHANGED <<line, asked>>

Next ==
  \/ \E f \in Frame : Send(f)
  \/ \E m \in Request : Answer(m)
  \/ Leave \/ Take \/ Refuse \/ End

Spec == Init /\ [][Next]_svars
=============================================================================
