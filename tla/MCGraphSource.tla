---------------------------- MODULE MCGraphSource ----------------------------
(* One file of two elements, on its own: nothing but edits and their parses. *)
EXTENDS GraphSourceSync

NoneOpaque == {}

\* Too few attributes for a parse to be refused.
FewAttributes == [e \in Elements |-> [v \in 0..MaxEdits |-> 1]]
=============================================================================
