--------------------------- MODULE MCLspSession ---------------------------
(* A small instance of LspSession: two documents, two texts.               *)
EXTENDS LspSession

CONSTANTS d1, d2, a, b, none, unparsed
=============================================================================
