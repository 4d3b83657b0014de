------------------------- MODULE MCWorkspaceFiles -------------------------
(* A small instance of WorkspaceFiles: two model files, one other file of  *)
(* the repository, one text to type, one call whose promise is followed.   *)
EXTENDS WorkspaceFiles

CONSTANTS p, q, readme, x, theirs, me, anyone
=============================================================================
