------------------------ MODULE MCWorkspaceOwnership ------------------------
(* Bounds on what the users of the tabs do, for TLC. *)
EXTENDS WorkspaceOwnership

Bounds(claims, takeovers, releases, closes) ==
  [op \in Op |-> CASE op = "claim" -> claims [] op = "takeover" -> takeovers
                   [] op = "release" -> releases [] op = "close" -> closes]

DuelOps == Bounds(3, 1, 1, 1)
RaceOps == Bounds(3, 0, 0, 0)
=============================================================================
