----------------------------- MODULE MCGitSync -----------------------------
(* Two edits on each side, the first two of them on the same lines. *)
EXTENDS GitSync, TLC

CONSTANTS m1, m2, t1, t2

ClashingPair == {{m1, t1}}
NoClash == {}
=============================================================================
