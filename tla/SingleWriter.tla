---------------------------- MODULE SingleWriter ----------------------------
(***************************************************************************)
(* What WorkspaceOwnership promises for one workspace                      *)
(* (apps/studio/src/services/multi-tab-broadcast.ts): a tab is granted     *)
(* ownership only if no other tab holds it, and a tab that seizes it has   *)
(* told every other holder so.  A deposed holder steps down when the       *)
(* notice reaches it; takeover is "fire-and-forget by design".             *)
(***************************************************************************)
CONSTANT Tab

VARIABLES
  holders,   \* tabs that consider themselves the owner
  notices    \* <<s, r>>: s has seized ownership and r has not heard of it yet

swvars == <<holders, notices>>

Init == holders = {} /\ notices = {}

\* claim() returns true: every other holder has already deposed t, and t will
\* step down when it hears of that.
Grant(t) ==
  /\ \A h \in holders \ {t} : <<h, t>> \in notices
  /\ holders' = holders \cup {t}
  /\ UNCHANGED notices

\* takeover() reaches at least every other holder.
Seize(t) ==
  \E told \in SUBSET Tab :
    /\ holders \ {t} \subseteq told
    /\ holders' = holders \cup {t}
    /\ notices' = notices \cup {<<t, r>> : r \in told}

\* A tab releases ownership, or its page goes and with it what it was not told.
Yield(t) ==
  /\ holders' = holders \ {t}
  /\ \/ UNCHANGED notices
     \/ notices' = {n \in notices : n[2] # t}

StepDown(s, r) ==
  /\ <<s, r>> \in notices
  /\ holders' = holders \ {r}
  /\ \/ notices' = notices \ {<<s, r>>}
     \/ UNCHANGED notices

Next ==
  \/ \E t \in Tab : Grant(t) \/ Seize(t) \/ Yield(t)
  \/ \E s, r \in Tab : StepDown(s, r)

Spec == Init /\ [][Next]_swvars
=============================================================================
