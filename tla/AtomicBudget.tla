---------------------------- MODULE AtomicBudget ----------------------------
(***************************************************************************)
(* What RateLimiter.check promises (apps/codegen-worker/src/rate-limit.ts):*)
(* a request names the budgets it draws on once, and is then judged in one *)
(* step.  It takes one from each of them if each has one left, and nothing *)
(* from any if one is spent.                                               *)
(***************************************************************************)
EXTENDS Naturals

CONSTANTS
  Asker,   \* those who ask
  Budget,
  Room     \* how much each budget holds

VARIABLES
  spent,   \* what has been taken of each budget
  draws,   \* the budgets an asker draws on, {} before it has asked
  verdict  \* what it was told

bvars == <<spent, draws, verdict>>

Init ==
  /\ spent = [b \in Budget |-> 0]
  /\ draws = [r \in Asker |-> {}]
  /\ verdict = [r \in Asker |-> "none"]

Draw(r) ==
  /\ draws[r] = {}
  /\ draws'[r] # {} /\ draws'[r] \subseteq Budget
  /\ draws' = [draws EXCEPT ![r] = draws'[r]]
  /\ UNCHANGED <<spent, verdict>>

Waits(r) == draws[r] # {} /\ verdict[r] = "none"

Admit(r) ==
  /\ Waits(r) /\ \A b \in draws[r] : spent[b] < Room[b]
  /\ spent' = [b \in Budget |-> IF b \in draws[r] THEN spent[b] + 1 ELSE spent[b]]
  /\ verdict' = [verdict EXCEPT ![r] = "admitted"]
  /\ UNCHANGED draws

Refuse(r) ==
  /\ Waits(r) /\ \E b \in draws[r] : spent[b] >= Room[b]
  /\ verdict' = [verdict EXCEPT ![r] = "refused"]
  /\ UNCHANGED <<spent, draws>>

Next == \E r \in Asker : Draw(r) \/ Admit(r) \/ Refuse(r)

Spec == Init /\ [][Next]_bvars
=============================================================================
