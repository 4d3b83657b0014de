------------------------- MODULE WorkspaceOwnership -------------------------
(***************************************************************************)
(* Cross-tab single-writer coordination over a BroadcastChannel            *)
(* (apps/studio/src/services/multi-tab-broadcast.ts, class                 *)
(* WorkspaceOwnership), for one workspace: the class keys every map by     *)
(* wsId, so workspaces never interact.                                     *)
(*                                                                         *)
(* A tab is named by its tabId.  Ids are compared with `<`, so they are    *)
(* taken from Nat; only their order matters.  One handler or one           *)
(* synchronous stretch of code between two awaits is one action: the       *)
(* continuation of `await` runs as a microtask of the task that resolved   *)
(* the promise, so no message is handled in between.                       *)
(***************************************************************************)
EXTENDS Naturals, Sequences

CONSTANTS
  Tab,      \* tab ids
  Call,     \* claim() calls one tab may have outstanding at the same time
  NoTab,    \* "no peer"
  NoCall,   \* "no resolver registered"
  Timely,   \* TRUE: a claim window outlasts the round trip of its claim
  MaxOps    \* how often users claim, take over, release and close in total

Op == {"claim", "takeover", "release", "close"}

ASSUME TabsAreOrdered == Tab \subseteq Nat /\ NoTab \notin Tab
ASSUME CallsAreNamed == NoCall \notin Call
ASSUME TimelyIsBoolean == Timely \in BOOLEAN
ASSUME OpsAreBounded == MaxOps \in [Op -> Nat]

VARIABLES
  life,      \* "unborn", "open" or "gone": the page of the tab
  owned,     \* this.owned.has(wsId)
  claiming,  \* this.claiming.has(wsId)
  pending,   \* the claim() call whose resolver is in this.pendingClaims
  timers,    \* claim() calls whose timer is armed: their promise is open
  peer,      \* this.peers.get(wsId)
  chan,      \* chan[s][r]: messages posted by s that r has not handled yet
  left       \* operations the users may still start (bounded by MaxOps)

vars == <<life, owned, claiming, pending, timers, peer, chan, left>>

MsgType == {"claim", "claim-deny", "takeover", "release"}

(***************************************************************************)
(* The tabId / ownerTabId field of a message is its sender, the row of     *)
(* chan it is in.  `answers` is not in the code: it remembers whose claim  *)
(* a claim-deny replies to, and only Timely and the invariants read it;    *)
(* every tab handles every claim-deny it gets.                             *)
(***************************************************************************)
Msg ==
  [type : MsgType \ {"claim-deny"}, answers : {NoTab}] \cup
  [type : {"claim-deny"}, answers : Tab]

\* Slip: the sender puts itself where only a claim-deny has an addressee.
NoteUnsigned(kind) == [type |-> kind, answers |-> NoCall]

Note(kind) == [type |-> kind, answers |-> NoTab]
Deny(s) == [type |-> "claim-deny", answers |-> s]

Has(seq, m) == \E i \in 1 .. Len(seq) : seq[i] = m

TypeOK ==
  /\ life \in [Tab -> {"unborn", "open", "gone"}]
  /\ owned \in [Tab -> BOOLEAN]
  /\ claiming \in [Tab -> BOOLEAN]
  /\ pending \in [Tab -> Call \cup {NoCall}]
  /\ timers \in [Tab -> SUBSET Call]
  /\ peer \in [Tab -> Tab \cup {NoTab}]
  /\ chan \in [Tab -> [Tab -> Seq(Msg)]]
  /\ left \in [Op -> Nat]

Init ==
  /\ life = [t \in Tab |-> "unborn"]
  /\ owned = [t \in Tab |-> FALSE]
  /\ claiming = [t \in Tab |-> FALSE]
  /\ pending = [t \in Tab |-> NoCall]
  /\ timers = [t \in Tab |-> {}]
  /\ peer = [t \in Tab |-> NoTab]
  /\ chan = [s \in Tab |-> [r \in Tab |-> <<>>]]
  /\ left = MaxOps

-----------------------------------------------------------------------------
(* The channel: a message goes to every other open page, in posting order. *)

Post(c, s, m) ==
  [c EXCEPT ![s] = [r \in Tab |-> IF r # s /\ life[r] = "open"
                                    THEN Append(c[s][r], m)
                                    ELSE c[s][r]]]

Spend(op) ==
  /\ left[op] > 0
  /\ left' = [left EXCEPT ![op] = @ - 1]

(***************************************************************************)
(* When the window of t's claim closes in a timely run, every peer has     *)
(* handled the claim and every denial of it has arrived.                   *)
(***************************************************************************)
ClaimOnWay(t, r) == Has(chan[t][r], Note("claim"))
DenialOnWay(r, t) == Has(chan[r][t], Deny(t))
Deposed(s, r) == Has(chan[s][r], Note("takeover"))

RoundTripDone(t) ==
  \A r \in Tab \ {t} : ~ClaimOnWay(t, r) /\ ~DenialOnWay(r, t)

-----------------------------------------------------------------------------
(* What the user and the page's life cycle do.                             *)

Boot(t) ==
  /\ life[t] = "unborn"
  /\ life' = [life EXCEPT ![t] = "open"]
  /\ UNCHANGED <<owned, claiming, pending, timers, peer, chan, left>>

\* claim() up to its await.  A second call overwrites the resolver of the
\* first one, whose timer stays armed.
Claim(t, c) ==
  /\ life[t] = "open"
  /\ c \notin timers[t]
  /\ Spend("claim")
  /\ claiming' = [claiming EXCEPT ![t] = TRUE]
  /\ chan' = Post(chan, t, Note("claim"))
  /\ timers' = [timers EXCEPT ![t] = @ \cup {c}]
  /\ pending' = [pending EXCEPT ![t] = c]
  /\ UNCHANGED <<life, owned, peer>>

\* The timer of call c fires and claim() returns true.  The timer deletes
\* the registered resolver, whichever call registered it.
ClaimTimeout(t, c) ==
  /\ c \in timers[t]
  /\ Timely => RoundTripDone(t)
  /\ timers' = [timers EXCEPT ![t] = @ \ {c}]
  /\ pending' = [pending EXCEPT ![t] = NoCall]
  /\ claiming' = [claiming EXCEPT ![t] = FALSE]
  /\ owned' = [owned EXCEPT ![t] = TRUE]
  /\ peer' = [peer EXCEPT ![t] = NoTab]
  /\ UNCHANGED <<life, chan, left>>

\* Slip: the takeover is announced, but the tab never marks itself as owner.
TakeoverForgetsOwned(t) ==
  /\ life[t] = "open"
  /\ Spend("takeover")
  /\ chan' = Post(chan, t, Note("takeover"))
  /\ peer' = [peer EXCEPT ![t] = NoTab]
  /\ UNCHANGED <<life, owned, claiming, pending, timers>>

\* Slip: the tab marks itself as owner without announcing it.
TakeoverSilent(t) ==
  /\ life[t] = "open"
  /\ Spend("takeover")
  /\ owned' = [owned EXCEPT ![t] = TRUE]
  /\ peer' = [peer EXCEPT ![t] = NoTab]
  /\ UNCHANGED <<life, claiming, pending, timers, chan>>

Takeover(t) ==
  /\ life[t] = "open"
  /\ Spend("takeover")
  /\ chan' = Post(chan, t, Note("takeover"))
  /\ owned' = [owned EXCEPT ![t] = TRUE]
  /\ peer' = [peer EXCEPT ![t] = NoTab]
  /\ UNCHANGED <<life, claiming, pending, timers>>

Release(t) ==
  /\ life[t] = "open"
  /\ owned[t]
  /\ Spend("release")
  /\ owned' = [owned EXCEPT ![t] = FALSE]
  /\ chan' = Post(chan, t, Note("release"))
  /\ UNCHANGED <<life, claiming, pending, timers, peer>>

\* close() on tab unload, or the page just dies: nothing is announced, what
\* the tab posted before still arrives, what was sent to it is dropped.
Close(t) ==
  /\ life[t] = "open"
  /\ Spend("close")
  /\ life' = [life EXCEPT ![t] = "gone"]
  /\ owned' = [owned EXCEPT ![t] = FALSE]
  /\ claiming' = [claiming EXCEPT ![t] = FALSE]
  /\ pending' = [pending EXCEPT ![t] = NoCall]
  /\ timers' = [timers EXCEPT ![t] = {}]
  /\ peer' = [peer EXCEPT ![t] = NoTab]
  /\ chan' = [s \in Tab |-> [chan[s] EXCEPT ![t] = <<>>]]

-----------------------------------------------------------------------------
(* onMessage, one action per message type: tab r handles a message of s.   *)

Take(s, r) == [chan EXCEPT ![s][r] = Tail(@)]

Incoming(s, r, kind) ==
  /\ life[r] = "open"
  /\ chan[s][r] # <<>>
  /\ Head(chan[s][r]).type = kind

\* Slips: a claimant yields to every claim; an owner forgets to deny.
DeniesAsOwnerOnly(r, s) == owned[r]
DeniesAsClaimantOnly(r, s) == claiming[r] /\ r < s

\* An owner denies; of two claimants the smaller id does.
Denies(r, s) == owned[r] \/ (claiming[r] /\ r < s)

\* Slips: `this.claiming.delete` is missed; `clearTimeout` is missed.
GiveUpStaysClaiming(r, winner) ==
  /\ pending' = [pending EXCEPT ![r] = NoCall]
  /\ timers' = [timers EXCEPT ![r] = @ \ {pending[r]}]
  /\ peer' = [peer EXCEPT ![r] = IF pending[r] = NoCall THEN @ ELSE winner]
  /\ UNCHANGED claiming
\* A claimant that is told of a larger right gives up: its registered
\* resolver runs and claim() returns false.
GiveUp(r, winner) ==
  /\ pending' = [pending EXCEPT ![r] = NoCall]
  /\ timers' = [timers EXCEPT ![r] = @ \ {pending[r]}]
  /\ claiming' = [claiming EXCEPT ![r] = @ /\ pending[r] = NoCall]
  /\ peer' = [peer EXCEPT ![r] = IF pending[r] = NoCall THEN @ ELSE winner]

ReceiveClaim(s, r) ==
  /\ Incoming(s, r, "claim")
  /\ \/ /\ Denies(r, s)
        /\ chan' = Post(Take(s, r), r, Deny(s))
        /\ UNCHANGED <<claiming, pending, timers, peer>>
     \/ /\ ~Denies(r, s)
        /\ claiming[r]
        /\ chan' = Take(s, r)
        /\ GiveUp(r, s)
     \/ /\ ~Denies(r, s)
        /\ ~claiming[r]
        /\ chan' = Take(s, r)
        /\ UNCHANGED <<claiming, pending, timers, peer>>
  /\ UNCHANGED <<life, owned, left>>

ReceiveDeny(s, r) ==
  /\ Incoming(s, r, "claim-deny")
  /\ chan' = Take(s, r)
  /\ GiveUp(r, s)
  /\ UNCHANGED <<life, owned, left>>

\* An owner steps down and remembers who took over; a pending claim loses.
ReceiveTakeover(s, r) ==
  /\ Incoming(s, r, "takeover")
  /\ chan' = Take(s, r)
  /\ owned' = [owned EXCEPT ![r] = FALSE]
  /\ pending' = [pending EXCEPT ![r] = NoCall]
  /\ timers' = [timers EXCEPT ![r] = @ \ {pending[r]}]
  /\ claiming' = [claiming EXCEPT ![r] = @ /\ pending[r] = NoCall]
  /\ peer' = [peer EXCEPT ![r] = IF owned[r] \/ pending[r] # NoCall THEN s ELSE @]
  /\ UNCHANGED <<life, left>>

ReceiveRelease(s, r) ==
  /\ Incoming(s, r, "release")
  /\ chan' = Take(s, r)
  /\ peer' = [peer EXCEPT ![r] = IF @ = s THEN NoTab ELSE @]
  /\ UNCHANGED <<life, owned, claiming, pending, timers, left>>

Receive(s, r) ==
  ReceiveClaim(s, r) \/ ReceiveDeny(s, r) \/ ReceiveTakeover(s, r) \/ ReceiveRelease(s, r)

Next ==
  \/ \E t \in Tab : Boot(t) \/ Takeover(t) \/ Release(t) \/ Close(t)
  \/ \E t \in Tab, c \in Call : Claim(t, c) \/ ClaimTimeout(t, c)
  \/ \E s, r \in Tab : Receive(s, r)

Spec == Init /\ [][Next]_vars

\* The browser delivers posted messages and fires armed timers; users and
\* pages are free to stop.
Fairness ==
  /\ \A s, r \in Tab : WF_vars(Receive(s, r))
  /\ \A t \in Tab, c \in Call : WF_vars(ClaimTimeout(t, c))

FairSpec == Spec /\ Fairness

-----------------------------------------------------------------------------
(* Properties. *)

(***************************************************************************)
(* "At most one returns true from claim()" (header comment of the class):  *)
(* two tabs own the workspace only while a takeover by one of them is on   *)
(* its way to the other.                                                   *)
(***************************************************************************)
AtMostOneOwner ==
  \A s, r \in Tab : s # r /\ owned[s] /\ owned[r] => Deposed(s, r) \/ Deposed(r, s)

\* An owner and a claimant: the claim, its denial or a takeover is on its way.
OwnerWillAnswer ==
  \A t, r \in Tab : t # r /\ claiming[t] /\ owned[r] =>
     ClaimOnWay(t, r) \/ DenialOnWay(r, t) \/ Deposed(r, t)

\* Two claimants: a claim or a denial between them is on its way.
TiebreakPending ==
  \A t, r \in Tab : t # r /\ claiming[t] /\ claiming[r] =>
     \/ ClaimOnWay(t, r) \/ ClaimOnWay(r, t)
     \/ DenialOnWay(t, r) \/ DenialOnWay(r, t)

(***************************************************************************)
(* Both tabs reach the same conclusion: a claim never goes on undisturbed  *)
(* beside an owner or beside another claim - the message that will end one *)
(* of them is already on its way.                                          *)
(***************************************************************************)
NoClaimUnopposed == OwnerWillAnswer /\ TiebreakPending

\* A claim() call is in exactly one place: its timer is armed, its resolver
\* registered and the tab marked as claiming, or none of these; a page that is
\* not open holds nothing and is sent nothing.
ClaimIsWhole ==
  \A t \in Tab :
    /\ timers[t] = IF pending[t] = NoCall THEN {} ELSE {pending[t]}
    /\ claiming[t] <=> pending[t] # NoCall
    /\ life[t] # "open" => /\ ~owned[t]
                           /\ ~claiming[t]
                           /\ \A s \in Tab : chan[s][t] = <<>>

\* The inductive invariant behind AtMostOneOwner.
IInv ==
  /\ TypeOK
  /\ ClaimIsWhole
  /\ AtMostOneOwner
  /\ OwnerWillAnswer
  /\ TiebreakPending

(***************************************************************************)
(* The tiebreak elects somebody: unless a tab releases or its page goes, a *)
(* contested workspace gets an owner.                                      *)
(***************************************************************************)
NobodyLeft == left["release"] = MaxOps["release"] /\ \A t \in Tab : life[t] # "gone"

ContestHasWinner ==
  (\E t \in Tab : claiming[t]) ~> (~NobodyLeft \/ \E t \in Tab : owned[t])

(***************************************************************************)
(* Ownership changes hands without a gap: one takeover never leaves the    *)
(* workspace without an owner; only a release or a closing page does.      *)
(* (Two takeovers that cross do: each deposes the other.)                  *)
(***************************************************************************)
HandoverWithoutGap ==
  [][(\E t \in Tab : owned[t]) /\ NobodyLeft' => \E t \in Tab : owned'[t]]_vars

(***************************************************************************)
(* The protocol implements the single-writer promise.                      *)
(***************************************************************************)
SW == INSTANCE SingleWriter WITH
        holders <- {t \in Tab : owned[t]},
        notices <- {n \in Tab \X Tab : Deposed(n[1], n[2])}

SingleWriterSpec == SW!Spec

=============================================================================
