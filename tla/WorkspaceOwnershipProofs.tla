---------------------- MODULE WorkspaceOwnershipProofs ----------------------
(***************************************************************************)
(* Proofs about WorkspaceOwnership for any set of tabs.  The assumptions   *)
(* are those under which the protocol keeps its word: Timely (a claim's    *)
(* window outlasts its round trip), OneCall (a tab does not call claim()   *)
(* while its previous call is still open), and for handing over that       *)
(* takeovers do not cross (OneTakeover).                                   *)
(***************************************************************************)
EXTENDS WorkspaceOwnership, TLAPS

OneCall == \A c, d \in Call : c = d

-----------------------------------------------------------------------------
(* Queues. *)

(* What Has says after a message is appended. *)
LEMMA HasAppend ==
  ASSUME NEW S, NEW seq \in Seq(S), NEW x \in S, NEW m
  PROVE  Has(Append(seq, x), m) <=> Has(seq, m) \/ x = m
<1>1. /\ Len(Append(seq, x)) = Len(seq) + 1
      /\ Len(seq) \in Nat
      /\ \A i \in 1 .. Len(seq) : Append(seq, x)[i] = seq[i]
      /\ Append(seq, x)[Len(seq) + 1] = x
  OBVIOUS
<1>2. ASSUME Has(seq, m) PROVE Has(Append(seq, x), m)
  BY <1>1, <1>2 DEF Has
<1>3. ASSUME x = m PROVE Has(Append(seq, x), m)
  BY <1>1, <1>3 DEF Has
<1>4. ASSUME Has(Append(seq, x), m) PROVE Has(seq, m) \/ x = m
  <2>1. PICK i \in 1 .. Len(Append(seq, x)) : Append(seq, x)[i] = m
    BY <1>4 DEF Has
  <2>2. CASE i = Len(seq) + 1
    BY <2>1, <2>2, <1>1
  <2>3. CASE i \in 1 .. Len(seq)
    BY <2>1, <2>3, <1>1 DEF Has
  <2>4. QED
    BY <2>1, <2>2, <2>3, <1>1
<1>5. QED
  BY <1>2, <1>3, <1>4

(* What Has says of the rest of a queue once its head is taken. *)
LEMMA HasTail ==
  ASSUME NEW S, NEW seq \in Seq(S), seq # <<>>, NEW m
  PROVE  Has(seq, m) <=> Head(seq) = m \/ Has(Tail(seq), m)
<1>1. /\ Len(seq) \in Nat \ {0}
      /\ Len(Tail(seq)) = Len(seq) - 1
      /\ Head(seq) = seq[1]
      /\ \A i \in 1 .. Len(seq) - 1 : Tail(seq)[i] = seq[i + 1]
  OBVIOUS
<1>2. ASSUME Has(Tail(seq), m) PROVE Has(seq, m)
  <2>1. PICK i \in 1 .. Len(seq) - 1 : Tail(seq)[i] = m
    BY <1>1, <1>2 DEF Has
  <2>2. seq[i + 1] = m /\ i + 1 \in 1 .. Len(seq)
    BY <1>1, <2>1
  <2>3. QED
    BY <2>2 DEF Has
<1>3. ASSUME Head(seq) = m PROVE Has(seq, m)
  BY <1>1, <1>3 DEF Has
<1>4. ASSUME Has(seq, m) PROVE Head(seq) = m \/ Has(Tail(seq), m)
  <2>1. PICK i \in 1 .. Len(seq) : seq[i] = m
    BY <1>4 DEF Has
  <2>2. CASE i = 1
    BY <1>1, <2>1, <2>2
  <2>3. CASE i # 1
    <3>1. i - 1 \in 1 .. Len(seq) - 1 /\ Tail(seq)[i - 1] = m
      BY <1>1, <2>1, <2>3
    <3>2. QED
      BY <3>1, <1>1 DEF Has
  <2>4. QED
    BY <2>2, <2>3
<1>5. QED
  BY <1>2, <1>3, <1>4

(* The messages of the protocol are messages, and tell apart. *)
LEMMA Messages ==
  /\ \A k \in MsgType \ {"claim-deny"} : Note(k) \in Msg
  /\ \A t \in Tab : Deny(t) \in Msg
  /\ \A t \in Tab : Note("claim") # Deny(t) /\ Note("takeover") # Deny(t)
  /\ Note("claim") # Note("takeover")
  /\ Note("release") # Note("takeover") /\ Note("release") # Note("claim")
  /\ \A t \in Tab : Note("release") # Deny(t)
  /\ \A s, t \in Tab : Deny(s) = Deny(t) => s = t
BY DEF Note, Deny, Msg, MsgType

(* Posting keeps the queues well typed.                                    *)
LEMMA PostType ==
  ASSUME NEW c \in [Tab -> [Tab -> Seq(Msg)]], NEW s \in Tab, NEW m \in Msg
  PROVE  Post(c, s, m) \in [Tab -> [Tab -> Seq(Msg)]]
<1>1. \A a, b \in Tab : c[a][b] \in Seq(Msg) /\ Append(c[a][b], m) \in Seq(Msg)
  OBVIOUS
<1>2. QED
  BY <1>1 DEF Post

(* Posting m by s puts m into the queues of the other open tabs ...        *)
LEMMA PostAdds ==
  ASSUME NEW c \in [Tab -> [Tab -> Seq(Msg)]], NEW s \in Tab, NEW m \in Msg,
         NEW a \in Tab, NEW b \in Tab
  PROVE  Has(Post(c, s, m)[a][b], m) <=>
            Has(c[a][b], m) \/ (a = s /\ b # s /\ life[b] = "open")
<1>1. Has(Append(c[a][b], m), m) <=> Has(c[a][b], m) \/ m = m
  BY HasAppend
<1>2. QED
  BY <1>1 DEF Post

(* ... and changes nothing about any other message.                        *)
LEMMA PostKeeps ==
  ASSUME NEW c \in [Tab -> [Tab -> Seq(Msg)]], NEW s \in Tab, NEW m \in Msg,
         NEW a \in Tab, NEW b \in Tab, NEW x \in Msg, x # m
  PROVE  Has(Post(c, s, m)[a][b], x) <=> Has(c[a][b], x)
<1>1. Has(Append(c[a][b], m), x) <=> Has(c[a][b], x) \/ m = x
  BY HasAppend
<1>2. QED
  BY <1>1 DEF Post

(* Handling a message removes it from its queue: the queues stay typed ... *)
LEMMA TakeType ==
  ASSUME NEW s \in Tab, NEW r \in Tab, TypeOK, chan[s][r] # <<>>
  PROVE  /\ Take(s, r) \in [Tab -> [Tab -> Seq(Msg)]]
         /\ \A a, b \in Tab : b # r => Take(s, r)[a][b] = chan[a][b]
         /\ Head(chan[s][r]) \in Msg
<1>1. chan[s][r] \in Seq(Msg) /\ Tail(chan[s][r]) \in Seq(Msg) /\ Head(chan[s][r]) \in Msg
  BY DEF TypeOK
<1>2. QED
  BY <1>1 DEF Take, TypeOK

(* ... and any message but the handled one is where it was.                *)
LEMMA TakeKeeps ==
  ASSUME NEW s \in Tab, NEW r \in Tab, TypeOK, chan[s][r] # <<>>,
         NEW a \in Tab, NEW b \in Tab, NEW x \in Msg,
         a # s \/ b # r \/ x # Head(chan[s][r])
  PROVE  Has(Take(s, r)[a][b], x) <=> Has(chan[a][b], x)
<1>1. chan[s][r] \in Seq(Msg)
  BY DEF TypeOK
<1>2. Take(s, r)[a][b] = IF a = s /\ b = r THEN Tail(chan[a][b]) ELSE chan[a][b]
  BY DEF Take, TypeOK
<1>3. Has(chan[s][r], x) <=> Head(chan[s][r]) = x \/ Has(Tail(chan[s][r]), x)
  BY <1>1, HasTail
<1>4. QED
  BY <1>2, <1>3

-----------------------------------------------------------------------------
(* Types. *)

(* Giving a claim up keeps the types of what it changes. *)
LEMMA GiveUpTypes ==
  ASSUME TypeOK, NEW r \in Tab, NEW s \in Tab, GiveUp(r, s)
  PROVE  /\ pending' \in [Tab -> Call \cup {NoCall}]
         /\ timers' \in [Tab -> SUBSET Call]
         /\ claiming' \in [Tab -> BOOLEAN]
         /\ peer' \in [Tab -> Tab \cup {NoTab}]
<1>1. claiming' \in [Tab -> BOOLEAN]
  BY DEF TypeOK, GiveUp
<1>2. QED
  BY <1>1 DEF TypeOK, GiveUp

(* Every step keeps the types. *)
LEMMA TypeStep == TypeOK /\ [Next]_vars => TypeOK'
<1> SUFFICES ASSUME TypeOK, [Next]_vars PROVE TypeOK'
  OBVIOUS
<1>1. ASSUME NEW t \in Tab, Boot(t) PROVE TypeOK'
  BY <1>1 DEF TypeOK, Boot
<1>2. ASSUME NEW t \in Tab, Takeover(t) PROVE TypeOK'
  <2>1. chan' \in [Tab -> [Tab -> Seq(Msg)]]
    BY <1>2, PostType, Messages DEF Takeover, TypeOK, MsgType
  <2>2. QED
    BY <1>2, <2>1 DEF TypeOK, Takeover, Spend, Op
<1>3. ASSUME NEW t \in Tab, Release(t) PROVE TypeOK'
  <2>1. chan' \in [Tab -> [Tab -> Seq(Msg)]]
    BY <1>3, PostType, Messages DEF Release, TypeOK, MsgType
  <2>2. QED
    BY <1>3, <2>1 DEF TypeOK, Release, Spend, Op
<1>4. ASSUME NEW t \in Tab, Close(t) PROVE TypeOK'
  <2>1. chan' \in [Tab -> [Tab -> Seq(Msg)]]
    BY <1>4 DEF Close, TypeOK
  <2>2. QED
    BY <1>4, <2>1 DEF TypeOK, Close, Spend, Op
<1>5. ASSUME NEW t \in Tab, NEW c \in Call, Claim(t, c) PROVE TypeOK'
  <2>1. chan' \in [Tab -> [Tab -> Seq(Msg)]]
    BY <1>5, PostType, Messages DEF Claim, TypeOK, MsgType
  <2>2. QED
    BY <1>5, <2>1 DEF TypeOK, Claim, Spend, Op
<1>6. ASSUME NEW t \in Tab, NEW c \in Call, ClaimTimeout(t, c) PROVE TypeOK'
  BY <1>6 DEF TypeOK, ClaimTimeout
<1>7. ASSUME NEW s \in Tab, NEW r \in Tab, Receive(s, r) PROVE TypeOK'
  <2>1. chan[s][r] # <<>>
    BY <1>7 DEF Receive, ReceiveClaim, ReceiveDeny, ReceiveTakeover, ReceiveRelease, Incoming
  <2>2. Take(s, r) \in [Tab -> [Tab -> Seq(Msg)]]
    BY <2>1, TakeType
  <2>3. CASE ReceiveClaim(s, r)
    <3>1. Post(Take(s, r), r, Deny(s)) \in [Tab -> [Tab -> Seq(Msg)]]
      BY <2>2, PostType, Messages
    <3>2. chan' \in [Tab -> [Tab -> Seq(Msg)]]
      BY <2>2, <2>3, <3>1 DEF ReceiveClaim
    <3>3. CASE GiveUp(r, s)
      BY <2>3, <3>2, <3>3, GiveUpTypes DEF TypeOK, ReceiveClaim
    <3>4. CASE UNCHANGED <<claiming, pending, timers, peer>>
      BY <2>3, <3>2, <3>4 DEF TypeOK, ReceiveClaim
    <3>5. QED
      BY <2>3, <3>3, <3>4 DEF ReceiveClaim
  <2>4. CASE ReceiveDeny(s, r)
    <3>1. GiveUp(r, s) /\ chan' \in [Tab -> [Tab -> Seq(Msg)]]
      BY <2>2, <2>4 DEF ReceiveDeny
    <3>2. QED
      BY <2>4, <3>1, GiveUpTypes DEF TypeOK, ReceiveDeny
  <2>5. CASE ReceiveTakeover(s, r)
    BY <2>2, <2>5 DEF TypeOK, ReceiveTakeover
  <2>6. CASE ReceiveRelease(s, r)
    BY <2>2, <2>6 DEF TypeOK, ReceiveRelease
  <2>7. QED
    BY <1>7, <2>3, <2>4, <2>5, <2>6 DEF Receive
<1>8. CASE UNCHANGED vars
  BY <1>8 DEF TypeOK, vars
<1>9. QED
  BY <1>1, <1>2, <1>3, <1>4, <1>5, <1>6, <1>7, <1>8 DEF Next

(* The initial state is of the right types. *)
LEMMA TypeInit == Init => TypeOK
BY OpsAreBounded DEF Init, TypeOK

(***************************************************************************)
(* Every variable keeps its type in every behaviour of the protocol.       *)
(***************************************************************************)
THEOREM TypeCorrect == Spec => []TypeOK
BY TypeInit, TypeStep, PTL DEF Spec

-----------------------------------------------------------------------------
(* Mutual exclusion. *)

(* What is on its way after a step, in terms of the queues after it. *)
LEMMA OnWayNext ==
  \A a, b \in Tab :
    /\ ClaimOnWay(a, b)' <=> Has(chan'[a][b], Note("claim"))
    /\ DenialOnWay(a, b)' <=> Has(chan'[a][b], Deny(b))
    /\ Deposed(a, b)' <=> Has(chan'[a][b], Note("takeover"))
BY DEF ClaimOnWay, DenialOnWay, Deposed, Has, Note, Deny

Pairwise == AtMostOneOwner /\ OwnerWillAnswer /\ TiebreakPending

(***************************************************************************)
(* A step that changes none of owned, claiming and the messages of the     *)
(* protocol between two different tabs, other than by adding some or by    *)
(* clearing owned and claiming, keeps the pairwise invariants.             *)
(***************************************************************************)
LEMMA Weakening ==
  ASSUME TypeOK, Pairwise,
         \A t \in Tab : (owned'[t] => owned[t]) /\ (claiming'[t] => claiming[t]),
         \A a, b \in Tab : (owned'[a] \/ claiming'[a]) /\ (owned'[b] \/ claiming'[b]) =>
            /\ ClaimOnWay(a, b) => ClaimOnWay(a, b)'
            /\ DenialOnWay(a, b) => DenialOnWay(a, b)'
            /\ Deposed(a, b) => Deposed(a, b)'
  PROVE  Pairwise'
BY DEF Pairwise, AtMostOneOwner, OwnerWillAnswer, TiebreakPending

(* A claim joins the contest: its message is on the way to every other tab *)
(* that is open.                                                           *)
LEMMA ClaimStep ==
  ASSUME TypeOK, ClaimIsWhole, Pairwise, NEW t \in Tab, NEW c \in Call, Claim(t, c)
  PROVE  Pairwise'
<1>1. /\ \A a, b \in Tab : ClaimOnWay(a, b)' <=>
            ClaimOnWay(a, b) \/ (a = t /\ b # t /\ life[b] = "open")
      /\ \A a, b \in Tab : DenialOnWay(a, b)' <=> DenialOnWay(a, b)
      /\ \A a, b \in Tab : Deposed(a, b)' <=> Deposed(a, b)
  <2>1. chan' = Post(chan, t, Note("claim")) /\ chan \in [Tab -> [Tab -> Seq(Msg)]]
    BY DEF Claim, TypeOK
  <2>2. /\ Note("claim") \in Msg /\ Note("takeover") \in Msg
        /\ \A b \in Tab : Deny(b) \in Msg
    BY Messages DEF MsgType
  <2>3. ASSUME NEW a \in Tab, NEW b \in Tab
        PROVE  /\ Has(chan'[a][b], Note("claim")) <=>
                    ClaimOnWay(a, b) \/ (a = t /\ b # t /\ life[b] = "open")
               /\ Has(chan'[a][b], Deny(b)) <=> DenialOnWay(a, b)
               /\ Has(chan'[a][b], Note("takeover")) <=>
                    Deposed(a, b)
    <3>1. Has(Post(chan, t, Note("claim"))[a][b], Note("claim")) <=>
            Has(chan[a][b], Note("claim")) \/ (a = t /\ b # t /\ life[b] = "open")
      BY <2>1, <2>2, PostAdds
    <3>2. Note("takeover") # Note("claim") /\ Deny(b) # Note("claim")
      BY Messages
    <3>3. Has(Post(chan, t, Note("claim"))[a][b], Note("takeover")) <=> Has(chan[a][b], Note("takeover"))
      BY <2>1, <2>2, <3>2, PostKeeps
    <3>4. Has(Post(chan, t, Note("claim"))[a][b], Deny(b)) <=> Has(chan[a][b], Deny(b))
      BY <2>1, <2>2, <3>2, PostKeeps
    <3>5. QED
      BY <2>1, <3>1, <3>3, <3>4 DEF ClaimOnWay, DenialOnWay, Deposed
  <2>4. QED
    BY <2>3, OnWayNext
<1>2. /\ owned' = owned
      /\ \A a \in Tab : claiming'[a] => claiming[a] \/ a = t
  BY DEF Claim, TypeOK
<1>3. \A a \in Tab : owned[a] \/ claiming[a] => life[a] = "open"
  BY DEF ClaimIsWhole, TypeOK
<1>4. AtMostOneOwner'
  BY <1>1, <1>2 DEF Pairwise, AtMostOneOwner
<1>5. OwnerWillAnswer'
  BY <1>1, <1>2, <1>3 DEF Pairwise, OwnerWillAnswer
<1>6. TiebreakPending'
  BY <1>1, <1>2, <1>3 DEF Pairwise, TiebreakPending
<1>7. QED
  BY <1>4, <1>5, <1>6 DEF Pairwise

(* A takeover tells every other open tab. *)
LEMMA TakeoverStep ==
  ASSUME TypeOK, ClaimIsWhole, Pairwise, NEW t \in Tab, Takeover(t)
  PROVE  Pairwise'
<1>1. /\ \A a, b \in Tab : ClaimOnWay(a, b)' <=> ClaimOnWay(a, b)
      /\ \A a, b \in Tab : DenialOnWay(a, b)' <=> DenialOnWay(a, b)
      /\ \A a, b \in Tab : Deposed(a, b)' <=>
            Deposed(a, b) \/ (a = t /\ b # t /\ life[b] = "open")
  <2>1. chan' = Post(chan, t, Note("takeover")) /\ chan \in [Tab -> [Tab -> Seq(Msg)]]
    BY DEF Takeover, TypeOK
  <2>2. /\ Note("claim") \in Msg /\ Note("takeover") \in Msg
        /\ \A b \in Tab : Deny(b) \in Msg
    BY Messages DEF MsgType
  <2>3. ASSUME NEW a \in Tab, NEW b \in Tab
        PROVE  /\ Has(chan'[a][b], Note("claim")) <=>
                    ClaimOnWay(a, b)
               /\ Has(chan'[a][b], Deny(b)) <=> DenialOnWay(a, b)
               /\ Has(chan'[a][b], Note("takeover")) <=>
                    Deposed(a, b) \/ (a = t /\ b # t /\ life[b] = "open")
    <3>1. Has(Post(chan, t, Note("takeover"))[a][b], Note("takeover")) <=>
            Has(chan[a][b], Note("takeover")) \/ (a = t /\ b # t /\ life[b] = "open")
      BY <2>1, <2>2, PostAdds
    <3>2. Note("claim") # Note("takeover") /\ Deny(b) # Note("takeover")
      BY Messages
    <3>3. Has(Post(chan, t, Note("takeover"))[a][b], Note("claim")) <=> Has(chan[a][b], Note("claim"))
      BY <2>1, <2>2, <3>2, PostKeeps
    <3>4. Has(Post(chan, t, Note("takeover"))[a][b], Deny(b)) <=> Has(chan[a][b], Deny(b))
      BY <2>1, <2>2, <3>2, PostKeeps
    <3>5. QED
      BY <2>1, <3>1, <3>3, <3>4 DEF ClaimOnWay, DenialOnWay, Deposed
  <2>4. QED
    BY <2>3, OnWayNext
<1>2. /\ claiming' = claiming
      /\ \A a \in Tab : owned'[a] => owned[a] \/ a = t
  BY DEF Takeover, TypeOK
<1>3. \A a \in Tab : owned[a] \/ claiming[a] => life[a] = "open"
  BY DEF ClaimIsWhole, TypeOK
<1>4. AtMostOneOwner'
  BY <1>1, <1>2, <1>3 DEF Pairwise, AtMostOneOwner
<1>5. OwnerWillAnswer'
  BY <1>1, <1>2, <1>3 DEF Pairwise, OwnerWillAnswer
<1>6. TiebreakPending'
  BY <1>1, <1>2 DEF Pairwise, TiebreakPending
<1>7. QED
  BY <1>4, <1>5, <1>6 DEF Pairwise

(* A claim that is granted in a timely run met no owner and no claimant    *)
(* that will not hear of it.                                               *)
LEMMA TimeoutStep ==
  ASSUME Timely, TypeOK, ClaimIsWhole, Pairwise,
         NEW t \in Tab, NEW c \in Call, ClaimTimeout(t, c)
  PROVE  Pairwise'
<1>1. /\ \A a, b \in Tab : ClaimOnWay(a, b)' <=> ClaimOnWay(a, b)
      /\ \A a, b \in Tab : DenialOnWay(a, b)' <=> DenialOnWay(a, b)
      /\ \A a, b \in Tab : Deposed(a, b)' <=> Deposed(a, b)
  BY DEF ClaimTimeout, ClaimOnWay, DenialOnWay, Deposed
<1>2. /\ \A a \in Tab : owned'[a] => owned[a] \/ a = t
      /\ \A a \in Tab : claiming'[a] => claiming[a] /\ a # t
  BY DEF ClaimTimeout, TypeOK
<1>3. claiming[t]
  BY DEF ClaimTimeout, ClaimIsWhole
<1>4. \A r \in Tab \ {t} : ~ClaimOnWay(t, r) /\ ~DenialOnWay(r, t)
  BY DEF ClaimTimeout, RoundTripDone
<1>5. AtMostOneOwner'
  BY <1>1, <1>2, <1>3, <1>4 DEF Pairwise, AtMostOneOwner, OwnerWillAnswer
<1>6. OwnerWillAnswer'
  BY <1>1, <1>2, <1>3, <1>4 DEF Pairwise, OwnerWillAnswer, TiebreakPending
<1>7. TiebreakPending'
  BY <1>1, <1>2 DEF Pairwise, TiebreakPending
<1>8. QED
  BY <1>5, <1>6, <1>7 DEF Pairwise

(* A released tab, or one whose page goes, leaves the others as they were. *)
LEMMA LeaveStep ==
  ASSUME TypeOK, ClaimIsWhole, Pairwise, NEW t \in Tab, Release(t) \/ Close(t)
  PROVE  Pairwise'
<1>1. CASE Release(t)
  <2>1. chan' = Post(chan, t, Note("release")) /\ chan \in [Tab -> [Tab -> Seq(Msg)]]
    BY <1>1 DEF Release, TypeOK
  <2>2. /\ Note("release") \in Msg /\ Note("claim") \in Msg /\ Note("takeover") \in Msg
        /\ \A b \in Tab : Deny(b) \in Msg
    BY Messages DEF MsgType
  <2>3. ASSUME NEW a \in Tab, NEW b \in Tab
        PROVE  /\ Has(chan'[a][b], Note("claim")) <=> ClaimOnWay(a, b)
               /\ Has(chan'[a][b], Deny(b)) <=> DenialOnWay(a, b)
               /\ Has(chan'[a][b], Note("takeover")) <=> Deposed(a, b)
    <3>1. /\ Note("claim") # Note("release") /\ Note("takeover") # Note("release")
          /\ Deny(b) # Note("release")
      BY Messages
    <3>2. Has(chan'[a][b], Note("claim")) <=> ClaimOnWay(a, b)
      BY <2>1, <2>2, <3>1, PostKeeps DEF ClaimOnWay
    <3>3. Has(chan'[a][b], Deny(b)) <=> DenialOnWay(a, b)
      BY <2>1, <2>2, <3>1, PostKeeps DEF DenialOnWay
    <3>4. Has(chan'[a][b], Note("takeover")) <=> Deposed(a, b)
      BY <2>1, <2>2, <3>1, PostKeeps DEF Deposed
    <3>5. QED
      BY <3>2, <3>3, <3>4
  <2>4. \A a \in Tab : (owned'[a] => owned[a]) /\ (claiming'[a] => claiming[a])
    BY <1>1 DEF Release, TypeOK
  <2>5. QED
    BY <2>3, <2>4, OnWayNext, Weakening
<1>2. CASE Close(t)
  <2>1. \A a, b \in Tab : b # t => chan'[a][b] = chan[a][b]
    BY <1>2 DEF Close, TypeOK
  <2>2. \A a \in Tab : /\ owned'[a] => owned[a] /\ a # t
                       /\ claiming'[a] => claiming[a] /\ a # t
    BY <1>2 DEF Close, TypeOK
  <2>3. \A a, b \in Tab : b # t =>
            /\ ClaimOnWay(a, b)' <=> ClaimOnWay(a, b)
            /\ DenialOnWay(a, b)' <=> DenialOnWay(a, b)
            /\ Deposed(a, b)' <=> Deposed(a, b)
    BY <2>1, OnWayNext DEF ClaimOnWay, DenialOnWay, Deposed
  <2>4. QED
    BY <2>2, <2>3, Weakening
<1>3. QED
  BY <1>1, <1>2

(* What is on its way after tab r has taken a message of s off its queue.  *)
LEMMA TakeOnWay ==
  ASSUME TypeOK, NEW s \in Tab, NEW r \in Tab, chan[s][r] # <<>>, NEW a \in Tab, NEW b \in Tab
  PROVE  /\ a # s \/ b # r \/ Head(chan[s][r]).type # "claim" =>
              (Has(Take(s, r)[a][b], Note("claim")) <=> ClaimOnWay(a, b))
         /\ a # s \/ b # r \/ Head(chan[s][r]).type # "claim-deny" =>
              (Has(Take(s, r)[a][b], Deny(b)) <=> DenialOnWay(a, b))
         /\ a # s \/ b # r \/ Head(chan[s][r]).type # "takeover" =>
              (Has(Take(s, r)[a][b], Note("takeover")) <=> Deposed(a, b))
<1>1. /\ Note("claim") \in Msg /\ Note("takeover") \in Msg /\ Deny(b) \in Msg
      /\ Note("claim").type = "claim" /\ Note("takeover").type = "takeover"
      /\ Deny(b).type = "claim-deny"
  BY DEF Note, Deny, Msg, MsgType
<1>2. ASSUME a # s \/ b # r \/ Head(chan[s][r]).type # "claim"
      PROVE  Has(Take(s, r)[a][b], Note("claim")) <=> ClaimOnWay(a, b)
  <2>1. a # s \/ b # r \/ Note("claim") # Head(chan[s][r])
    BY <1>1, <1>2
  <2>2. QED
    BY <1>1, <2>1, TakeKeeps DEF ClaimOnWay
<1>3. ASSUME a # s \/ b # r \/ Head(chan[s][r]).type # "claim-deny"
      PROVE  Has(Take(s, r)[a][b], Deny(b)) <=> DenialOnWay(a, b)
  <2>1. a # s \/ b # r \/ Deny(b) # Head(chan[s][r])
    BY <1>1, <1>3
  <2>2. QED
    BY <1>1, <2>1, TakeKeeps DEF DenialOnWay
<1>4. ASSUME a # s \/ b # r \/ Head(chan[s][r]).type # "takeover"
      PROVE  Has(Take(s, r)[a][b], Note("takeover")) <=> Deposed(a, b)
  <2>1. a # s \/ b # r \/ Note("takeover") # Head(chan[s][r])
    BY <1>1, <1>4
  <2>2. QED
    BY <1>1, <2>1, TakeKeeps DEF Deposed
<1>5. QED
  BY <1>2, <1>3, <1>4

(* Handling a claim: an owner, or the smaller of two claimants, answers;   *)
(* the larger claimant gives up.                                           *)
LEMMA ReceiveClaimStep ==
  ASSUME TypeOK, ClaimIsWhole, Pairwise, NEW s \in Tab, NEW r \in Tab, ReceiveClaim(s, r)
  PROVE  Pairwise'
<1>1. /\ chan[s][r] # <<>> /\ Head(chan[s][r]).type = "claim"
      /\ owned' = owned
      /\ Take(s, r) \in [Tab -> [Tab -> Seq(Msg)]]
  BY TakeType DEF ReceiveClaim, Incoming
<1>2. /\ Note("claim") \in Msg /\ Note("takeover") \in Msg
      /\ \A t \in Tab : Deny(t) \in Msg
  BY Messages DEF MsgType
<1>3. CASE Denies(r, s) /\ chan' = Post(Take(s, r), r, Deny(s)) /\ UNCHANGED claiming
  <2>1. ASSUME NEW a \in Tab, NEW b \in Tab
        PROVE  /\ (a # s \/ b # r) /\ ClaimOnWay(a, b) => Has(chan'[a][b], Note("claim"))
               /\ DenialOnWay(a, b) => Has(chan'[a][b], Deny(b))
               /\ Deposed(a, b) => Has(chan'[a][b], Note("takeover"))
    <3>1. Note("claim") # Deny(s) /\ Note("takeover") # Deny(s)
      BY Messages
    <3>2. Has(chan'[a][b], Note("claim")) <=> Has(Take(s, r)[a][b], Note("claim"))
      BY <1>1, <1>2, <1>3, <3>1, PostKeeps
    <3>3. Has(chan'[a][b], Note("takeover")) <=> Has(Take(s, r)[a][b], Note("takeover"))
      BY <1>1, <1>2, <1>3, <3>1, PostKeeps
    <3>4. Has(Take(s, r)[a][b], Deny(b)) => Has(chan'[a][b], Deny(b))
      <4>1. CASE Deny(b) = Deny(s)
        BY <1>1, <1>2, <1>3, <4>1, PostAdds
      <4>2. CASE Deny(b) # Deny(s)
        BY <1>1, <1>2, <1>3, <4>2, PostKeeps
      <4>3. QED
        BY <4>1, <4>2
    <3>5. QED
      BY <1>1, <3>2, <3>3, <3>4, TakeOnWay
  <2>2. s # r /\ life[s] = "open" => Has(chan'[r][s], Deny(s))
    BY <1>1, <1>2, <1>3, PostAdds
  <2>3. \A a \in Tab : owned[a] \/ claiming[a] => life[a] = "open"
    BY DEF ClaimIsWhole, TypeOK
  <2>4. claiming' = claiming
    BY <1>3
  <2>5. AtMostOneOwner'
    BY <1>1, <2>1, OnWayNext DEF Pairwise, AtMostOneOwner
  <2>6. OwnerWillAnswer'
    BY <1>1, <2>1, <2>2, <2>3, <2>4, OnWayNext DEF Pairwise, OwnerWillAnswer
  <2>7. TiebreakPending'
    BY <1>1, <2>1, <2>2, <2>3, <2>4, OnWayNext DEF Pairwise, TiebreakPending
  <2>8. QED
    BY <2>5, <2>6, <2>7 DEF Pairwise
<1>4. CASE ~Denies(r, s) /\ chan' = Take(s, r)
  <2>1. \A a, b \in Tab :
           /\ (a # s \/ b # r) /\ ClaimOnWay(a, b) => ClaimOnWay(a, b)'
           /\ DenialOnWay(a, b) => DenialOnWay(a, b)'
           /\ Deposed(a, b) => Deposed(a, b)'
    BY <1>1, <1>4, TakeOnWay, OnWayNext
  <2>2. \A a \in Tab : claiming'[a] => claiming[a] /\ a # r
    <3>1. CASE claiming[r] /\ GiveUp(r, s)
      BY <3>1 DEF GiveUp, ClaimIsWhole, TypeOK
    <3>2. CASE ~claiming[r] /\ UNCHANGED claiming
      BY <3>2
    <3>3. QED
      BY <1>4, <3>1, <3>2 DEF ReceiveClaim
  <2>3. ~owned[r]
    BY <1>4 DEF Denies
  <2>4. AtMostOneOwner'
    BY <1>1, <2>1 DEF Pairwise, AtMostOneOwner
  <2>5. OwnerWillAnswer'
    BY <1>1, <2>1, <2>2, <2>3 DEF Pairwise, OwnerWillAnswer
  <2>6. TiebreakPending'
    BY <1>1, <2>1, <2>2 DEF Pairwise, TiebreakPending
  <2>7. QED
    BY <2>4, <2>5, <2>6 DEF Pairwise
<1>5. QED
  BY <1>3, <1>4 DEF ReceiveClaim

(* Handling a denial, a takeover or a release: whoever handles it stops    *)
(* claiming if it was a denial or a takeover, and owning if a takeover.    *)
LEMMA ReceiveOtherStep ==
  ASSUME TypeOK, ClaimIsWhole, Pairwise, NEW s \in Tab, NEW r \in Tab,
         ReceiveDeny(s, r) \/ ReceiveTakeover(s, r) \/ ReceiveRelease(s, r)
  PROVE  Pairwise'
<1>1. chan[s][r] # <<>> /\ chan' = Take(s, r)
  BY DEF ReceiveDeny, ReceiveTakeover, ReceiveRelease, Incoming
<1>2. CASE ReceiveDeny(s, r)
  <2>1. Head(chan[s][r]).type = "claim-deny" /\ owned' = owned
    BY <1>2 DEF ReceiveDeny, Incoming
  <2>2. \A a \in Tab : claiming'[a] => claiming[a] /\ a # r
    BY <1>2 DEF ReceiveDeny, GiveUp, ClaimIsWhole, TypeOK
  <2>3. \A a, b \in Tab :
           /\ ClaimOnWay(a, b) => ClaimOnWay(a, b)'
           /\ (a # s \/ b # r) /\ DenialOnWay(a, b) => DenialOnWay(a, b)'
           /\ Deposed(a, b) => Deposed(a, b)'
    BY <1>1, <2>1, TakeOnWay, OnWayNext
  <2>4. AtMostOneOwner'
    BY <2>1, <2>3 DEF Pairwise, AtMostOneOwner
  <2>5. OwnerWillAnswer'
    BY <2>1, <2>2, <2>3 DEF Pairwise, OwnerWillAnswer
  <2>6. TiebreakPending'
    BY <2>2, <2>3 DEF Pairwise, TiebreakPending
  <2>7. QED
    BY <2>4, <2>5, <2>6 DEF Pairwise
<1>3. CASE ReceiveTakeover(s, r)
  <2>1. Head(chan[s][r]).type = "takeover"
    BY <1>3 DEF ReceiveTakeover, Incoming
  <2>2. \A a \in Tab : /\ owned'[a] => owned[a] /\ a # r
                       /\ claiming'[a] => claiming[a] /\ a # r
    BY <1>3 DEF ReceiveTakeover, ClaimIsWhole, TypeOK
  <2>3. \A a, b \in Tab :
           /\ ClaimOnWay(a, b) => ClaimOnWay(a, b)'
           /\ DenialOnWay(a, b) => DenialOnWay(a, b)'
           /\ (a # s \/ b # r) /\ Deposed(a, b) => Deposed(a, b)'
    BY <1>1, <2>1, TakeOnWay, OnWayNext
  <2>4. QED
    BY <2>2, <2>3, Weakening
<1>4. CASE ReceiveRelease(s, r)
  <2>1. /\ Head(chan[s][r]).type = "release"
        /\ owned' = owned /\ claiming' = claiming
    BY <1>4 DEF ReceiveRelease, Incoming
  <2>2. \A a, b \in Tab :
           /\ ClaimOnWay(a, b) => ClaimOnWay(a, b)'
           /\ DenialOnWay(a, b) => DenialOnWay(a, b)'
           /\ Deposed(a, b) => Deposed(a, b)'
    BY <1>1, <2>1, TakeOnWay, OnWayNext
  <2>3. QED
    BY <2>1, <2>2, Weakening
<1>5. QED
  BY <1>2, <1>3, <1>4

(* With one call at a time a claim stays in one piece.                     *)
LEMMA WholeStep ==
  ASSUME OneCall, TypeOK, ClaimIsWhole, [Next]_vars
  PROVE  ClaimIsWhole'
<1>1. ASSUME NEW t \in Tab, Boot(t) PROVE ClaimIsWhole'
  BY <1>1 DEF ClaimIsWhole, Boot, TypeOK
<1>2. ASSUME NEW t \in Tab, Takeover(t) \/ Release(t) PROVE ClaimIsWhole'
  <2>1. PICK m \in Msg : chan' = Post(chan, t, m)
    BY <1>2, Messages DEF Takeover, Release, MsgType
  <2>2. chan \in [Tab -> [Tab -> Seq(Msg)]]
    BY DEF TypeOK
  <2>3. \A a, b \in Tab : life[b] # "open" => chan'[a][b] = chan[a][b]
    BY <2>1, <2>2 DEF Post
  <2>4. /\ life' = life /\ timers' = timers /\ pending' = pending /\ claiming' = claiming
        /\ \A a \in Tab : owned'[a] => owned[a] \/ life[a] = "open"
    BY <1>2 DEF Takeover, Release, TypeOK
  <2>5. QED
    BY <2>3, <2>4 DEF ClaimIsWhole
<1>3. ASSUME NEW t \in Tab, Close(t) PROVE ClaimIsWhole'
  BY <1>3 DEF ClaimIsWhole, Close, TypeOK
<1>4. ASSUME NEW t \in Tab, NEW c \in Call, Claim(t, c) PROVE ClaimIsWhole'
  <2>1. chan' = Post(chan, t, Note("claim")) /\ Note("claim") \in Msg
    BY <1>4, Messages DEF Claim, MsgType
  <2>2. \A a, b \in Tab : life[b] # "open" => chan'[a][b] = chan[a][b]
    BY <2>1 DEF Post, TypeOK
  <2>3. timers[t] = {} /\ c # NoCall
    BY <1>4, CallsAreNamed DEF Claim, ClaimIsWhole, OneCall, TypeOK
  <2>4. /\ life' = life /\ owned' = owned /\ life[t] = "open"
        /\ \A a \in Tab : /\ timers'[a] = IF a = t THEN {c} ELSE timers[a]
                          /\ pending'[a] = IF a = t THEN c ELSE pending[a]
                          /\ claiming'[a] = IF a = t THEN TRUE ELSE claiming[a]
    BY <1>4, <2>3 DEF Claim, TypeOK
  <2>5. ASSUME NEW a \in Tab
        PROVE  /\ timers'[a] = IF pending'[a] = NoCall THEN {} ELSE {pending'[a]}
               /\ claiming'[a] <=> pending'[a] # NoCall
    BY <2>3, <2>4 DEF ClaimIsWhole
  <2>6. ASSUME NEW a \in Tab, life'[a] # "open"
        PROVE  ~owned'[a] /\ ~claiming'[a] /\ \A s \in Tab : chan'[s][a] = <<>>
    <3>1. /\ a # t /\ life[a] # "open"
          /\ owned'[a] = owned[a] /\ claiming'[a] = claiming[a]
      BY <2>4, <2>6
    <3>2. \A s \in Tab : chan'[s][a] = chan[s][a]
      BY <2>2, <3>1
    <3>3. ~owned[a] /\ ~claiming[a] /\ \A s \in Tab : chan[s][a] = <<>>
      BY <3>1 DEF ClaimIsWhole
    <3>4. QED
      BY <3>1, <3>2, <3>3
  <2>7. QED
    BY <2>5, <2>6 DEF ClaimIsWhole
<1>5. ASSUME NEW t \in Tab, NEW c \in Call, ClaimTimeout(t, c) PROVE ClaimIsWhole'
  <2>1. timers[t] = {c} /\ life[t] = "open"
    BY <1>5 DEF ClaimTimeout, ClaimIsWhole, TypeOK
  <2>2. QED
    BY <1>5, <2>1 DEF ClaimTimeout, ClaimIsWhole, TypeOK
<1>6. ASSUME NEW s \in Tab, NEW r \in Tab, Receive(s, r) PROVE ClaimIsWhole'
  <2>1. life[r] = "open" /\ chan[s][r] # <<>>
    BY <1>6 DEF Receive, ReceiveClaim, ReceiveDeny, ReceiveTakeover, ReceiveRelease, Incoming
  <2>2. /\ Take(s, r) \in [Tab -> [Tab -> Seq(Msg)]]
        /\ \A a, b \in Tab : b # r => Take(s, r)[a][b] = chan[a][b]
    BY <2>1, TakeType
  <2>3. chan' = Take(s, r) \/ chan' = Post(Take(s, r), r, Deny(s))
    BY <1>6 DEF Receive, ReceiveClaim, ReceiveDeny, ReceiveTakeover, ReceiveRelease
  <2>4. Deny(s) \in Msg
    BY Messages
  <2>5. \A a, b \in Tab : life[b] # "open" => chan'[a][b] = chan[a][b]
    <3>1. CASE chan' = Take(s, r)
      BY <2>1, <2>2, <3>1
    <3>2. CASE chan' = Post(Take(s, r), r, Deny(s))
      BY <2>1, <2>2, <3>2 DEF Post
    <3>3. QED
      BY <2>3, <3>1, <3>2
  <2>6. /\ life' = life
        /\ \A a \in Tab : owned'[a] => owned[a]
    BY <1>6 DEF Receive, ReceiveClaim, ReceiveDeny, ReceiveTakeover, ReceiveRelease, TypeOK
  <2>7. \A a \in Tab :
           \/ /\ timers'[a] = timers[a] /\ pending'[a] = pending[a]
              /\ claiming'[a] = claiming[a]
           \/ timers'[a] = {} /\ pending'[a] = NoCall /\ claiming'[a] = FALSE
    <3>1. CASE UNCHANGED <<claiming, pending, timers>>
      BY <3>1
    <3>2. CASE GiveUp(r, s)
      BY <3>2 DEF GiveUp, ClaimIsWhole, TypeOK
    <3>3. CASE ReceiveTakeover(s, r)
      BY <3>3 DEF ReceiveTakeover, ClaimIsWhole, TypeOK
    <3>4. QED
      BY <1>6, <3>1, <3>2, <3>3 DEF Receive, ReceiveClaim, ReceiveDeny, ReceiveRelease
  <2>8. ASSUME NEW a \in Tab
        PROVE  /\ timers'[a] = IF pending'[a] = NoCall THEN {} ELSE {pending'[a]}
               /\ claiming'[a] <=> pending'[a] # NoCall
               /\ life'[a] # "open" => ~owned'[a] /\ ~claiming'[a]
    BY <2>6, <2>7 DEF ClaimIsWhole, TypeOK
  <2>9. ASSUME NEW a \in Tab, life'[a] # "open", NEW b \in Tab PROVE chan'[b][a] = <<>>
    BY <2>5, <2>6, <2>9 DEF ClaimIsWhole
  <2>10. ClaimIsWhole'
    BY <2>8, <2>9 DEF ClaimIsWhole
  <2>11. QED
    BY <2>10
<1>7. CASE UNCHANGED vars
  BY <1>7 DEF ClaimIsWhole, vars
<1>8. QED
  BY <1>1, <1>2, <1>3, <1>4, <1>5, <1>6, <1>7 DEF Next

(* IInv is inductive.                                                      *)
LEMMA InductiveStep ==
  ASSUME Timely, OneCall, IInv, [Next]_vars
  PROVE  IInv'
<1>1. TypeOK' /\ ClaimIsWhole'
  BY TypeStep, WholeStep DEF IInv
<1>2. TypeOK /\ ClaimIsWhole /\ Pairwise
  BY DEF IInv, Pairwise
<1>3. Pairwise'
  <2>1. ASSUME NEW t \in Tab, Boot(t) PROVE Pairwise'
    BY <1>2, <2>1 DEF Boot, Pairwise, AtMostOneOwner, OwnerWillAnswer, TiebreakPending,
                      ClaimOnWay, DenialOnWay, Deposed
  <2>2. ASSUME NEW t \in Tab, Takeover(t) \/ Release(t) \/ Close(t) PROVE Pairwise'
    BY <1>2, <2>2, TakeoverStep, LeaveStep
  <2>3. ASSUME NEW t \in Tab, NEW c \in Call, Claim(t, c) \/ ClaimTimeout(t, c)
        PROVE  Pairwise'
    BY <1>2, <2>3, ClaimStep, TimeoutStep
  <2>4. ASSUME NEW s \in Tab, NEW r \in Tab, Receive(s, r) PROVE Pairwise'
    BY <1>2, <2>4, ReceiveClaimStep, ReceiveOtherStep DEF Receive
  <2>5. CASE UNCHANGED vars
    BY <1>2, <2>5 DEF vars, Pairwise, AtMostOneOwner, OwnerWillAnswer, TiebreakPending,
                      ClaimOnWay, DenialOnWay, Deposed
  <2>6. QED
    BY <2>1, <2>2, <2>3, <2>4, <2>5 DEF Next
<1>4. QED
  BY <1>1, <1>3 DEF IInv, Pairwise

(* IInv holds initially.                                                   *)
LEMMA InductiveInit == Init => IInv
BY TypeInit DEF Init, IInv, ClaimIsWhole, AtMostOneOwner, OwnerWillAnswer, TiebreakPending

(* IInv holds throughout every timely behaviour without overlapping calls. *)
LEMMA Inductive ==
  ASSUME Timely, OneCall
  PROVE  Spec => []IInv
<1>1. IInv /\ [Next]_vars => IInv'
  BY InductiveStep
<1>2. QED
  BY <1>1, InductiveInit, PTL DEF Spec

(***************************************************************************)
(* At most one tab owns the workspace, but for a tab that has not yet      *)
(* handled the takeover that deposed it.                                   *)
(***************************************************************************)
THEOREM OneOwner ==
  ASSUME Timely, OneCall
  PROVE  Spec => []AtMostOneOwner
<1>1. IInv => AtMostOneOwner
  BY DEF IInv
<1>2. QED
  BY <1>1, Inductive, PTL

(* A claim beside an owner or beside another claim is always about to be   *)
(* ended: the message is in a queue (the listener of multi-tab-broadcast). *)
THEOREM ClaimsAreContested ==
  ASSUME Timely, OneCall
  PROVE  Spec => []NoClaimUnopposed
<1>1. IInv => NoClaimUnopposed
  BY DEF IInv, NoClaimUnopposed
<1>2. QED
  BY <1>1, Inductive, PTL

-----------------------------------------------------------------------------
(* Refinement. *)

(* Only a takeover, its handling and the end of a page change which        *)
(* takeovers are on their way.                                             *)
LEMMA DeposedSame ==
  ASSUME TypeOK, NEW a \in Tab, NEW b \in Tab,
         \/ \E t \in Tab : Boot(t) \/ Release(t)
         \/ \E t \in Tab, c \in Call : Claim(t, c) \/ ClaimTimeout(t, c)
         \/ \E s, r \in Tab : ReceiveClaim(s, r) \/ ReceiveDeny(s, r) \/ ReceiveRelease(s, r)
  PROVE  Deposed(a, b)' <=> Deposed(a, b)
<1>1. /\ \A k \in {"claim", "release", "takeover"} : Note(k) \in Msg
      /\ \A t \in Tab : Deny(t) \in Msg
  BY Messages DEF MsgType
<1>2. ASSUME NEW t \in Tab, NEW m \in Msg, m # Note("takeover"), chan' = Post(chan, t, m)
      PROVE  Deposed(a, b)' <=> Deposed(a, b)
  <2>1. Has(Post(chan, t, m)[a][b], Note("takeover")) <=> Has(chan[a][b], Note("takeover"))
    BY <1>1, <1>2, PostKeeps DEF TypeOK
  <2>2. QED
    BY <1>2, <2>1, OnWayNext DEF Deposed
<1>3. ASSUME NEW s \in Tab, NEW r \in Tab,
             ReceiveClaim(s, r) \/ ReceiveDeny(s, r) \/ ReceiveRelease(s, r)
      PROVE  Deposed(a, b)' <=> Deposed(a, b)
  <2>1. chan[s][r] # <<>> /\ Head(chan[s][r]).type # "takeover"
    BY <1>3 DEF ReceiveClaim, ReceiveDeny, ReceiveRelease, Incoming
  <2>2. Has(Take(s, r)[a][b], Note("takeover")) <=> Deposed(a, b)
    BY <2>1, TakeOnWay
  <2>3. CASE chan' = Take(s, r)
    BY <2>2, <2>3, OnWayNext
  <2>4. CASE chan' = Post(Take(s, r), r, Deny(s))
    <3>1. Note("takeover") # Deny(s) /\ Take(s, r) \in [Tab -> [Tab -> Seq(Msg)]]
      BY <2>1, Messages, TakeType
    <3>2. Has(Post(Take(s, r), r, Deny(s))[a][b], Note("takeover"))
             <=> Has(Take(s, r)[a][b], Note("takeover"))
      BY <1>1, <3>1, PostKeeps
    <3>3. QED
      BY <2>2, <2>4, <3>2, OnWayNext
  <2>5. QED
    BY <1>3, <2>3, <2>4 DEF ReceiveClaim, ReceiveDeny, ReceiveRelease
<1>4. ASSUME chan' = chan PROVE Deposed(a, b)' <=> Deposed(a, b)
  BY <1>4, OnWayNext DEF Deposed
<1>5. ASSUME NEW t \in Tab, Boot(t) \/ Release(t) PROVE Deposed(a, b)' <=> Deposed(a, b)
  <2>1. Note("release") # Note("takeover")
    BY Messages
  <2>2. chan' = chan \/ chan' = Post(chan, t, Note("release"))
    BY <1>5 DEF Boot, Release
  <2>3. QED
    BY <1>1, <1>2, <1>4, <2>1, <2>2
<1>6. ASSUME NEW t \in Tab, NEW c \in Call, Claim(t, c) \/ ClaimTimeout(t, c)
      PROVE  Deposed(a, b)' <=> Deposed(a, b)
  <2>1. Note("claim") # Note("takeover")
    BY Messages
  <2>2. chan' = chan \/ chan' = Post(chan, t, Note("claim"))
    BY <1>6 DEF Claim, ClaimTimeout
  <2>3. QED
    BY <1>1, <1>2, <1>4, <2>1, <2>2
<1>7. QED
  BY <1>3, <1>5, <1>6

Holders == {t \in Tab : owned[t]}
Notices == {n \in Tab \X Tab : Deposed(n[1], n[2])}

(* Every step of the protocol is a step of SingleWriter or changes nothing *)
(* that SingleWriter sees.                                                 *)
LEMMA StepRefines ==
  ASSUME Timely, OneCall, IInv, [Next]_vars
  PROVE  [SW!Next]_(SW!swvars)
<1> USE DEF Holders, Notices
<1>1. TypeOK /\ ClaimIsWhole /\ OwnerWillAnswer
  BY DEF IInv
<1>2. SUFFICES \/ Holders' = Holders /\ Notices' = Notices
               \/ SW!Next
  BY DEF SW!swvars
<1>3. ASSUME NEW t \in Tab, Boot(t) PROVE Holders' = Holders /\ Notices' = Notices
  BY <1>1, <1>3, DeposedSame DEF Boot
<1>4. ASSUME NEW t \in Tab, NEW c \in Call, Claim(t, c)
      PROVE  Holders' = Holders /\ Notices' = Notices
  BY <1>1, <1>4, DeposedSame DEF Claim
<1>5. ASSUME NEW s \in Tab, NEW r \in Tab,
             ReceiveClaim(s, r) \/ ReceiveDeny(s, r) \/ ReceiveRelease(s, r)
      PROVE  Holders' = Holders /\ Notices' = Notices
  <2>1. owned' = owned
    BY <1>5 DEF ReceiveClaim, ReceiveDeny, ReceiveRelease
  <2>2. QED
    BY <1>1, <1>5, <2>1, DeposedSame
<1>6. CASE UNCHANGED vars
  BY <1>6 DEF vars, Deposed
<1>7. ASSUME NEW t \in Tab, NEW c \in Call, ClaimTimeout(t, c) PROVE SW!Grant(t)
  <2>1. claiming[t] /\ \A r \in Tab \ {t} : ~ClaimOnWay(t, r) /\ ~DenialOnWay(r, t)
    BY <1>1, <1>7 DEF ClaimTimeout, ClaimIsWhole, RoundTripDone
  <2>2. \A h \in Holders \ {t} : <<h, t>> \in Notices
    BY <1>1, <2>1 DEF OwnerWillAnswer
  <2>3. Holders' = Holders \cup {t}
    BY <1>1, <1>7 DEF ClaimTimeout, TypeOK
  <2>4. Notices' = Notices
    BY <1>1, <1>7, DeposedSame
  <2>5. QED
    BY <2>2, <2>3, <2>4 DEF SW!Grant
<1>8. ASSUME NEW t \in Tab, Release(t) PROVE SW!Yield(t)
  <2>1. Holders' = Holders \ {t}
    BY <1>1, <1>8 DEF Release, TypeOK
  <2>2. Notices' = Notices
    BY <1>1, <1>8, DeposedSame
  <2>3. QED
    BY <2>1, <2>2 DEF SW!Yield
<1>9. ASSUME NEW t \in Tab, Close(t) PROVE SW!Yield(t)
  <2>1. Holders' = Holders \ {t}
    BY <1>1, <1>9 DEF Close, TypeOK
  <2>2. /\ \A a, b \in Tab : b # t => chan'[a][b] = chan[a][b]
        /\ \A a \in Tab : chan'[a][t] = <<>>
    BY <1>1, <1>9 DEF Close, TypeOK
  <2>3. \A a, b \in Tab : Deposed(a, b)' <=> Deposed(a, b) /\ b # t
    BY <2>2, OnWayNext DEF Deposed, Has
  <2>4. Notices' = {n \in Notices : n[2] # t}
    BY <2>3
  <2>5. QED
    BY <2>1, <2>4 DEF SW!Yield
<1>10. ASSUME NEW t \in Tab, Takeover(t) PROVE SW!Seize(t)
  <2> DEFINE told == {r \in Tab : r # t /\ life[r] = "open"}
  <2>1. Holders' = Holders \cup {t}
    BY <1>1, <1>10 DEF Takeover, TypeOK
  <2>2. Holders \ {t} \subseteq told
    BY <1>1 DEF ClaimIsWhole, TypeOK
  <2>3. ASSUME NEW a \in Tab, NEW b \in Tab
        PROVE  Deposed(a, b)' <=> Deposed(a, b) \/ (a = t /\ b \in told)
    <3>1. chan' = Post(chan, t, Note("takeover")) /\ Note("takeover") \in Msg
      BY <1>10, Messages DEF Takeover, MsgType
    <3>2. Has(Post(chan, t, Note("takeover"))[a][b], Note("takeover")) <=>
            Has(chan[a][b], Note("takeover")) \/ (a = t /\ b # t /\ life[b] = "open")
      BY <1>1, <3>1, PostAdds DEF TypeOK
    <3>3. QED
      BY <3>1, <3>2, OnWayNext DEF Deposed
  <2>4. Notices' = Notices \cup {<<t, r>> : r \in told}
    BY <2>3
  <2>5. QED
    BY <2>1, <2>2, <2>4 DEF SW!Seize
<1>11. ASSUME NEW s \in Tab, NEW r \in Tab, ReceiveTakeover(s, r) PROVE SW!StepDown(s, r)
  <2>1. Holders' = Holders \ {r}
    BY <1>1, <1>11 DEF ReceiveTakeover, TypeOK
  <2>2. chan[s][r] # <<>> /\ Head(chan[s][r]).type = "takeover" /\ chan' = Take(s, r)
    BY <1>11 DEF ReceiveTakeover, Incoming
  <2>3. \A a, b \in Tab : a # s \/ b # r => (Deposed(a, b)' <=> Deposed(a, b))
    BY <1>1, <2>2, TakeOnWay, OnWayNext
  <2>4. Deposed(s, r)
    <3>1. Head(chan[s][r]) \in Msg /\ chan[s][r] \in Seq(Msg)
      BY <1>1, <2>2, TakeType DEF TypeOK
    <3>2. Head(chan[s][r]) = Note("takeover")
      BY <2>2, <3>1 DEF Msg, Note
    <3>3. QED
      BY <2>2, <3>1, <3>2, HasTail DEF Deposed
  <2>5. Notices' = Notices \/ Notices' = Notices \ {<<s, r>>}
    <3>1. CASE Deposed(s, r)'
      BY <2>3, <2>4, <3>1
    <3>2. CASE ~Deposed(s, r)'
      BY <2>3, <2>4, <3>2
    <3>3. QED
      BY <3>1, <3>2
  <2>6. QED
    BY <2>1, <2>4, <2>5 DEF SW!StepDown
<1>12. QED
  BY <1>3, <1>4, <1>5, <1>6, <1>7, <1>8, <1>9, <1>10, <1>11 DEF Next, Receive, SW!Next

(***************************************************************************)
(* The protocol implements the single-writer promise.                      *)
(***************************************************************************)
THEOREM ImplementsSingleWriter ==
  ASSUME Timely, OneCall
  PROVE  Spec => SingleWriterSpec
<1>1. Init => SW!Init
  BY DEF Init, SW!Init, Deposed, Has
<1>2. IInv /\ [Next]_vars => [SW!Next]_(SW!swvars)
  BY StepRefines
<1>3. QED
  BY <1>1, <1>2, Inductive, PTL DEF Spec, SingleWriterSpec, SW!Spec

-----------------------------------------------------------------------------
(* Handing over. *)

OneTakeover == MaxOps["takeover"] <= 1

\* Operations are only ever used up.  There are notices of a takeover only
\* once one was spent, all of them from one tab to others; and that tab owns
\* the workspace, unless somebody has released it or gone.
Taken ==
  /\ left["takeover"] <= MaxOps["takeover"] /\ left["release"] <= MaxOps["release"]
  /\ \A s, r \in Tab : Deposed(s, r) =>
       /\ s # r /\ left["takeover"] < MaxOps["takeover"]
       /\ \A a, b \in Tab : Deposed(a, b) => a = s
       /\ NobodyLeft => owned[s]

(* The notice a tab steps down for is one on its way; the others stay.     *)
LEMMA NoticeTaken ==
  ASSUME TypeOK, NEW s \in Tab, NEW r \in Tab, ReceiveTakeover(s, r)
  PROVE  Deposed(s, r) /\ \A a, b \in Tab : Deposed(a, b)' => Deposed(a, b)
<1>1. chan[s][r] # <<>> /\ Head(chan[s][r]).type = "takeover" /\ chan' = Take(s, r)
  BY DEF ReceiveTakeover, Incoming
<1>2. Head(chan[s][r]) \in Msg /\ chan[s][r] \in Seq(Msg)
  BY <1>1, TakeType DEF TypeOK
<1>3. Head(chan[s][r]) = Note("takeover")
  BY <1>1, <1>2 DEF Msg, Note
<1>4. Deposed(s, r)
  BY <1>1, <1>2, <1>3, HasTail DEF Deposed
<1>5. \A a, b \in Tab : a # s \/ b # r => (Deposed(a, b)' <=> Deposed(a, b))
  BY <1>1, TakeOnWay, OnWayNext
<1>6. QED
  BY <1>4, <1>5

(* Nobody has left after a step only if nobody had before, and no owner    *)
(* stepped down for a notice without another to take its place.            *)
LEMMA TakenStep ==
  ASSUME OneTakeover, TypeOK, Taken, [Next]_vars
  PROVE  /\ Taken'
         /\ (\E t \in Tab : owned[t]) /\ NobodyLeft' => \E t \in Tab : owned'[t]
<1>0. /\ MaxOps["takeover"] \in Nat /\ MaxOps["release"] \in Nat /\ MaxOps["takeover"] <= 1
      /\ left["takeover"] \in Nat /\ left["release"] \in Nat
      /\ left \in [Op -> Nat] /\ owned \in [Tab -> BOOLEAN] /\ life \in [Tab -> {"unborn", "open", "gone"}]
      /\ "takeover" \in Op /\ "release" \in Op /\ "close" \in Op /\ "claim" \in Op
  BY OpsAreBounded DEF TypeOK, OneTakeover, Op
\* Whoever owned it still does, and no notice is new.
<1> DEFINE Goal == Taken' /\ ((\E t \in Tab : owned[t]) /\ NobodyLeft' => \E t \in Tab : owned'[t])
<1>1. ASSUME left'["takeover"] <= left["takeover"], left'["release"] <= left["release"],
             left'["takeover"] \in Nat, left'["release"] \in Nat,
             \A a, b \in Tab : Deposed(a, b)' => Deposed(a, b),
             NobodyLeft' => NobodyLeft,
             NobodyLeft' => \A t \in Tab : owned[t] => owned'[t]
      PROVE  Goal
  BY <1>0, <1>1 DEF Taken
<1>2. ASSUME NEW t \in Tab, NEW c \in Call, Claim(t, c) \/ ClaimTimeout(t, c) PROVE Goal
  <2>1. \A a, b \in Tab : Deposed(a, b)' <=> Deposed(a, b)
    BY <1>2, DeposedSame
  <2>2. /\ left'["takeover"] = left["takeover"] /\ left'["release"] = left["release"]
        /\ UNCHANGED life
    BY <1>0, <1>2 DEF Claim, ClaimTimeout, Spend
  <2>3. \A u \in Tab : owned[u] => owned'[u]
    BY <1>0, <1>2 DEF Claim, ClaimTimeout
  <2>4. NobodyLeft' => NobodyLeft
    BY <2>2 DEF NobodyLeft
  <2>5. QED
    BY <1>0, <1>1, <2>1, <2>2, <2>3, <2>4
<1>3. ASSUME NEW t \in Tab, Boot(t) PROVE Goal
  <2>1. \A a, b \in Tab : Deposed(a, b)' <=> Deposed(a, b)
    BY <1>3, DeposedSame
  <2>2. UNCHANGED <<left, owned>> /\ (NobodyLeft' => NobodyLeft)
    BY <1>0, <1>3 DEF Boot, NobodyLeft
  <2>3. QED
    BY <1>0, <1>1, <2>1, <2>2
<1>4. ASSUME NEW s \in Tab, NEW r \in Tab,
             ReceiveClaim(s, r) \/ ReceiveDeny(s, r) \/ ReceiveRelease(s, r)
      PROVE  Goal
  <2>1. \A a, b \in Tab : Deposed(a, b)' <=> Deposed(a, b)
    BY <1>4, DeposedSame
  <2>2. UNCHANGED <<left, owned, life>>
    BY <1>4 DEF ReceiveClaim, ReceiveDeny, ReceiveRelease
  <2>3. NobodyLeft' => NobodyLeft
    BY <2>2 DEF NobodyLeft
  <2>4. QED
    BY <1>0, <1>1, <2>1, <2>2, <2>3
<1>5. CASE UNCHANGED vars
  <2>1. UNCHANGED <<left, owned, life, chan>>
    BY <1>5 DEF vars
  <2>2. NobodyLeft' => NobodyLeft
    BY <2>1 DEF NobodyLeft
  <2>3. \A a, b \in Tab : Deposed(a, b)' => Deposed(a, b)
    BY <2>1 DEF Deposed
  <2>4. QED
    BY <1>0, <1>1, <2>1, <2>2, <2>3
<1>6. ASSUME NEW t \in Tab, Release(t) PROVE Goal
  <2>1. \A a, b \in Tab : Deposed(a, b)' <=> Deposed(a, b)
    BY <1>6, DeposedSame
  <2>2. /\ left'["takeover"] = left["takeover"] /\ left'["release"] = left["release"] - 1
        /\ left["release"] > 0
    BY <1>0, <1>6 DEF Release, Spend
  <2>3. left["release"] <= MaxOps["release"]
    BY DEF Taken
  <2>4. ~NobodyLeft'
    BY <1>0, <2>2, <2>3 DEF NobodyLeft
  <2>5. QED
    BY <1>0, <1>1, <2>1, <2>2, <2>4
<1>7. ASSUME NEW t \in Tab, Close(t) PROVE Goal
  <2>1. life'[t] = "gone"
    BY <1>0, <1>7 DEF Close
  <2>2. ~NobodyLeft'
    BY <2>1 DEF NobodyLeft
  <2>3. left'["takeover"] = left["takeover"] /\ left'["release"] = left["release"]
    BY <1>0, <1>7 DEF Close, Spend
  <2>4. \A a, b \in Tab : Deposed(a, b)' => Deposed(a, b)
    <3>1. /\ \A a, b \in Tab : b # t => chan'[a][b] = chan[a][b]
          /\ \A a \in Tab : chan'[a][t] = <<>>
      BY <1>7 DEF Close, TypeOK
    <3>2. QED
      BY <3>1, OnWayNext DEF Deposed, Has
  <2>5. QED
    BY <1>0, <1>1, <2>2, <2>3, <2>4
\* The only takeover: no notice was on its way.
<1>8. ASSUME NEW t \in Tab, Takeover(t) PROVE Goal
  <2>1. /\ left["takeover"] > 0 /\ left'["takeover"] = left["takeover"] - 1
        /\ left'["release"] = left["release"] /\ owned'[t]
        /\ chan' = Post(chan, t, Note("takeover"))
    BY <1>0, <1>8 DEF Takeover, Spend
  <2>2. left["takeover"] <= MaxOps["takeover"] /\ left["release"] <= MaxOps["release"]
    BY DEF Taken
  <2>3. ASSUME NEW a \in Tab, NEW b \in Tab PROVE ~Deposed(a, b)
    BY <1>0, <2>1, <2>2 DEF Taken
  <2>4. ASSUME NEW a \in Tab, NEW b \in Tab, Deposed(a, b)' PROVE a = t /\ b # t
    <3>1. chan \in [Tab -> [Tab -> Seq(Msg)]] /\ Note("takeover") \in Msg
      BY Messages DEF TypeOK, MsgType
    <3>2. Has(Post(chan, t, Note("takeover"))[a][b], Note("takeover")) <=>
            Has(chan[a][b], Note("takeover")) \/ (a = t /\ b # t /\ life[b] = "open")
      BY <3>1, PostAdds
    <3>3. QED
      BY <2>1, <2>3, <2>4, <3>2, OnWayNext DEF Deposed
  <2>5. left'["takeover"] < MaxOps["takeover"] /\ left'["takeover"] <= MaxOps["takeover"]
    BY <1>0, <2>1, <2>2
  <2>6. Taken'
    BY <2>1, <2>2, <2>4, <2>5 DEF Taken
  <2>7. QED
    BY <2>1, <2>6
\* The receiver steps down, the sender owns the workspace.
<1>9. ASSUME NEW s \in Tab, NEW r \in Tab, ReceiveTakeover(s, r) PROVE Goal
  <2>1. Deposed(s, r) /\ \A a, b \in Tab : Deposed(a, b)' => Deposed(a, b)
    BY <1>9, NoticeTaken
  <2>2. UNCHANGED <<left, life>> /\ owned' = [owned EXCEPT ![r] = FALSE]
    BY <1>9 DEF ReceiveTakeover
  <2>3. NobodyLeft' => NobodyLeft
    BY <2>2 DEF NobodyLeft
  <2>4. s # r /\ (NobodyLeft => owned[s]) /\ \A a, b \in Tab : Deposed(a, b) => a = s
    BY <2>1 DEF Taken
  <2>5. NobodyLeft' => owned'[s]
    BY <1>0, <2>2, <2>3, <2>4
  <2>6. left'["takeover"] <= MaxOps["takeover"] /\ left'["release"] <= MaxOps["release"]
    BY <2>2 DEF Taken
  <2>7. ASSUME NEW a \in Tab, NEW b \in Tab, Deposed(a, b)'
        PROVE  /\ a # b /\ left'["takeover"] < MaxOps["takeover"]
               /\ \A x, y \in Tab : Deposed(x, y)' => x = a
               /\ NobodyLeft' => owned'[a]
    <3>1. Deposed(a, b) /\ a = s
      BY <2>1, <2>4, <2>7
    <3>2. a # b /\ left["takeover"] < MaxOps["takeover"]
      BY <3>1 DEF Taken
    <3>3. QED
      BY <2>1, <2>2, <2>4, <2>5, <3>1, <3>2
  <2>8. Taken'
    BY <2>6, <2>7 DEF Taken
  <2>9. QED
    BY <2>5, <2>8
<1>10. QED
  BY <1>2, <1>3, <1>4, <1>5, <1>6, <1>7, <1>8, <1>9 DEF Next, Receive

(***************************************************************************)
(* Ownership changes hands without a gap: if the users take over at most   *)
(* once, no message and no timer ever leaves an owned workspace without an *)
(* owner, in whatever order the claims, denials and notices of any number  *)
(* of tabs are handled, and also when windows close too early.  (Takeovers *)
(* that cross depose each other.)                                          *)
(***************************************************************************)
THEOREM HandsOver ==
  ASSUME OneTakeover
  PROVE  Spec => HandoverWithoutGap
<1>1. Init => Taken
  BY OpsAreBounded DEF Init, Taken, Deposed, Has, Op
<1>2. TypeOK /\ Taken /\ [Next]_vars => Taken'
  BY TakenStep
<1>3. TypeOK /\ Taken /\ [Next]_vars =>
        [(\E t \in Tab : owned[t]) /\ NobodyLeft' => \E t \in Tab : owned'[t]]_vars
  BY TakenStep
<1>4. QED
  BY <1>1, <1>2, <1>3, TypeCorrect, PTL DEF Spec, HandoverWithoutGap

=============================================================================
