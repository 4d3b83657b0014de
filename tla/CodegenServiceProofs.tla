------------------------ MODULE CodegenServiceProofs ------------------------
(***************************************************************************)
(* Proofs about CodegenService for any visits, windows, caps and clock.    *)
(***************************************************************************)
EXTENDS CodegenService, FiniteSetTheorems, TLAPS

-----------------------------------------------------------------------------
(* Types. *)

(* A window has a number no larger than the time it is asked for. *)
LEMMA Quotient ==
  ASSUME NEW t \in Nat, NEW n \in Nat \ {0}
  PROVE  t \div n \in 0..t
<1>1. t \div n \in Int /\ n * (t \div n) <= t /\ t < n * (t \div n) + n
  OBVIOUS
<1> DEFINE q == t \div n
<1>2. q \in Int /\ n * q <= t /\ t < n * q + n
  BY <1>1
<1> HIDE DEF q
<1>3. q >= 0
  <2>1. SUFFICES ASSUME q < 0 PROVE FALSE
    BY <1>2
  <2>2. q + 1 <= 0
    BY <1>2, <2>1
  <2>3. n * (q + 1) <= 0
    BY <1>2, <2>2
  <2>4. QED
    BY <1>2, <2>3
<1>4. q <= n * q
  BY <1>2, <1>3
<1>5. QED
  BY <1>2, <1>3, <1>4 DEF q

LEMMA Windows ==
  ASSUME NEW t \in Time
  PROVE  /\ Hour(t) \in Time /\ Day(t) \in Time
         /\ \A w \in Window : Index(w, t) \in Time
<1>1. t \in Nat /\ MaxTime \in Nat /\ t <= MaxTime
  BY ClockAssumption DEF Time
<1>2. Hour(t) \in 0..t
  BY <1>1, Quotient, ClockAssumption DEF Hour
<1>3. Day(t) \in 0..Hour(t)
  BY <1>1, <1>2, Quotient, ClockAssumption DEF Day
<1>4. Hour(t) \in Time /\ Day(t) \in Time
  BY <1>1, <1>2, <1>3 DEF Time
<1>5. QED
  BY <1>4 DEF Index

(* Only a request of the visit goes on, and the next record of its course    *)
(* is that of a request.                                                     *)
LEMMA RequestKind ==
  ASSUME asks \in Visits, NEW r \in DOMAIN asks
  PROVE  r \in Request /\ r \in Nat \ {0} /\ asks[r] \in Kind /\ Limits(asks[r]) \subseteq Window
BY VisitsAssumption DEF Request, Limits, Window

\* A request that is not of the visit never starts, and one that has not
\* started carries nothing.
Started ==
  \A r \in Request : /\ r \notin DOMAIN asks => At(r, "new")
                     /\ At(r, "new") => req[r] = Fresh

\* What the record of a request says fits together: it is counted between
\* "inside" and "body", answered when it is done, and a cookie is issued only
\* to who brought a token.
Coherent(j) ==
  /\ j.pc # "done" => j.answer = 0
  /\ j.pc \in {"new", "site", "ask", "queued", "inside"} => ~j.counted
  /\ j.pc \in {"body", "dispatch"} => j.counted
  /\ j.pc = "dispatch" => j.calls \in {0, 1}
  /\ j.pc \notin {"dispatch", "done"} => j.calls = 0
  /\ j.issued.gone = 0
  /\ j.issued # NoCookie => j.token
  /\ j.pc = "site" => j.token

CourseInv == ServiceTypeOK /\ Started /\ \A r \in Request : Coherent(req[r])

LEMMA CourseInit == ServiceInit => CourseInv
<1> SUFFICES ASSUME ServiceInit
             PROVE  CourseInv
  OBVIOUS
<1>1. 0 \in Time
  BY ClockAssumption DEF Time
<1>2. NoCookie \in Cookie
  BY DEF NoCookie, Cookie
<1>3. Fresh \in Course
  <2>1. Unread \in Reading /\ "new" \in Stage /\ 0 \in Status
    BY DEF Unread, Reading, Stage, Status
  <2>2. QED
    BY <1>1, <1>2, <2>1 DEF Fresh, Course
<1>4. [k \in Kind |-> [w \in Window |-> [t \in Time |-> 0]]] \in [Kind -> [Window -> [Time -> Nat]]]
  OBVIOUS
<1>5. ServiceTypeOK
  BY <1>1, <1>2, <1>3, <1>4 DEF ServiceInit, ServiceTypeOK
<1>6. \A r \in Request : req[r] = Fresh
  BY DEF ServiceInit
<1>7. Coherent(Fresh) /\ Fresh.pc = "new"
  BY DEF Coherent, Fresh, NoCookie
<1>8. QED
  BY <1>5, <1>6, <1>7 DEF CourseInv, Started, At

(* What a step makes of the request it is about. *)
LEMMA Updated ==
  ASSUME req \in [Request -> Course], NEW r \in Request, NEW n \in Course,
         req' = [req EXCEPT ![r] = n]
  PROVE  /\ req' \in [Request -> Course] /\ req'[r] = n
         /\ \A q \in Request : q # r => req'[q] = req[q]
OBVIOUS

LEMMA ArriveMoves ==
  ASSUME CourseInv, NEW r \in Request, NEW solved \in BOOLEAN, Arrive(r, solved)
  PROVE  \E n \in Course :
           /\ req' = [req EXCEPT ![r] = n] /\ r \in DOMAIN asks
           /\ n.pc \in {"ask", "site", "done"} /\ n.calls = 0 /\ ~n.counted
           /\ n.answer \in {0, 401} /\ (n.pc # "done" => n.answer = 0) /\ n.issued = NoCookie
           /\ n.pc = "site" => n.token
<1> DEFINE on == asks[r] = "health" \/ Valid(jar)
           pc == IF on THEN "ask" ELSE IF solved THEN "site" ELSE "done"
           ans == IF on \/ solved THEN 0 ELSE 401
           day == IF solved THEN Day(clock) ELSE 0
           n == [req[r] EXCEPT !.token = solved, !.day = day, !.pc = pc, !.answer = ans]
<1>1. req[r] \in Course /\ req \in [Request -> Course] /\ clock \in Time
  BY DEF CourseInv, ServiceTypeOK
<1>2. r \in DOMAIN asks /\ req[r] = Fresh
  BY DEF Arrive, CourseInv, Started
<1>3. day \in Time
  BY <1>1, Windows, ClockAssumption DEF Time
<1>4. pc \in {"ask", "site", "done"} /\ ans \in {0, 401} /\ (pc = "site" => solved) /\ (pc # "done" => ans = 0)
  OBVIOUS
<1>5. req' = [req EXCEPT ![r].token = solved, ![r].day = day, ![r].pc = pc, ![r].answer = ans]
  BY DEF Arrive
<1> HIDE DEF on, pc, ans, day
<1>6. req' = [req EXCEPT ![r] = n]
  BY <1>1, <1>5
<1>7. pc \in Stage /\ ans \in Status
  BY <1>4 DEF Stage, Status
<1>8. n \in Course
  BY <1>1, <1>3, <1>7 DEF Course
<1>9. /\ n.pc = pc /\ n.calls = 0 /\ n.counted = FALSE /\ n.answer = ans
      /\ n.issued = NoCookie /\ n.token = solved
  BY <1>2 DEF Fresh
<1> HIDE DEF n
<1>10. QED
  BY <1>2, <1>4, <1>6, <1>8, <1>9


LEMMA SiteVerifyMoves ==
  ASSUME CourseInv, NEW r \in Request, SiteVerify(r)
  PROVE  \E n \in Course :
           /\ req' = [req EXCEPT ![r] = n] /\ r \in DOMAIN asks
           /\ n.calls = 0 /\ n.token = req[r].token /\ n.counted = req[r].counted
           /\ n.at = req[r].at
           /\ \/ n.pc = "done" /\ n.answer = 401 /\ n.issued = req[r].issued
              \/ n.pc = "ask" /\ n.answer = req[r].answer /\ n.issued.gone = 0
<1>1. req[r] \in Course /\ req \in [Request -> Course] /\ clock \in Nat
  BY DEF CourseInv, ServiceTypeOK, Time
<1>2. r \in DOMAIN asks /\ req[r].calls = 0
  BY DEF SiteVerify, CourseInv, Started, Coherent, At
<1>3. CASE Answer(r, 401)
  <2> DEFINE n == [req[r] EXCEPT !.pc = "done", !.answer = 401]
  <2>1. "done" \in Stage /\ 401 \in Status
    BY DEF Stage, Status
  <2>2. n \in Course
    BY <1>1, <2>1 DEF Course
  <2>3. req' = [req EXCEPT ![r] = n]
    BY <1>1, <1>3 DEF Answer
  <2>4. /\ n.pc = "done" /\ n.answer = 401 /\ n.calls = req[r].calls /\ n.token = req[r].token
        /\ n.counted = req[r].counted /\ n.issued = req[r].issued /\ n.at = req[r].at
    BY <1>1 DEF Course
  <2> HIDE DEF n
  <2>5. QED
    BY <1>2, <2>2, <2>3, <2>4
<1>4. CASE req' = [req EXCEPT ![r].pc = "ask",
                     ![r].issued = [exp |-> clock + TicksPerHour, day |-> req[r].day, gone |-> 0]]
  <2> DEFINE c == [exp |-> clock + TicksPerHour, day |-> req[r].day, gone |-> 0]
             n == [req[r] EXCEPT !.pc = "ask", !.issued = c]
  <2>1. req[r].day \in Nat
    BY <1>1 DEF Course, Time
  <2>2. c \in Cookie /\ c.gone = 0
    BY <1>1, <2>1, ClockAssumption DEF Cookie
  <2>3. req' = [req EXCEPT ![r].pc = "ask", ![r].issued = c]
    BY <1>4
  <2> HIDE DEF c
  <2>4. "ask" \in Stage
    BY DEF Stage
  <2>5. n \in Course
    BY <1>1, <2>2, <2>4 DEF Course
  <2>6. req' = [req EXCEPT ![r] = n]
    BY <1>1, <2>3
  <2>7. /\ n.pc = "ask" /\ n.answer = req[r].answer /\ n.calls = req[r].calls
        /\ n.token = req[r].token /\ n.counted = req[r].counted /\ n.issued = c
        /\ n.at = req[r].at
    BY <1>1 DEF Course
  <2> HIDE DEF n
  <2>8. QED
    BY <1>2, <2>2, <2>5, <2>6, <2>7
<1>5. QED
  BY <1>3, <1>4 DEF SiteVerify

(* A step that only moves a request on, or ends it. *)
LEMMA Ended ==
  ASSUME CourseInv, NEW r \in Request, NEW status \in Status, Answer(r, status)
  PROVE  \E n \in Course :
           /\ req' = [req EXCEPT ![r] = n] /\ n.pc = "done" /\ n.answer = status
           /\ n.calls = req[r].calls /\ n.token = req[r].token
           /\ n.counted = req[r].counted /\ n.issued = req[r].issued /\ n.at = req[r].at
<1> DEFINE n == [req[r] EXCEPT !.pc = "done", !.answer = status]
<1>1. req[r] \in Course /\ req \in [Request -> Course] /\ "done" \in Stage
  BY DEF CourseInv, ServiceTypeOK, Stage
<1>2. n \in Course
  BY <1>1 DEF Course
<1>3. req' = [req EXCEPT ![r] = n]
  BY <1>1 DEF Answer
<1>4. /\ n.pc = "done" /\ n.answer = status /\ n.calls = req[r].calls
      /\ n.token = req[r].token
      /\ n.counted = req[r].counted /\ n.issued = req[r].issued /\ n.at = req[r].at
  BY <1>1 DEF Course
<1> HIDE DEF n
<1>5. QED
  BY <1>2, <1>3, <1>4

LEMMA GoesOn ==
  ASSUME CourseInv, NEW r \in Request, NEW l \in Stage, To(r, l)
  PROVE  \E n \in Course :
           /\ req' = [req EXCEPT ![r] = n] /\ n.pc = l /\ n.answer = req[r].answer
           /\ n.calls = req[r].calls /\ n.token = req[r].token
           /\ n.counted = req[r].counted /\ n.issued = req[r].issued /\ n.at = req[r].at
<1> DEFINE n == [req[r] EXCEPT !.pc = l]
<1>1. req[r] \in Course /\ req \in [Request -> Course]
  BY DEF CourseInv, ServiceTypeOK
<1>2. n \in Course
  BY <1>1 DEF Course
<1>3. req' = [req EXCEPT ![r] = n]
  BY <1>1 DEF To
<1>4. /\ n.pc = l /\ n.answer = req[r].answer /\ n.calls = req[r].calls
      /\ n.token = req[r].token
      /\ n.counted = req[r].counted /\ n.issued = req[r].issued /\ n.at = req[r].at
  BY <1>1 DEF Course
<1> HIDE DEF n
<1>5. QED
  BY <1>2, <1>3, <1>4

LEMMA AskMoves ==
  ASSUME CourseInv, NEW r \in Request, Ask(r)
  PROVE  \E n \in Course :
           /\ req' = [req EXCEPT ![r] = n]
           /\ n.calls = req[r].calls /\ n.token = req[r].token
           /\ n.counted = req[r].counted /\ n.issued = req[r].issued
           /\ \/ n.pc = "queued" /\ n.answer = req[r].answer
              \/ n.at = req[r].at /\ n.pc = "probe" /\ n.answer = req[r].answer
              \/ n.at = req[r].at /\ n.pc = "done" /\ n.answer = 503
<1>1. CASE req' = [req EXCEPT ![r].pc = "queued", ![r].at = clock]
  <2> DEFINE n == [req[r] EXCEPT !.pc = "queued", !.at = clock]
  <2>1. req[r] \in Course /\ req \in [Request -> Course] /\ clock \in Time /\ "queued" \in Stage
    BY DEF CourseInv, ServiceTypeOK, Stage
  <2>2. n \in Course
    BY <2>1 DEF Course
  <2>3. req' = [req EXCEPT ![r] = n]
    BY <1>1, <2>1
  <2>4. /\ n.pc = "queued" /\ n.answer = req[r].answer /\ n.calls = req[r].calls
        /\ n.token = req[r].token /\ n.counted = req[r].counted /\ n.issued = req[r].issued
    BY <2>1 DEF Course
  <2> HIDE DEF n
  <2>5. QED
    BY <2>2, <2>3, <2>4
<1>2. CASE To(r, "probe")
  <2>1. "probe" \in Stage
    BY DEF Stage
  <2>2. QED
    BY <1>2, <2>1, GoesOn
<1>3. CASE Answer(r, 503)
  <2>1. 503 \in Status
    BY DEF Status
  <2>2. QED
    BY <1>3, <2>1, Ended
<1>4. QED
  BY <1>1, <1>2, <1>3 DEF Ask

LEMMA EnterMoves ==
  ASSUME CourseInv, NEW r \in Request, Enter(r)
  PROVE  \E n \in Course :
           /\ req' = [req EXCEPT ![r] = n]
           /\ n.pc = "inside" /\ n.answer = req[r].answer
           /\ n.calls = req[r].calls /\ n.token = req[r].token
           /\ n.counted = req[r].counted /\ n.issued = req[r].issued /\ n.at = req[r].at
           /\ \A w \in Limits(asks[r]) : n.seen[w] = count[asks[r]][w][Index(w, req[r].at)]
<1> DEFINE read == [w \in Window |->
              IF w \in Limits(asks[r]) THEN count[asks[r]][w][Index(w, req[r].at)] ELSE 0]
           n == [req[r] EXCEPT !.pc = "inside", !.seen = read]
<1>1. req[r] \in Course /\ req \in [Request -> Course] /\ "inside" \in Stage
  BY DEF CourseInv, ServiceTypeOK, Stage
<1>2. asks[r] \in Kind /\ Limits(asks[r]) \subseteq Window
  BY RequestKind DEF CourseInv, ServiceTypeOK, Started, Enter, At
<1>3. req[r].at \in Time
  BY <1>1 DEF Course
<1>4. \A w \in Window : count[asks[r]][w][Index(w, req[r].at)] \in Nat
  <2>1. \A w \in Window : Index(w, req[r].at) \in Time
    BY <1>3, Windows
  <2>2. QED
    BY <1>2, <2>1 DEF CourseInv, ServiceTypeOK
<1>5. read \in Reading
  BY <1>4 DEF Reading
<1>6. \A w \in Limits(asks[r]) : read[w] = count[asks[r]][w][Index(w, req[r].at)]
  BY <1>2
<1>7. req' = [req EXCEPT ![r].pc = "inside", ![r].seen = read]
  BY DEF Enter
<1> HIDE DEF read
<1>8. n \in Course
  BY <1>1, <1>5 DEF Course
<1>9. req' = [req EXCEPT ![r] = n]
  BY <1>1, <1>7
<1>10. /\ n.pc = "inside" /\ n.answer = req[r].answer /\ n.calls = req[r].calls
       /\ n.token = req[r].token /\ n.counted = req[r].counted /\ n.issued = req[r].issued
       /\ n.at = req[r].at /\ n.seen = read
  BY <1>1 DEF Course
<1> HIDE DEF n
<1>11. QED
  BY <1>6, <1>8, <1>9, <1>10

LEMMA RefuseMoves ==
  ASSUME CourseInv, NEW r \in Request, Refuse(r)
  PROVE  \E n \in Course :
           /\ req' = [req EXCEPT ![r] = n]
           /\ n.pc = "done" /\ n.answer = 429
           /\ n.calls = req[r].calls /\ n.token = req[r].token
           /\ n.counted = req[r].counted /\ n.issued = req[r].issued /\ n.at = req[r].at
<1>1. PICK l \in Stage, status \in Status : l = "done" /\ status = 429
  BY DEF Stage, Status
<1> DEFINE n == [req[r] EXCEPT !.pc = l, !.answer = status, !.seen = Unread]
<1>2. req[r] \in Course /\ req \in [Request -> Course] /\ Unread \in Reading
  BY DEF CourseInv, ServiceTypeOK, Unread, Reading
<1>3. n \in Course
  BY <1>2 DEF Course
<1>4. req' = [req EXCEPT ![r].pc = l, ![r].answer = status, ![r].seen = Unread]
  BY <1>1 DEF Refuse
<1>5. req' = [req EXCEPT ![r] = n]
  BY <1>2, <1>4
<1>6. /\ n.pc = l /\ n.answer = status /\ n.calls = req[r].calls /\ n.token = req[r].token
      /\ n.counted = req[r].counted /\ n.issued = req[r].issued /\ n.at = req[r].at
  BY <1>2 DEF Course
<1> HIDE DEF n
<1>7. QED
  BY <1>1, <1>3, <1>5, <1>6

LEMMA AdmitMoves ==
  ASSUME CourseInv, NEW r \in Request, NEW l \in Stage,
         req' = [req EXCEPT ![r].counted = TRUE, ![r].seen = Unread, ![r].pc = l]
  PROVE  \E n \in Course :
           /\ req' = [req EXCEPT ![r] = n]
           /\ n.pc = l /\ n.answer = req[r].answer /\ n.counted
           /\ n.calls = req[r].calls /\ n.token = req[r].token
           /\ n.issued = req[r].issued /\ n.at = req[r].at
<1> DEFINE n == [req[r] EXCEPT !.counted = TRUE, !.seen = Unread, !.pc = l]
<1>1. req[r] \in Course /\ req \in [Request -> Course] /\ Unread \in Reading
  BY DEF CourseInv, ServiceTypeOK, Unread, Reading
<1>2. n \in Course
  BY <1>1 DEF Course
<1>3. req' = [req EXCEPT ![r] = n]
  BY <1>1
<1>4. /\ n.pc = l /\ n.answer = req[r].answer /\ n.calls = req[r].calls
      /\ n.token = req[r].token /\ n.counted = TRUE /\ n.issued = req[r].issued
      /\ n.at = req[r].at
  BY <1>1 DEF Course
<1> HIDE DEF n
<1>5. QED
  BY <1>2, <1>3, <1>4

(* The order in which a record is updated does not matter. *)
Calls(r, l, a) ==
  \/ req' = [req EXCEPT ![r].pc = l, ![r].answer = a, ![r].calls = @ + 1]
  \/ req' = [req EXCEPT ![r].calls = @ + 1, ![r].pc = l, ![r].answer = a]

LEMMA Called ==
  ASSUME req \in [Request -> Course], NEW r \in Request, NEW l, NEW a, Calls(r, l, a)
  PROVE  req' = [req EXCEPT ![r] = [req[r] EXCEPT !.pc = l, !.answer = a,
                                                  !.calls = req[r].calls + 1]]
<1>1. req[r] \in Course
  OBVIOUS
<1>2. CASE req' = [req EXCEPT ![r].pc = l, ![r].answer = a, ![r].calls = @ + 1]
  BY <1>2
<1>3. CASE req' = [req EXCEPT ![r].calls = @ + 1, ![r].pc = l, ![r].answer = a]
  <2>1. req' = [req EXCEPT ![r] = [req[r] EXCEPT !.calls = req[r].calls + 1,
                                                 !.pc = l, !.answer = a]]
    BY <1>3
  <2>2. [req[r] EXCEPT !.calls = req[r].calls + 1, !.pc = l, !.answer = a]
        = [req[r] EXCEPT !.pc = l, !.answer = a, !.calls = req[r].calls + 1]
    BY <1>1 DEF Course
  <2>3. QED
    BY <2>1, <2>2
<1>4. QED
  BY <1>2, <1>3 DEF Calls

LEMMA CallMoves ==
  ASSUME CourseInv, NEW r \in Request, At(r, "dispatch"), NEW l \in Stage, NEW a \in Status,
         Calls(r, l, a)
  PROVE  /\ req'[r] \in Course /\ req' = [req EXCEPT ![r] = req'[r]]
         /\ req'[r].pc = l /\ req'[r].answer = a /\ req'[r].calls = req[r].calls + 1
         /\ req'[r].counted = req[r].counted /\ req'[r].token = req[r].token
         /\ req'[r].issued = req[r].issued /\ req'[r].at = req[r].at
<1> DEFINE n == [req[r] EXCEPT !.pc = l, !.answer = a, !.calls = req[r].calls + 1]
<1>1. req[r] \in Course /\ req \in [Request -> Course] /\ req[r].calls + 1 \in 0..2
  BY DEF CourseInv, ServiceTypeOK, Coherent, At
<1>2. n \in Course
  BY <1>1 DEF Course
<1>3. req' = [req EXCEPT ![r] = n]
  BY <1>1, Called
<1>4. /\ n.pc = l /\ n.answer = a /\ n.calls = req[r].calls + 1
      /\ n.token = req[r].token /\ n.counted = req[r].counted /\ n.issued = req[r].issued
      /\ n.at = req[r].at
  BY <1>1 DEF Course
<1> HIDE DEF n
<1>5. req'[r] = n
  BY <1>1, <1>3
<1>6. QED
  BY <1>2, <1>3, <1>4, <1>5

LEMMA DispatchMoves ==
  ASSUME CourseInv, NEW r \in Request, Dispatch(r)
  PROVE  /\ req'[r] \in Course /\ req' = [req EXCEPT ![r] = req'[r]]
         /\ req'[r].counted = req[r].counted /\ req'[r].token = req[r].token
         /\ req'[r].issued = req[r].issued /\ req'[r].at = req[r].at
         /\ \/ req'[r].pc = "done" /\ req'[r].answer = 200 /\ Promote(r)
            \/ req'[r].pc = "done" /\ req'[r].answer \in {422, 502} /\ jar' = jar
            \/ req'[r].pc = "dispatch" /\ req'[r].answer = 0 /\ req'[r].calls = 1 /\ jar' = jar
<1>1. At(r, "dispatch")
  BY DEF Dispatch
<1>2. PICK l \in Stage, a \in Status :
        /\ Calls(r, l, a)
        /\ \/ l = "done" /\ a = 200 /\ Promote(r)
           \/ l = "done" /\ a \in {422, 502} /\ jar' = jar
           \/ l = "dispatch" /\ a = 0 /\ req[r].calls = 0 /\ jar' = jar
  <2>1. /\ "done" \in Stage /\ "dispatch" \in Stage
        /\ 0 \in Status /\ 200 \in Status /\ 422 \in Status /\ 502 \in Status
    BY DEF Stage, Status
  <2>2. \/ Calls(r, "done", 200) /\ Promote(r)
        \/ Calls(r, "done", 422) /\ UNCHANGED jar
        \/ Calls(r, "dispatch", 0) /\ req[r].calls = 0 /\ UNCHANGED jar
        \/ Calls(r, "done", 502) /\ UNCHANGED jar
    <3>1. CASE req[r].calls = 0
      BY <3>1 DEF Dispatch, Calls
    <3>2. CASE req[r].calls # 0
      BY <3>2 DEF Dispatch, Calls
    <3>3. QED
      BY <3>1, <3>2
  <2>3. QED
    BY <2>1, <2>2
<1>3. /\ req'[r] \in Course /\ req' = [req EXCEPT ![r] = req'[r]]
      /\ req'[r].pc = l /\ req'[r].answer = a /\ req'[r].calls = req[r].calls + 1
      /\ req'[r].counted = req[r].counted /\ req'[r].token = req[r].token
      /\ req'[r].issued = req[r].issued /\ req'[r].at = req[r].at
  BY <1>1, <1>2, CallMoves
<1>4. QED
  BY <1>2, <1>3

(* What a step makes of its request fits together again. *)
LEMMA Moved ==
  ASSUME CourseInv, NEW r \in Request,
         Work(r) \/ \E solved \in BOOLEAN : Arrive(r, solved)
  PROVE  /\ r \in DOMAIN asks /\ ~At(r, "done")
         /\ \E n \in Course : req' = [req EXCEPT ![r] = n] /\ Coherent(n) /\ n.pc # "new"
<1>1. Coherent(req[r])
  BY DEF CourseInv
<1>2. CASE \E solved \in BOOLEAN : Arrive(r, solved)
  <2>1. PICK solved \in BOOLEAN : Arrive(r, solved)
    BY <1>2
  <2>2. PICK n \in Course :
           /\ req' = [req EXCEPT ![r] = n] /\ r \in DOMAIN asks
           /\ n.pc \in {"ask", "site", "done"} /\ n.calls = 0 /\ ~n.counted
           /\ n.answer \in {0, 401} /\ (n.pc # "done" => n.answer = 0) /\ n.issued = NoCookie
           /\ n.pc = "site" => n.token
    BY <2>1, ArriveMoves
  <2>3. n.issued.gone = 0
    BY <2>2 DEF NoCookie
  <2>4. QED
    BY <2>1, <2>2, <2>3 DEF Coherent, Arrive, At
<1>3. CASE SiteVerify(r)
  BY <1>1, <1>3, SiteVerifyMoves DEF Coherent, SiteVerify, At
<1>4. ASSUME ~At(r, "new") PROVE r \in DOMAIN asks
  BY <1>4 DEF CourseInv, Started
<1>5. CASE Ask(r)
  BY <1>1, <1>4, <1>5, AskMoves DEF Coherent, Ask, At
<1>6. CASE Enter(r)
  <2>1. PICK n \in Course :
           /\ req' = [req EXCEPT ![r] = n]
           /\ n.pc = "inside" /\ n.answer = req[r].answer
           /\ n.calls = req[r].calls /\ n.token = req[r].token
           /\ n.counted = req[r].counted /\ n.issued = req[r].issued
    BY <1>6, EnterMoves
  <2>2. At(r, "queued")
    BY <1>6 DEF Enter
  <2>3. QED
    BY <1>1, <1>4, <2>1, <2>2 DEF Coherent, At
<1>7. CASE Decide(r)
  <2>1. CASE Refuse(r)
    BY <1>1, <1>4, <1>7, <2>1, RefuseMoves DEF Coherent, Decide, At
  <2>2. PICK l \in {"probe", "body"} :
           Refuse(r) \/ req' = [req EXCEPT ![r].counted = TRUE, ![r].seen = Unread, ![r].pc = l]
    BY <1>7 DEF Decide
  <2>3. l \in Stage
    BY DEF Stage
  <2>4. CASE req' = [req EXCEPT ![r].counted = TRUE, ![r].seen = Unread, ![r].pc = l]
    <3>1. PICK n \in Course :
             /\ req' = [req EXCEPT ![r] = n]
             /\ n.pc = l /\ n.answer = req[r].answer /\ n.counted
             /\ n.calls = req[r].calls /\ n.token = req[r].token
             /\ n.issued = req[r].issued /\ n.at = req[r].at
      BY <2>3, <2>4, AdmitMoves, Zenon
    <3>2. At(r, "inside")
      BY <1>7 DEF Decide
    <3>3. QED
      BY <1>1, <1>4, <2>2, <3>1, <3>2 DEF Coherent, At
  <2>5. QED
    BY <2>1, <2>2, <2>4
<1>8. CASE Body(r)
  <2>1. "dispatch" \in Stage /\ 400 \in Status
    BY DEF Stage, Status
  <2>2. CASE To(r, "dispatch")
    BY <1>1, <1>4, <1>8, <2>1, <2>2, GoesOn DEF Coherent, Body, At
  <2>3. CASE Answer(r, 400)
    BY <1>1, <1>4, <1>8, <2>1, <2>3, Ended DEF Coherent, Body, At
  <2>4. QED
    BY <1>8, <2>2, <2>3 DEF Body
<1>9. CASE Dispatch(r)
  <2>1. At(r, "dispatch") /\ r \in DOMAIN asks /\ req[r].calls \in {0, 1}
    BY <1>1, <1>4, <1>9 DEF Dispatch, At, Coherent
  <2>2. Coherent(req'[r]) /\ req'[r].pc # "new"
    BY <1>1, <1>9, <2>1, DispatchMoves DEF Coherent, At
  <2>3. QED
    BY <1>9, <2>1, <2>2, DispatchMoves DEF At
<1>10. CASE Probe(r)
  <2>1. {200, 503} \subseteq Status
    BY DEF Status
  <2>2. QED
    BY <1>1, <1>4, <1>10, <2>1, Ended DEF Coherent, Probe, At
<1>11. QED
  BY <1>2, <1>3, <1>5, <1>6, <1>7, <1>8, <1>9, <1>10 DEF Work

(* The counters of its windows go up, and no other. *)
LEMMA CountMoves ==
  ASSUME CourseInv, NEW r \in Request, r \in DOMAIN asks, CountIt(r)
  PROVE  /\ count' \in [Kind -> [Window -> [Time -> Nat]]]
         /\ \A k \in Kind, w \in Window, t \in Time :
              count'[k][w][t] =
                IF k = asks[r] /\ w \in Limits(k) /\ t = Index(w, req[r].at)
                  THEN req[r].seen[w] + 1 ELSE count[k][w][t]
<1> DEFINE a == asks[r]
           up == [w \in Window |-> IF w \in Limits(a)
                    THEN [count[a][w] EXCEPT ![Index(w, req[r].at)] = req[r].seen[w] + 1]
                    ELSE count[a][w]]
<1>1. a \in Kind /\ count \in [Kind -> [Window -> [Time -> Nat]]] /\ req[r] \in Course
  BY RequestKind DEF CourseInv, ServiceTypeOK
<1>2. req[r].at \in Time /\ req[r].seen \in Reading
  BY <1>1 DEF Course
<1>3. \A w \in Window : Index(w, req[r].at) \in Time /\ req[r].seen[w] + 1 \in Nat
  <2>1. \A w \in Window : Index(w, req[r].at) \in Time
    BY <1>2, Windows
  <2>2. QED
    BY <1>2, <2>1 DEF Reading
<1>4. \A w \in Window : count[a][w] \in [Time -> Nat]
  BY <1>1
<1>5. \A w \in Window : [count[a][w] EXCEPT ![Index(w, req[r].at)] = req[r].seen[w] + 1]
                        \in [Time -> Nat]
  BY <1>3, <1>4
<1>6. up \in [Window -> [Time -> Nat]]
  BY <1>4, <1>5
<1>7. \A w \in Window, t \in Time :
        up[w][t] = IF w \in Limits(a) /\ t = Index(w, req[r].at)
                     THEN req[r].seen[w] + 1 ELSE count[a][w][t]
  BY <1>3, <1>4
<1>8. count' = [count EXCEPT ![a] = up]
  BY DEF CountIt
<1> HIDE DEF up
<1>9. QED
  BY <1>1, <1>6, <1>7, <1>8

LEMMA PromoteType ==
  ASSUME CourseInv, NEW r \in Request, Promote(r)
  PROVE  jar' \in Cookie
<1>1. req[r].issued \in Cookie /\ jar \in Cookie /\ clock \in Nat
  BY DEF CourseInv, ServiceTypeOK, Course, Time
<1>2. clock + TicksPerHour \in Nat
  BY <1>1, ClockAssumption
<1>3. [req[r].issued EXCEPT !.gone = clock + TicksPerHour] \in Cookie
  BY <1>1, <1>2 DEF Cookie
<1>4. QED
  BY <1>1, <1>3 DEF Promote

LEMMA CourseStep ==
  ASSUME CourseInv, [ServiceNext]_service
  PROVE  CourseInv'
<1>1. /\ asks \in Visits /\ clock \in Time /\ jar \in Cookie
      /\ holder \in Request \cup {Nobody} /\ req \in [Request -> Course]
      /\ count \in [Kind -> [Window -> [Time -> Nat]]]
  BY DEF CourseInv, ServiceTypeOK
<1>2. ASSUME NEW r \in Request, Work(r) \/ \E solved \in BOOLEAN : Arrive(r, solved)
      PROVE  CourseInv'
  <2>1. PICK n \in Course : req' = [req EXCEPT ![r] = n] /\ Coherent(n) /\ n.pc # "new"
    BY <1>2, Moved
  <2>2. /\ req' \in [Request -> Course] /\ req'[r] = n
        /\ \A q \in Request : q # r => req'[q] = req[q]
    BY <1>1, <2>1
  <2>3. r \in DOMAIN asks
    BY <1>2, Moved
  <2>4. asks' = asks /\ clock' = clock
    BY <1>2 DEF Work, Arrive, SiteVerify, Ask, Enter, Decide, Body, Dispatch, Probe
  <2>5. jar' \in Cookie
    <3>1. jar' = jar \/ Dispatch(r)
      BY <1>2 DEF Work, Arrive, SiteVerify, Ask, Enter, Decide, Body, Probe
    <3>2. jar' = jar \/ Promote(r)
      BY <3>1, DispatchMoves
    <3>3. QED
      BY <1>1, <3>2, PromoteType
  <2>6. holder' \in Request \cup {Nobody}
    BY <1>1, <1>2 DEF Work, Arrive, SiteVerify, Ask, Enter, Decide, Body, Dispatch, Probe
  <2>7. count' \in [Kind -> [Window -> [Time -> Nat]]]
    <3>1. count' = count \/ CountIt(r)
      BY <1>2 DEF Work, Arrive, SiteVerify, Ask, Enter, Decide, Body, Dispatch, Probe
    <3>2. QED
      BY <1>1, <2>3, <3>1, CountMoves
  <2>8. ServiceTypeOK'
    BY <1>1, <2>2, <2>4, <2>5, <2>6, <2>7 DEF ServiceTypeOK
  <2>9. \A q \in Request : Coherent(req'[q])
    BY <2>1, <2>2 DEF CourseInv
  <2>10. Started'
    BY <2>1, <2>2, <2>3, <2>4 DEF CourseInv, Started, At
  <2>11. QED
    BY <2>8, <2>9, <2>10 DEF CourseInv
<1>3. CASE Tick
  <2>1. clock' \in Time
    BY <1>1, <1>3, ClockAssumption DEF Tick, Time
  <2>2. NoCookie \in Cookie
    BY DEF NoCookie, Cookie
  <2>3. ServiceTypeOK'
    BY <1>1, <1>3, <2>1, <2>2 DEF Tick, ServiceTypeOK
  <2>4. QED
    BY <1>3, <2>3 DEF Tick, CourseInv, Started, At
<1>4. CASE UNCHANGED service
  BY <1>4 DEF service, CourseInv, ServiceTypeOK, Started, At
<1>5. QED
  BY <1>2, <1>3, <1>4 DEF ServiceNext

(* The types hold, for any visits, windows, caps and clock: the requests of  *)
(* index.ts, the counters of RateLimiter, the cookie.                        *)
THEOREM ServiceTypeCorrect == ServiceSpec => []ServiceTypeOK
<1>1. CourseInv => ServiceTypeOK
  BY DEF CourseInv
<1>2. QED
  BY CourseInit, CourseStep, <1>1, PTL DEF ServiceSpec

-----------------------------------------------------------------------------
(* The budget. *)

\* The request in blockConcurrencyWhile, which alone is between its reads and
\* its writes, has read what the counters still say.
Locked ==
  \A r \in Request :
    /\ At(r, "inside") <=> holder = r
    /\ At(r, "inside") =>
         \A w \in Limits(asks[r]) : req[r].seen[w] = count[asks[r]][w][Index(w, req[r].at)]

\* A counter is the number of those admitted in its window, within its cap.
Exact ==
  \A k \in Kind : \A w \in Limits(k), t \in Time :
    /\ count[k][w][t] = Cardinality(Admitted(k, w, t))
    /\ count[k][w][t] <= Cap(k, w)

\* Where a request was refused, a window is full.
Deserved ==
  \A r \in Request : req[r].answer = 429 =>
    \E w \in Limits(asks[r]) : count[asks[r]][w][Index(w, req[r].at)] = Cap(asks[r], w)

BudgetInv == CourseInv /\ Locked /\ Exact /\ Deserved

LEMMA Caps == \A k \in Kind : Limits(k) \subseteq Window /\ \A w \in Window : Cap(k, w) \in Nat
BY CapAssumption DEF Limits, Window, Cap

LEMMA AdmittedFinite ==
  ASSUME CourseInv, NEW k, NEW w, NEW t
  PROVE  IsFiniteSet(Admitted(k, w, t)) /\ Cardinality(Admitted(k, w, t)) \in Nat
<1>1. asks \in Seq(Kind)
  BY VisitsAssumption DEF CourseInv, ServiceTypeOK
<1>2. DOMAIN asks = 1..Len(asks) /\ Len(asks) \in Nat
  BY <1>1
<1>3. IsFiniteSet(DOMAIN asks)
  BY <1>2, FS_Interval
<1>4. Fresh.counted = FALSE
  BY DEF Fresh
<1>5. Admitted(k, w, t) \subseteq DOMAIN asks
  BY <1>4 DEF Admitted, CourseInv, Started
<1>6. QED
  BY <1>3, <1>5, FS_Subset, FS_CardinalityType

LEMMA BudgetInit == ServiceInit => BudgetInv
<1> SUFFICES ASSUME ServiceInit
             PROVE  BudgetInv
  OBVIOUS
<1>1. CourseInv
  BY CourseInit
<1>2. \A r \in Request : req[r] = Fresh /\ r # Nobody
  BY VisitsAssumption DEF ServiceInit, Request, Nobody
<1>3. Fresh.pc = "new" /\ Fresh.counted = FALSE /\ Fresh.answer = 0
  BY DEF Fresh
<1>4. Locked
  BY <1>2, <1>3 DEF Locked, At, ServiceInit
<1>5. \A k, w, t : Admitted(k, w, t) = {}
  BY <1>2, <1>3 DEF Admitted
<1>6. Exact
  <2>1. \A k \in Kind : \A w \in Limits(k), t \in Time : count[k][w][t] = 0 /\ Cap(k, w) \in Nat
    BY Caps DEF ServiceInit
  <2>2. Cardinality({}) = 0
    BY FS_EmptySet
  <2>3. QED
    BY <1>5, <2>1, <2>2 DEF Exact
<1>7. Deserved
  BY <1>2, <1>3 DEF Deserved
<1>8. QED
  BY <1>1, <1>4, <1>6, <1>7 DEF BudgetInv

(* A step outside the object leaves the budget alone. *)
LEMMA QuietMoves ==
  ASSUME CourseInv, NEW r \in Request,
         \/ \E solved \in BOOLEAN : Arrive(r, solved)
         \/ SiteVerify(r) \/ Ask(r) \/ Body(r) \/ Dispatch(r) \/ Probe(r)
  PROVE  /\ req' = [req EXCEPT ![r] = req'[r]]
         /\ req'[r].counted <=> req[r].counted
         /\ req[r].counted => req'[r].at = req[r].at
         /\ req'[r].answer # 429 /\ ~At(r, "inside")' /\ ~At(r, "inside")
         /\ UNCHANGED <<asks, count, holder>>
<1>1. Coherent(req[r]) /\ req \in [Request -> Course]
  BY DEF CourseInv, ServiceTypeOK
<1>2. \A n : req' = [req EXCEPT ![r] = n] => req'[r] = n
  BY <1>1
<1>3. CASE \E solved \in BOOLEAN : Arrive(r, solved)
  <2>1. PICK solved \in BOOLEAN : Arrive(r, solved)
    BY <1>3
  <2>2. PICK n \in Course :
           /\ req' = [req EXCEPT ![r] = n] /\ r \in DOMAIN asks
           /\ n.pc \in {"ask", "site", "done"} /\ n.calls = 0 /\ ~n.counted
           /\ n.answer \in {0, 401} /\ (n.pc # "done" => n.answer = 0) /\ n.issued = NoCookie
           /\ n.pc = "site" => n.token
    BY <2>1, ArriveMoves
  <2>3. req[r].pc = "new"
    BY <2>1 DEF Arrive, At
  <2>4. req'[r] = n /\ ~req[r].counted
    BY <1>1, <1>2, <2>2, <2>3 DEF Coherent
  <2>5. UNCHANGED <<asks, count, holder>>
    BY <2>1 DEF Arrive
  <2>6. n.pc # "inside" /\ n.answer # 429 /\ ~n.counted /\ req' = [req EXCEPT ![r] = n]
    BY <2>2
  <2>7. QED
    BY <2>3, <2>4, <2>5, <2>6 DEF At
<1>4. CASE SiteVerify(r)
  BY <1>1, <1>2, <1>4, SiteVerifyMoves DEF Coherent, SiteVerify, At
<1>5. CASE Ask(r)
  BY <1>1, <1>2, <1>5, AskMoves DEF Coherent, Ask, At
<1>6. CASE Body(r)
  <2>1. "dispatch" \in Stage /\ 400 \in Status
    BY DEF Stage, Status
  <2>2. CASE To(r, "dispatch")
    BY <1>1, <1>2, <1>6, <2>1, <2>2, GoesOn DEF Coherent, Body, At
  <2>3. CASE Answer(r, 400)
    BY <1>1, <1>2, <1>6, <2>1, <2>3, Ended DEF Coherent, Body, At
  <2>4. QED
    BY <1>6, <2>2, <2>3 DEF Body
<1>7. CASE Dispatch(r)
  <2>1. At(r, "dispatch") /\ UNCHANGED <<asks, count, holder>>
    BY <1>7 DEF Dispatch
  <2>2. QED
    BY <1>7, <2>1, DispatchMoves DEF At
<1>8. CASE Probe(r)
  <2>1. 200 \in Status /\ 503 \in Status
    BY DEF Status
  <2>2. PICK status \in {200, 503} : Answer(r, status)
    BY <1>8 DEF Probe
  <2>3. At(r, "probe") /\ UNCHANGED <<asks, count, holder>>
    BY <1>8 DEF Probe
  <2>4. QED
    BY <1>1, <1>2, <2>1, <2>2, <2>3, Ended DEF At
<1>9. QED
  BY <1>3, <1>4, <1>5, <1>6, <1>7, <1>8

(* Who was admitted still is. *)
LEMMA SameAdmitted ==
  ASSUME CourseInv, asks' = asks, NEW r \in Request, req' = [req EXCEPT ![r] = req'[r]],
         req'[r].counted <=> req[r].counted, req[r].counted => req'[r].at = req[r].at,
         NEW k, NEW w, NEW t
  PROVE  Admitted(k, w, t)' = Admitted(k, w, t)
<1>1. \A q \in Request : q # r => req'[q] = req[q]
  BY DEF CourseInv, ServiceTypeOK
<1>2. ASSUME NEW q \in Request
      PROVE  q \in Admitted(k, w, t)' <=> q \in Admitted(k, w, t)
  BY <1>1 DEF Admitted
<1>3. QED
  BY <1>2 DEF Admitted

LEMMA QuietStep ==
  ASSUME BudgetInv, NEW r \in Request,
         \/ \E solved \in BOOLEAN : Arrive(r, solved)
         \/ SiteVerify(r) \/ Ask(r) \/ Body(r) \/ Dispatch(r) \/ Probe(r)
  PROVE  Locked' /\ Exact' /\ Deserved'
<1>1. /\ CourseInv /\ Locked /\ Exact /\ Deserved
      /\ req' = [req EXCEPT ![r] = req'[r]]
      /\ req'[r].counted <=> req[r].counted
      /\ req[r].counted => req'[r].at = req[r].at
      /\ req'[r].answer # 429 /\ ~At(r, "inside")' /\ ~At(r, "inside")
      /\ asks' = asks /\ count' = count /\ holder' = holder
  BY QuietMoves DEF BudgetInv
<1>2. \A q \in Request : q # r => req'[q] = req[q]
  BY <1>1 DEF CourseInv, ServiceTypeOK
<1>3. Locked'
  BY <1>1, <1>2 DEF Locked, At
<1>4. \A k, w, t : Admitted(k, w, t)' = Admitted(k, w, t)
  BY <1>1, SameAdmitted
<1>5. Exact'
  BY <1>1, <1>4 DEF Exact
<1>6. Deserved'
  BY <1>1, <1>2 DEF Deserved
<1>7. QED
  BY <1>3, <1>5, <1>6

LEMMA EnterStep ==
  ASSUME BudgetInv, NEW r \in Request, Enter(r)
  PROVE  Locked' /\ Exact' /\ Deserved'
<1>1. /\ CourseInv /\ Locked /\ Exact /\ Deserved
      /\ asks' = asks /\ count' = count /\ holder' = r /\ holder = Nobody /\ At(r, "queued")
  BY DEF BudgetInv, Enter
<1>2. PICK n \in Course :
        /\ req' = [req EXCEPT ![r] = n]
        /\ n.pc = "inside" /\ n.answer = req[r].answer
        /\ n.calls = req[r].calls /\ n.token = req[r].token
        /\ n.counted = req[r].counted /\ n.issued = req[r].issued /\ n.at = req[r].at
        /\ \A w \in Limits(asks[r]) : n.seen[w] = count[asks[r]][w][Index(w, req[r].at)]
  BY <1>1, EnterMoves
<1>3. req'[r] = n /\ \A q \in Request : q # r => req'[q] = req[q]
  BY <1>1, <1>2 DEF CourseInv, ServiceTypeOK
<1>4. \A q \in Request : ~At(q, "inside")
  <2>1. \A q \in Request : q # Nobody
    BY VisitsAssumption DEF Request, Nobody
  <2>2. QED
    BY <1>1, <2>1 DEF Locked
<1>5. Locked'
  BY <1>1, <1>2, <1>3, <1>4 DEF Locked, At
<1>6. n.answer # 429
  BY <1>1, <1>2 DEF CourseInv, Coherent, At
<1>7. \A k, w, t : Admitted(k, w, t)' = Admitted(k, w, t)
  BY <1>1, <1>2, <1>3, SameAdmitted
<1>8. Exact'
  BY <1>1, <1>7 DEF Exact
<1>9. Deserved'
  BY <1>1, <1>3, <1>6 DEF Deserved
<1>10. QED
  BY <1>5, <1>8, <1>9

LEMMA RefuseStep ==
  ASSUME BudgetInv, NEW r \in Request, Decide(r), Refuse(r),
         NEW v \in Window, Exceeded(r, v), count' = count
  PROVE  Locked' /\ Exact' /\ Deserved'
<1>1. /\ CourseInv /\ Locked /\ Exact /\ Deserved
      /\ asks' = asks /\ holder' = Nobody /\ At(r, "inside")
  BY DEF BudgetInv, Decide
<1>2. PICK n \in Course :
        /\ req' = [req EXCEPT ![r] = n]
        /\ n.pc = "done" /\ n.answer = 429
        /\ n.calls = req[r].calls /\ n.token = req[r].token
        /\ n.counted = req[r].counted /\ n.issued = req[r].issued /\ n.at = req[r].at
  BY <1>1, RefuseMoves
<1>3. req'[r] = n /\ \A q \in Request : q # r => req'[q] = req[q]
  BY <1>1, <1>2 DEF CourseInv, ServiceTypeOK
<1>4. \A q \in Request : q # Nobody /\ (q # r => ~At(q, "inside"))
  <2>1. \A q \in Request : q # Nobody
    BY VisitsAssumption DEF Request, Nobody
  <2>2. QED
    BY <1>1, <2>1 DEF Locked
<1>5. Locked'
  BY <1>1, <1>2, <1>3, <1>4 DEF Locked, At
<1>6. \A k, w, t : Admitted(k, w, t)' = Admitted(k, w, t)
  <2>1. /\ req' = [req EXCEPT ![r] = req'[r]] /\ req'[r].counted = req[r].counted
        /\ req'[r].at = req[r].at
    BY <1>2, <1>3
  <2>2. QED
    BY <1>1, <2>1, SameAdmitted
<1>7. Exact'
  BY <1>1, <1>6 DEF Exact
<1>8. v \in Limits(asks[r]) /\ count[asks[r]][v][Index(v, req[r].at)] = Cap(asks[r], v)
  <2>1. v \in Limits(asks[r]) /\ req[r].seen[v] >= Cap(asks[r], v)
    BY DEF Exceeded
  <2>2. asks[r] \in Kind
    BY <1>1, RequestKind DEF CourseInv, ServiceTypeOK, Started, At
  <2>3. req[r].at \in Time /\ req[r].seen \in Reading
    BY <1>1 DEF CourseInv, ServiceTypeOK, Course
  <2>4. Index(v, req[r].at) \in Time
    BY <2>3, Windows
  <2>5. count[asks[r]][v][Index(v, req[r].at)] <= Cap(asks[r], v)
    BY <1>1, <2>1, <2>2, <2>4 DEF Exact
  <2>6. req[r].seen[v] = count[asks[r]][v][Index(v, req[r].at)]
    BY <1>1, <2>1 DEF Locked
  <2>7. req[r].seen[v] \in Nat /\ Cap(asks[r], v) \in Nat
    BY <2>2, <2>3, Caps DEF Reading
  <2>8. QED
    BY <2>1, <2>5, <2>6, <2>7
<1>9. Deserved'
  BY <1>1, <1>2, <1>3, <1>8 DEF Deserved
<1>10. QED
  BY <1>5, <1>7, <1>9

LEMMA AdmitStep ==
  ASSUME BudgetInv, NEW r \in Request, Decide(r), CountIt(r), NEW l \in Stage, l # "inside",
         \A w \in Window : ~Exceeded(r, w),
         req' = [req EXCEPT ![r].counted = TRUE, ![r].seen = Unread, ![r].pc = l]
  PROVE  Locked' /\ Exact' /\ Deserved'
<1>1. /\ CourseInv /\ Locked /\ Exact /\ Deserved
      /\ asks' = asks /\ holder' = Nobody /\ At(r, "inside")
  BY DEF BudgetInv, Decide
<1>2. PICK n \in Course :
        /\ req' = [req EXCEPT ![r] = n]
        /\ n.pc = l /\ n.answer = req[r].answer /\ n.counted
        /\ n.calls = req[r].calls /\ n.token = req[r].token
        /\ n.issued = req[r].issued /\ n.at = req[r].at
  BY <1>1, AdmitMoves, Zenon
<1>3. req'[r] = n /\ \A q \in Request : q # r => req'[q] = req[q]
  BY <1>1, <1>2 DEF CourseInv, ServiceTypeOK
<1>4. /\ r \in DOMAIN asks /\ asks[r] \in Kind /\ ~req[r].counted /\ req[r].answer = 0
      /\ req[r].at \in Time /\ req[r].seen \in Reading
  <2>1. r \in DOMAIN asks /\ ~req[r].counted /\ req[r].answer = 0
    BY <1>1 DEF CourseInv, Started, Coherent, At
  <2>2. QED
    BY <1>1, <2>1, RequestKind DEF CourseInv, ServiceTypeOK, Course
<1>5. Locked'
  <2>1. \A q \in Request : q # Nobody /\ (q # r => ~At(q, "inside"))
    <3>1. \A q \in Request : q # Nobody
      BY VisitsAssumption DEF Request, Nobody
    <3>2. QED
      BY <1>1, <3>1 DEF Locked
  <2>2. QED
    BY <1>1, <1>2, <1>3, <2>1 DEF Locked, At
<1> DEFINE here(k, w, t) == k = asks[r] /\ w \in Limits(k) /\ t = Index(w, req[r].at)
<1>6. \A k \in Kind, w \in Window, t \in Time :
        count'[k][w][t] = IF here(k, w, t) THEN req[r].seen[w] + 1 ELSE count[k][w][t]
  BY <1>1, <1>4, CountMoves
<1>7. ASSUME NEW k \in Kind, NEW w \in Limits(k), NEW t \in Time, here(k, w, t)
      PROVE  /\ count'[k][w][t] = Cardinality(Admitted(k, w, t)') /\ count'[k][w][t] <= Cap(k, w)
             /\ count[k][w][t] < Cap(k, w) /\ count[k][w][t] \in Nat
  <2>1. w \in Window /\ Cap(k, w) \in Nat /\ req[r].seen[w] \in Nat
    BY <1>4, Caps DEF Reading
  <2>2. req[r].seen[w] = count[k][w][t] /\ req[r].seen[w] < Cap(k, w)
    <3>1. req[r].seen[w] = count[k][w][t]
      BY <1>1, <1>7 DEF Locked
    <3>2. ~(req[r].seen[w] >= Cap(k, w))
      BY <1>7, <2>1 DEF Exceeded
    <3>3. QED
      BY <2>1, <3>1, <3>2
  <2>3. Admitted(k, w, t)' = Admitted(k, w, t) \cup {r} /\ r \notin Admitted(k, w, t)
    <3>1. r \notin Admitted(k, w, t)
      BY <1>4 DEF Admitted
    <3>2. r \in Admitted(k, w, t)'
      BY <1>1, <1>2, <1>3, <1>7 DEF Admitted
    <3>3. ASSUME NEW q \in Request, q # r
          PROVE  q \in Admitted(k, w, t)' <=> q \in Admitted(k, w, t)
      BY <1>1, <1>3, <3>3 DEF Admitted
    <3>4. Admitted(k, w, t)' \subseteq Request /\ Admitted(k, w, t) \subseteq Request
      BY DEF Admitted
    <3>5. QED
      BY <3>1, <3>2, <3>3, <3>4
  <2>4. Cardinality(Admitted(k, w, t)') = Cardinality(Admitted(k, w, t)) + 1
    BY <1>1, <2>3, AdmittedFinite, FS_AddElement
  <2>5. count[k][w][t] = Cardinality(Admitted(k, w, t))
    BY <1>1 DEF Exact
  <2>6. count'[k][w][t] = req[r].seen[w] + 1
    BY <1>6, <1>7, <2>1
  <2>7. QED
    BY <2>1, <2>2, <2>4, <2>5, <2>6
<1>8. ASSUME NEW k \in Kind, NEW w \in Limits(k), NEW t \in Time, ~here(k, w, t)
      PROVE  count'[k][w][t] = count[k][w][t] /\ Admitted(k, w, t)' = Admitted(k, w, t)
  <2>1. w \in Window
    BY Caps
  <2>2. count'[k][w][t] = count[k][w][t]
    BY <1>6, <1>8, <2>1
  <2>3. ASSUME NEW q \in Request
        PROVE  q \in Admitted(k, w, t)' <=> q \in Admitted(k, w, t)
    <3>1. CASE q = r
      BY <1>1, <1>2, <1>3, <1>4, <1>8, <3>1 DEF Admitted
    <3>2. CASE q # r
      BY <1>1, <1>3, <3>2 DEF Admitted
    <3>3. QED
      BY <3>1, <3>2
  <2>4. Admitted(k, w, t)' \subseteq Request /\ Admitted(k, w, t) \subseteq Request
    BY DEF Admitted
  <2>5. QED
    BY <2>2, <2>3, <2>4
<1> HIDE DEF here
<1>9. Exact'
  BY <1>1, <1>7, <1>8 DEF Exact
<1>10. Deserved'
  <2>1. SUFFICES ASSUME NEW q \in Request, req'[q].answer = 429
                 PROVE  \E w \in Limits(asks'[q]) :
                          count'[asks'[q]][w][Index(w, req'[q].at)] = Cap(asks'[q], w)
    BY DEF Deserved
  <2>2. q # r /\ req'[q] = req[q] /\ asks' = asks
    <3>1. req'[r].answer # 429
      BY <1>2, <1>3, <1>4
    <3>2. q # r
      BY <2>1, <3>1
    <3>3. QED
      BY <1>1, <1>3, <3>2
  <2>3. PICK w \in Limits(asks[q]) : count[asks[q]][w][Index(w, req[q].at)] = Cap(asks[q], w)
    BY <1>1, <2>1, <2>2 DEF Deserved
  <2>4. req[q].at \in Time /\ asks[q] \in Kind
    <3>1. req[q].answer # Fresh.answer
      BY <2>1, <2>2 DEF Fresh
    <3>2. q \in DOMAIN asks
      BY <1>1, <3>1 DEF CourseInv, Started
    <3>3. QED
      BY <1>1, <3>2, RequestKind DEF CourseInv, ServiceTypeOK, Course
  <2>5. Index(w, req[q].at) \in Time
    BY <2>4, Windows, Caps
  <2>6. ~here(asks[q], w, Index(w, req[q].at))
    <3>1. Cap(asks[q], w) \in Nat
      BY <2>4, Caps
    <3>2. QED
      BY <1>7, <2>3, <2>4, <2>5, <3>1
  <2>7. QED
    BY <1>8, <2>2, <2>3, <2>4, <2>5, <2>6
<1>11. QED
  BY <1>5, <1>9, <1>10

LEMMA BudgetStep ==
  ASSUME BudgetInv, [ServiceNext]_service
  PROVE  BudgetInv'
<1>1. CourseInv'
  BY CourseStep DEF BudgetInv
<1>2. ASSUME NEW r \in Request, Decide(r)
      PROVE  Locked' /\ Exact' /\ Deserved'
  <2>1. CASE \E w \in Window : Exceeded(r, w)
    BY <1>2, <2>1, RefuseStep DEF Decide
  <2>2. CASE \A w \in Window : ~Exceeded(r, w)
    <3>1. PICK l \in {"probe", "body"} :
            req' = [req EXCEPT ![r].counted = TRUE, ![r].seen = Unread, ![r].pc = l]
      BY <1>2, <2>2 DEF Decide
    <3>2. l \in Stage /\ l # "inside"
      BY DEF Stage
    <3>3. CountIt(r)
      BY <1>2, <2>2 DEF Decide
    <3>4. QED
      BY <1>2, <2>2, <3>1, <3>2, <3>3, AdmitStep
  <2>3. QED
    BY <2>1, <2>2
<1>3. ASSUME NEW r \in Request, Work(r) \/ \E solved \in BOOLEAN : Arrive(r, solved)
      PROVE  Locked' /\ Exact' /\ Deserved'
  BY <1>2, <1>3, QuietStep, EnterStep DEF Work
<1>4. ASSUME Tick \/ UNCHANGED service
      PROVE  Locked' /\ Exact' /\ Deserved'
  <2>1. UNCHANGED <<asks, req, count, holder>>
    BY <1>4 DEF Tick, service
  <2>2. \A k, w, t : Admitted(k, w, t)' = Admitted(k, w, t)
    BY <2>1 DEF Admitted
  <2>3. Locked'
    BY <2>1 DEF BudgetInv, Locked, At
  <2>4. Exact'
    BY <2>1, <2>2 DEF BudgetInv, Exact
  <2>5. Deserved'
    BY <2>1 DEF BudgetInv, Deserved
  <2>6. QED
    BY <2>3, <2>4, <2>5
<1>5. Locked' /\ Exact' /\ Deserved'
  <2>1. \/ \E r \in Request : Work(r) \/ \E solved \in BOOLEAN : Arrive(r, solved)
        \/ Tick \/ UNCHANGED service
    BY DEF ServiceNext
  <2>2. QED
    BY <1>3, <1>4, <2>1
<1>6. QED
  BY <1>1, <1>5 DEF BudgetInv

(* No hour and no day admits more than its cap, however requests overlap     *)
(* around RateLimiter.check and whenever blockConcurrencyWhile lets them in. *)
THEOREM CapsHold == ServiceSpec => []WithinBudget
<1>1. ASSUME BudgetInv
      PROVE  WithinBudget
  <2>1. SUFFICES ASSUME NEW k \in Kind, NEW t \in Time, NEW w \in Limits(k)
                 PROVE  Cardinality(Admitted(k, w, Index(w, t))) <= Cap(k, w)
    BY DEF WithinBudget
  <2>2. Index(w, t) \in Time
    BY Windows, Caps
  <2>3. QED
    BY <1>1, <2>2 DEF BudgetInv, Exact
<1>2. QED
  BY BudgetInit, BudgetStep, <1>1, PTL DEF ServiceSpec

(* Nobody is refused before a window of theirs is full, so that refusals and *)
(* requests that end early are not held against the next (check counts only  *)
(* what it admits).                                                          *)
THEOREM RefusalsAreDeserved == ServiceSpec => []RefusedOnlyWhenSpent
<1>1. ASSUME BudgetInv
      PROVE  RefusedOnlyWhenSpent
  <2>1. SUFFICES ASSUME NEW r \in Request, req[r].answer = 429
                 PROVE  \E w \in Limits(asks[r]) :
                          Cardinality(Admitted(asks[r], w, Index(w, req[r].at))) = Cap(asks[r], w)
    BY DEF RefusedOnlyWhenSpent
  <2>2. PICK w \in Limits(asks[r]) : count[asks[r]][w][Index(w, req[r].at)] = Cap(asks[r], w)
    BY <1>1, <2>1 DEF BudgetInv, Deserved
  <2>3. req[r].at \in Time /\ asks[r] \in Kind
    <3>1. req[r].answer # Fresh.answer
      BY <2>1 DEF Fresh
    <3>2. r \in DOMAIN asks
      BY <1>1, <3>1 DEF BudgetInv, CourseInv, Started
    <3>3. QED
      BY <1>1, <3>2, RequestKind DEF BudgetInv, CourseInv, ServiceTypeOK, Course
  <2>4. Index(w, req[r].at) \in Time
    BY <2>3, Windows, Caps
  <2>5. QED
    BY <1>1, <2>2, <2>3, <2>4 DEF BudgetInv, Exact
<1>2. QED
  BY BudgetInit, BudgetStep, <1>1, PTL DEF ServiceSpec

-----------------------------------------------------------------------------
(* Sessions. *)

(* A request that ran and was answered stays as it is. *)
LEMMA DoneStays ==
  ASSUME CourseInv, [ServiceNext]_service, NEW q \in Request, At(q, "done")
  PROVE  req'[q] = req[q]
<1>1. ASSUME NEW r \in Request, Work(r) \/ \E solved \in BOOLEAN : Arrive(r, solved)
      PROVE  req'[q] = req[q]
  <2>1. PICK n \in Course : req' = [req EXCEPT ![r] = n] /\ Coherent(n) /\ n.pc # "new"
    BY <1>1, Moved
  <2>2. ~At(r, "done")
    BY <1>1, Moved
  <2>3. q # r
    BY <2>2
  <2>4. QED
    BY <2>1, <2>3 DEF CourseInv, ServiceTypeOK
<1>2. QED
  BY <1>1 DEF ServiceNext, Tick, service

(* A session is held only by who has solved the challenge, was counted and   *)
(* was answered with code: the cookie is issued in memory before the budget  *)
(* is asked, and reaches the browser with a 200 only (handleGenerate).       *)
THEOREM CookiesAreEarned == ServiceSpec => []SessionsAreEarned
<1> DEFINE Inv == CourseInv /\ SessionsAreEarned
<1>1. ServiceInit => Inv
  BY CourseInit DEF ServiceInit, SessionsAreEarned
<1>2. ASSUME Inv, [ServiceNext]_service
      PROVE  Inv'
  <2>1. CourseInv'
    BY <1>2, CourseStep
  <2>2. ASSUME jar' = jar
        PROVE  SessionsAreEarned'
    <3>1. SUFFICES ASSUME jar' # NoCookie
                   PROVE  \E r \in Request :
                            /\ req'[r].answer = 200 /\ req'[r].token /\ req'[r].counted
                            /\ req'[r].issued = [jar' EXCEPT !.gone = 0]
      BY DEF SessionsAreEarned
    <3>2. PICK r \in Request : /\ req[r].answer = 200 /\ req[r].token /\ req[r].counted
                               /\ req[r].issued = [jar EXCEPT !.gone = 0]
      BY <1>2, <2>2, <3>1 DEF SessionsAreEarned
    <3>3. At(r, "done")
      BY <1>2, <3>2 DEF CourseInv, Coherent, At
    <3>4. req'[r] = req[r]
      BY <1>2, <3>3, DoneStays
    <3>5. QED
      BY <2>2, <3>2, <3>4
  <2>3. ASSUME jar' = NoCookie
        PROVE  SessionsAreEarned'
    BY <2>3 DEF SessionsAreEarned
  <2>4. ASSUME NEW r \in Request, Dispatch(r), Promote(r), jar' # jar
        PROVE  SessionsAreEarned'
    <3>1. req'[r].answer = 200 /\ req'[r].token = req[r].token
          /\ req'[r].counted = req[r].counted /\ req'[r].issued = req[r].issued
      BY <1>2, <2>4, DispatchMoves
    <3>2. req[r].issued # NoCookie
          /\ jar' = [req[r].issued EXCEPT !.gone = clock + TicksPerHour]
      BY <2>4 DEF Promote
    <3>3. req[r].counted /\ req[r].token /\ req[r].issued.gone = 0
      BY <1>2, <2>4, <3>2 DEF CourseInv, Coherent, Dispatch, At
    <3>4. [jar' EXCEPT !.gone = 0] = req[r].issued
      <4>1. req[r].issued \in Cookie
        BY <1>2 DEF CourseInv, ServiceTypeOK, Course
      <4>2. QED
        BY <3>2, <3>3, <4>1 DEF Cookie
    <3>5. QED
      BY <3>1, <3>3, <3>4 DEF SessionsAreEarned
  <2>5. \/ jar' = jar \/ jar' = NoCookie
        \/ \E r \in Request : Dispatch(r) /\ Promote(r)
    <3>1. CASE Tick \/ UNCHANGED service
      BY <3>1 DEF Tick, service
    <3>2. CASE \E r \in Request : Work(r) \/ \E solved \in BOOLEAN : Arrive(r, solved)
      <4>1. PICK r \in Request : Work(r) \/ \E solved \in BOOLEAN : Arrive(r, solved)
        BY <3>2
      <4>2. CASE Dispatch(r)
        BY <1>2, <4>2, DispatchMoves
      <4>3. CASE ~Dispatch(r)
        BY <4>1, <4>3 DEF Work, Arrive, SiteVerify, Ask, Enter, Decide, Body, Probe
      <4>4. QED
        BY <4>2, <4>3
    <3>3. QED
      BY <1>2, <3>1, <3>2 DEF ServiceNext
  <2>6. QED
    BY <2>1, <2>2, <2>3, <2>4, <2>5
<1>3. QED
  BY <1>1, <1>2, PTL DEF ServiceSpec

-----------------------------------------------------------------------------
(* The limiter judges in one step. *)

\* What a request shows of itself to the budget.
Draws(r) == IF HasAsked(r) THEN Drawn(r) ELSE {}
Verdict(r) == IF req[r].counted THEN "admitted"
              ELSE IF Refused(r) THEN "refused" ELSE "none"
Taken == [b \in Budgets |-> count[b[1]][b[2]][b[3]]]

LEMMA Budgeted ==
  ASSUME CourseInv, NEW r \in DOMAIN asks
  PROVE  /\ Drawn(r) \subseteq Budgets /\ Drawn(r) # {}
         /\ \A k \in Kind, w \in Window, t \in Time :
              <<k, w, t>> \in Drawn(r) <=>
                k = asks[r] /\ w \in Limits(k) /\ t = Index(w, req[r].at)
<1>1. r \in Request /\ asks[r] \in Kind /\ Limits(asks[r]) \subseteq Window
  BY RequestKind DEF CourseInv, ServiceTypeOK
<1>2. req[r].at \in Time
  BY <1>1 DEF CourseInv, ServiceTypeOK, Course
<1>3. \A w \in Limits(asks[r]) : Index(w, req[r].at) \in Time
  BY <1>1, <1>2, Windows
<1>4. Drawn(r) \subseteq Budgets
  BY <1>1, <1>3 DEF Drawn, Budgets
<1>5. "hour" \in Limits(asks[r])
  BY DEF Limits, Window
<1>6. Drawn(r) # {}
  BY <1>5 DEF Drawn
<1>7. QED
  BY <1>4, <1>6 DEF Drawn

\* A step of one request, seen from the others.
LEMMA OthersStay ==
  ASSUME CourseInv, NEW r \in Request, asks' = asks, req' = [req EXCEPT ![r] = req'[r]]
  PROVE  \A q \in Request : q # r => Draws(q)' = Draws(q) /\ Verdict(q)' = Verdict(q)
<1>1. \A q \in Request : q # r => req'[q] = req[q]
  BY DEF CourseInv, ServiceTypeOK
<1>2. QED
  BY <1>1 DEF Draws, Verdict, HasAsked, Drawn, Refused, At

LEMMA LimiterStutters ==
  ASSUME CourseInv, NEW r \in Request, asks' = asks, req' = [req EXCEPT ![r] = req'[r]],
         count' = count, Draws(r)' = Draws(r), Verdict(r)' = Verdict(r)
  PROVE  UNCHANGED Limiter!bvars
<1>1. \A q \in Request : Draws(q)' = Draws(q) /\ Verdict(q)' = Verdict(q)
  BY OthersStay
<1>2. [q \in Request |-> Draws(q)]' = [q \in Request |-> Draws(q)]
  BY <1>1
<1>3. [q \in Request |-> Verdict(q)]' = [q \in Request |-> Verdict(q)]
  BY <1>1
<1>4. Taken' = Taken
  BY DEF Taken, Budgets
<1>5. QED
  BY <1>2, <1>3, <1>4 DEF Limiter!bvars, Draws, Verdict, Taken

\* A request that is neither at the limiter nor goes to it.
LEMMA QuietLimiter ==
  ASSUME CourseInv, NEW r \in Request,
         \/ \E solved \in BOOLEAN : Arrive(r, solved)
         \/ SiteVerify(r) \/ Body(r) \/ Dispatch(r) \/ Probe(r)
  PROVE  UNCHANGED Limiter!bvars
<1>1. /\ req' = [req EXCEPT ![r] = req'[r]]
      /\ req'[r].counted <=> req[r].counted
      /\ req[r].counted => req'[r].at = req[r].at
      /\ req'[r].answer # 429 /\ ~At(r, "inside")' /\ ~At(r, "inside")
      /\ UNCHANGED <<asks, count, holder>>
  BY QuietMoves
<1>2. Coherent(req[r]) /\ req \in [Request -> Course] /\ req[r] \in Course
  BY DEF CourseInv, ServiceTypeOK
<1>3. req[r].pc \in {"new", "site", "body", "dispatch", "probe"}
  BY DEF Arrive, SiteVerify, Body, Dispatch, Probe, At
<1>4. req'[r].pc # "queued"
  <2>1. CASE \E solved \in BOOLEAN : Arrive(r, solved)
    <3>1. PICK solved \in BOOLEAN : Arrive(r, solved)
      BY <2>1
    <3>2. PICK n \in Course : req' = [req EXCEPT ![r] = n] /\ n.pc \in {"ask", "site", "done"}
      BY <3>1, ArriveMoves
    <3>3. QED
      BY <1>2, <3>2
  <2>2. CASE SiteVerify(r)
    BY <1>2, <2>2 DEF SiteVerify, Answer, Course
  <2>3. CASE Body(r)
    BY <1>2, <2>3 DEF Body, To, Answer, Course
  <2>4. CASE Dispatch(r)
    BY <2>4, DispatchMoves
  <2>5. CASE Probe(r)
    BY <1>2, <2>5 DEF Probe, Answer, Course
  <2>6. QED
    BY <2>1, <2>2, <2>3, <2>4, <2>5
<1>5. req[r].answer = 0
  BY <1>2, <1>3 DEF Coherent
<1>6. CASE req[r].counted
  <2>1. Draws(r)' = Draws(r)
    BY <1>1, <1>6 DEF Draws, HasAsked, Drawn
  <2>2. Verdict(r)' = Verdict(r)
    BY <1>1, <1>6 DEF Verdict
  <2>3. QED
    BY <1>1, <2>1, <2>2, LimiterStutters
<1>7. CASE ~req[r].counted
  <2>1. Draws(r)' = Draws(r)
    BY <1>1, <1>3, <1>4, <1>5, <1>7 DEF Draws, HasAsked, Refused, At
  <2>2. Verdict(r)' = Verdict(r)
    BY <1>1, <1>5, <1>7 DEF Verdict, Refused
  <2>3. QED
    BY <1>1, <2>1, <2>2, LimiterStutters
<1>8. QED
  BY <1>6, <1>7

LEMMA AskLimiter ==
  ASSUME CourseInv, CourseInv', NEW r \in Request, Ask(r)
  PROVE  [Limiter!Next]_(Limiter!bvars)
<1>1. PICK n \in Course :
        /\ req' = [req EXCEPT ![r] = n]
        /\ n.calls = req[r].calls /\ n.token = req[r].token
        /\ n.counted = req[r].counted /\ n.issued = req[r].issued
        /\ \/ n.pc = "queued" /\ n.answer = req[r].answer
           \/ n.at = req[r].at /\ n.pc = "probe" /\ n.answer = req[r].answer
           \/ n.at = req[r].at /\ n.pc = "done" /\ n.answer = 503
  BY AskMoves
<1>2. /\ req'[r] = n /\ req' = [req EXCEPT ![r] = req'[r]]
      /\ At(r, "ask") /\ asks' = asks /\ count' = count /\ r \in DOMAIN asks
  BY <1>1 DEF CourseInv, ServiceTypeOK, Ask, Started, At
<1>3. ~req[r].counted /\ req[r].answer = 0
  BY <1>2 DEF CourseInv, Coherent, At
<1>4. Draws(r) = {} /\ Verdict(r) = "none" /\ Verdict(r)' = "none"
  BY <1>1, <1>2, <1>3 DEF Draws, Verdict, HasAsked, Refused, At
<1>5. CASE n.pc # "queued"
  <2>1. Draws(r)' = {}
    BY <1>1, <1>2, <1>3, <1>5 DEF Draws, HasAsked, Refused, At
  <2>2. QED
    BY <1>2, <1>4, <2>1, LimiterStutters
<1>6. CASE n.pc = "queued"
  <2>1. Draws(r)' = Drawn(r)'
    BY <1>2, <1>6 DEF Draws, HasAsked, At
  <2>2. Drawn(r)' \subseteq Budgets /\ Drawn(r)' # {}
    <3>1. r \in DOMAIN asks' /\ asks'[r] \in Kind /\ req'[r].at \in Time
      BY <1>1, <1>2, RequestKind DEF CourseInv, ServiceTypeOK, Course
    <3>2. \A w \in Limits(asks'[r]) : Index(w, req'[r].at) \in Time
      BY <3>1, Windows DEF Limits, Window
    <3>3. Drawn(r)' = {<<asks'[r], w, Index(w, req'[r].at)>> : w \in Limits(asks'[r])}
      BY DEF Drawn
    <3>4. Drawn(r)' \subseteq Budgets
      BY <3>1, <3>2, <3>3 DEF Budgets
    <3>5. "hour" \in Limits(asks'[r])
      BY DEF Limits, Window
    <3>6. QED
      BY <3>3, <3>4, <3>5
  <2>3. \A q \in Request : q # r => Draws(q)' = Draws(q) /\ Verdict(q)' = Verdict(q)
    BY <1>2, OthersStay
  <2>4. [q \in Request |-> Draws(q)]'
          = [[q \in Request |-> Draws(q)] EXCEPT ![r] = [q \in Request |-> Draws(q)]'[r]]
    BY <2>3
  <2>5. [q \in Request |-> Verdict(q)]' = [q \in Request |-> Verdict(q)]
    BY <1>4, <2>3
  <2>6. Taken' = Taken
    BY <1>2 DEF Taken, Budgets
  <2>7. /\ [q \in Request |-> Draws(q)][r] = {}
        /\ [q \in Request |-> Draws(q)]'[r] # {}
        /\ [q \in Request |-> Draws(q)]'[r] \subseteq Budgets
    BY <1>4, <2>1, <2>2
  <2>8. Limiter!Draw(r)
    BY <2>4, <2>5, <2>6, <2>7 DEF Limiter!Draw, Draws, Verdict, Taken
  <2>9. QED
    BY <2>8 DEF Limiter!Next
<1>7. QED
  BY <1>5, <1>6

LEMMA EnterLimiter ==
  ASSUME CourseInv, NEW r \in Request, Enter(r)
  PROVE  UNCHANGED Limiter!bvars
<1>1. PICK n \in Course :
        /\ req' = [req EXCEPT ![r] = n]
        /\ n.pc = "inside" /\ n.answer = req[r].answer
        /\ n.calls = req[r].calls /\ n.token = req[r].token
        /\ n.counted = req[r].counted /\ n.issued = req[r].issued /\ n.at = req[r].at
        /\ \A w \in Limits(asks[r]) : n.seen[w] = count[asks[r]][w][Index(w, req[r].at)]
  BY EnterMoves
<1>2. /\ req'[r] = n /\ req' = [req EXCEPT ![r] = req'[r]]
      /\ At(r, "queued") /\ asks' = asks /\ count' = count
  BY <1>1 DEF CourseInv, ServiceTypeOK, Enter
<1>3. Draws(r)' = Draws(r)
  BY <1>1, <1>2 DEF Draws, HasAsked, Drawn, At
<1>4. Verdict(r)' = Verdict(r)
  BY <1>1, <1>2 DEF Verdict, Refused
<1>5. QED
  BY <1>2, <1>3, <1>4, LimiterStutters

(* What the one inside has read is what the budgets it draws on still hold. *)
LEMMA Judged ==
  ASSUME BudgetInv, NEW r \in Request, At(r, "inside")
  PROVE  /\ r \in DOMAIN asks /\ Draws(r) = Drawn(r) /\ Verdict(r) = "none"
         /\ ~req[r].counted /\ req[r].answer = 0
         /\ \A w \in Limits(asks[r]) :
              Taken[<<asks[r], w, Index(w, req[r].at)>>] = req[r].seen[w]
         /\ \A b \in Drawn(r) : \E w \in Limits(asks[r]) : b = <<asks[r], w, Index(w, req[r].at)>>
<1>1. r \in DOMAIN asks /\ ~req[r].counted /\ req[r].answer = 0
  BY DEF BudgetInv, CourseInv, Started, Coherent, At
<1>2. Draws(r) = Drawn(r) /\ Verdict(r) = "none"
  BY <1>1 DEF Draws, HasAsked, Verdict, Refused
<1>3. ASSUME NEW w \in Limits(asks[r])
      PROVE  Taken[<<asks[r], w, Index(w, req[r].at)>>] = req[r].seen[w]
  <2>1. <<asks[r], w, Index(w, req[r].at)>> \in Budgets
    BY <1>1, Budgeted DEF BudgetInv, Drawn
  <2>2. req[r].seen[w] = count[asks[r]][w][Index(w, req[r].at)]
    BY DEF BudgetInv, Locked
  <2>3. QED
    BY <2>1, <2>2 DEF Taken
<1>4. QED
  BY <1>1, <1>2, <1>3 DEF Drawn

LEMMA RefuseLimiter ==
  ASSUME BudgetInv, NEW r \in Request, Decide(r), \E w \in Window : Exceeded(r, w)
  PROVE  Limiter!Refuse(r)
<1>1. /\ CourseInv /\ At(r, "inside") /\ asks' = asks /\ Refuse(r) /\ count' = count
  BY DEF BudgetInv, Decide
<1>2. PICK n \in Course :
        /\ req' = [req EXCEPT ![r] = n]
        /\ n.pc = "done" /\ n.answer = 429
        /\ n.calls = req[r].calls /\ n.token = req[r].token
        /\ n.counted = req[r].counted /\ n.issued = req[r].issued /\ n.at = req[r].at
  BY <1>1, RefuseMoves
<1>3. req'[r] = n /\ req' = [req EXCEPT ![r] = req'[r]]
  BY <1>1, <1>2 DEF CourseInv, ServiceTypeOK
<1>4. /\ r \in DOMAIN asks /\ Draws(r) = Drawn(r) /\ Verdict(r) = "none" /\ ~req[r].counted
  BY <1>1, Judged
<1>5. Draws(r)' = Draws(r)
  BY <1>1, <1>2, <1>3, <1>4 DEF Draws, HasAsked, Refused, Drawn
<1>6. Verdict(r)' = "refused"
  BY <1>2, <1>3, <1>4 DEF Verdict, Refused
<1>7. \A q \in Request : q # r => Draws(q)' = Draws(q) /\ Verdict(q)' = Verdict(q)
  BY <1>1, <1>3, OthersStay
<1>8. [q \in Request |-> Draws(q)]' = [q \in Request |-> Draws(q)]
  BY <1>5, <1>7
<1>9. [q \in Request |-> Verdict(q)]' = [[q \in Request |-> Verdict(q)] EXCEPT ![r] = "refused"]
  BY <1>6, <1>7
<1>10. Taken' = Taken
  BY <1>1 DEF Taken, Budgets
<1>11. \E b \in Draws(r) : Taken[b] >= [c \in Budgets |-> Cap(c[1], c[2])][b]
  <2>1. PICK w \in Limits(asks[r]) : req[r].seen[w] >= Cap(asks[r], w)
    BY DEF Exceeded
  <2>2. <<asks[r], w, Index(w, req[r].at)>> \in Drawn(r) /\ Drawn(r) \subseteq Budgets
    BY <1>1, <1>4, Budgeted DEF Drawn
  <2>3. Taken[<<asks[r], w, Index(w, req[r].at)>>] = req[r].seen[w]
    BY <1>1, Judged
  <2>4. QED
    BY <1>4, <2>1, <2>2, <2>3
<1>12. /\ [q \in Request |-> Draws(q)][r] = Draws(r) /\ [q \in Request |-> Verdict(q)][r] = "none"
       /\ Draws(r) # {}
  BY <1>1, <1>4, Budgeted
<1>13. Limiter!Waits(r)
  BY <1>12 DEF Limiter!Waits, Draws, Verdict
<1>14. QED
  BY <1>8, <1>9, <1>10, <1>11, <1>12, <1>13 DEF Limiter!Refuse, Draws, Verdict, Taken

LEMMA AdmitLimiter ==
  ASSUME BudgetInv, NEW r \in Request, Decide(r), \A w \in Window : ~Exceeded(r, w)
  PROVE  Limiter!Admit(r)
<1>1. /\ CourseInv /\ At(r, "inside") /\ asks' = asks /\ CountIt(r)
  BY DEF BudgetInv, Decide
<1>2. PICK l \in {"probe", "body"} :
        req' = [req EXCEPT ![r].counted = TRUE, ![r].seen = Unread, ![r].pc = l]
  BY DEF Decide
<1>3. l \in Stage
  BY DEF Stage
<1>4. PICK n \in Course :
        /\ req' = [req EXCEPT ![r] = n]
        /\ n.pc = l /\ n.answer = req[r].answer /\ n.counted
        /\ n.calls = req[r].calls /\ n.token = req[r].token
        /\ n.issued = req[r].issued /\ n.at = req[r].at
  BY <1>1, <1>2, <1>3, AdmitMoves, Zenon
<1>5. req'[r] = n /\ req' = [req EXCEPT ![r] = req'[r]]
  BY <1>1, <1>4 DEF CourseInv, ServiceTypeOK
<1>6. /\ r \in DOMAIN asks /\ Draws(r) = Drawn(r) /\ Verdict(r) = "none"
      /\ asks[r] \in Kind /\ Limits(asks[r]) \subseteq Window /\ req[r].seen \in Reading
  BY <1>1, Judged, RequestKind DEF CourseInv, ServiceTypeOK, Course
<1>7. Draws(r)' = Draws(r)
  BY <1>1, <1>4, <1>5, <1>6 DEF Draws, HasAsked, Drawn
<1>8. Verdict(r)' = "admitted"
  BY <1>4, <1>5 DEF Verdict
<1>9. \A q \in Request : q # r => Draws(q)' = Draws(q) /\ Verdict(q)' = Verdict(q)
  BY <1>1, <1>5, OthersStay
<1>10. [q \in Request |-> Draws(q)]' = [q \in Request |-> Draws(q)]
  BY <1>7, <1>9
<1>11. [q \in Request |-> Verdict(q)]' = [[q \in Request |-> Verdict(q)] EXCEPT ![r] = "admitted"]
  BY <1>8, <1>9
<1>12. ASSUME NEW b \in Draws(r)
       PROVE  b \in Budgets /\ Taken[b] < Cap(b[1], b[2])
  <2>1. PICK w \in Limits(asks[r]) : b = <<asks[r], w, Index(w, req[r].at)>>
    BY <1>1, <1>6, <1>12, Judged
  <2>2. Taken[b] = req[r].seen[w] /\ b[1] = asks[r] /\ b[2] = w
    BY <1>1, <2>1, Judged
  <2>3. ~(req[r].seen[w] >= Cap(asks[r], w))
    BY <1>6 DEF Exceeded
  <2>4. req[r].seen[w] \in Nat /\ Cap(asks[r], w) \in Nat
    BY <1>6, Caps DEF Reading
  <2>5. b \in Budgets
    BY <1>1, <1>6, <1>12, Budgeted
  <2>6. QED
    BY <2>2, <2>3, <2>4, <2>5
<1>13. \A b \in Draws(r) : Taken[b] < [c \in Budgets |-> Cap(c[1], c[2])][b]
  BY <1>12
<1>14. Taken' = [b \in Budgets |-> IF b \in Draws(r) THEN Taken[b] + 1 ELSE Taken[b]]
  <2>1. ASSUME NEW b \in Budgets
        PROVE  count'[b[1]][b[2]][b[3]] = IF b \in Draws(r) THEN Taken[b] + 1 ELSE Taken[b]
    <3>1. PICK k \in Kind, w \in Window, t \in Time : w \in Limits(k) /\ b = <<k, w, t>>
      <4>1. PICK k \in Kind : b \in {<<k, w, t>> : w \in Limits(k), t \in Time}
        BY DEF Budgets
      <4>2. QED
        BY <4>1, Caps
    <3>2. b[1] = k /\ b[2] = w /\ b[3] = t
      BY <3>1
    <3>3. count'[k][w][t] = IF k = asks[r] /\ w \in Limits(k) /\ t = Index(w, req[r].at)
                              THEN req[r].seen[w] + 1 ELSE count[k][w][t]
      BY <1>1, <1>6, CountMoves
    <3>4. b \in Draws(r) <=> k = asks[r] /\ w \in Limits(k) /\ t = Index(w, req[r].at)
      BY <1>1, <1>6, <3>1, Budgeted
    <3>5. Taken[b] = count[k][w][t]
      BY <3>2 DEF Taken
    <3>6. b \in Draws(r) => Taken[b] = req[r].seen[w]
      BY <1>1, <3>1, <3>4, Judged
    <3>7. QED
      BY <3>2, <3>3, <3>4, <3>5, <3>6
  <2>2. Taken' = [b \in Budgets |-> count'[b[1]][b[2]][b[3]]]
    BY DEF Taken, Budgets
  <2>3. QED
    BY <2>1, <2>2
<1>15. /\ [q \in Request |-> Draws(q)][r] = Draws(r) /\ [q \in Request |-> Verdict(q)][r] = "none"
       /\ Draws(r) # {}
  BY <1>1, <1>6, Budgeted
<1>16. Limiter!Waits(r)
  BY <1>15 DEF Limiter!Waits, Draws, Verdict
<1>17. QED
  BY <1>10, <1>11, <1>13, <1>14, <1>15, <1>16 DEF Limiter!Admit, Draws, Verdict, Taken

(* Seen from its callers RateLimiter.check judges in one step: each request  *)
(* names its windows once, and takes one from all of them or nothing from    *)
(* any, as of the moment it is judged, whatever arrives meanwhile, however   *)
(* long it queues and although reading and writing are steps of their own.   *)
THEOREM LimiterIsAtomic == ServiceSpec => AtomicBudgetSpec
<1>1. ServiceInit => Limiter!Init
  <2>1. ASSUME ServiceInit PROVE Limiter!Init
    <3>1. \A r \in Request : req[r] = Fresh
      BY <2>1 DEF ServiceInit
    <3>2. Fresh.pc = "new" /\ Fresh.counted = FALSE /\ Fresh.answer = 0
      BY DEF Fresh
    <3>3. \A r \in Request : Draws(r) = {} /\ Verdict(r) = "none"
      BY <3>1, <3>2 DEF Draws, Verdict, HasAsked, Refused, At
    <3>4. Taken = [b \in Budgets |-> 0]
      <4>1. ASSUME NEW b \in Budgets PROVE count[b[1]][b[2]][b[3]] = 0
        <5>1. PICK k \in Kind : b \in {<<k, w, t>> : w \in Limits(k), t \in Time}
          BY DEF Budgets
        <5>2. PICK w \in Limits(k), t \in Time : b = <<k, w, t>>
          BY <5>1
        <5>3. w \in Window
          BY Caps
        <5>4. QED
          BY <2>1, <5>2, <5>3 DEF ServiceInit
      <4>2. QED
        BY <4>1 DEF Taken
    <3>5. /\ [q \in Request |-> Draws(q)] = [q \in Request |-> {}]
          /\ [q \in Request |-> Verdict(q)] = [q \in Request |-> "none"]
      BY <3>3
    <3>6. QED
      BY <3>4, <3>5 DEF Limiter!Init, Draws, Verdict, Taken
  <2>2. QED
    BY <2>1
<1>2. ASSUME BudgetInv, BudgetInv', [ServiceNext]_service
      PROVE  [Limiter!Next]_(Limiter!bvars)
  <2>1. CourseInv /\ CourseInv'
    BY <1>2 DEF BudgetInv
  <2>2. ASSUME NEW r \in Request, Decide(r) PROVE [Limiter!Next]_(Limiter!bvars)
    BY <1>2, <2>2, RefuseLimiter, AdmitLimiter DEF Limiter!Next
  <2>3. ASSUME NEW r \in Request, Work(r) \/ \E solved \in BOOLEAN : Arrive(r, solved)
        PROVE  [Limiter!Next]_(Limiter!bvars)
    <3>1. CASE Decide(r)
      BY <2>2, <3>1
    <3>2. CASE Ask(r)
      BY <2>1, <3>2, AskLimiter
    <3>3. CASE Enter(r)
      BY <2>1, <3>3, EnterLimiter
    <3>4. CASE \/ \E solved \in BOOLEAN : Arrive(r, solved)
               \/ SiteVerify(r) \/ Body(r) \/ Dispatch(r) \/ Probe(r)
      BY <2>1, <3>4, QuietLimiter
    <3>5. QED
      BY <2>3, <3>1, <3>2, <3>3, <3>4 DEF Work
  <2>4. ASSUME Tick \/ UNCHANGED service PROVE UNCHANGED Limiter!bvars
    <3>1. UNCHANGED <<asks, req, count>>
      BY <2>4 DEF Tick, service
    <3>2. /\ [q \in Request |-> Draws(q)]' = [q \in Request |-> Draws(q)]
          /\ [q \in Request |-> Verdict(q)]' = [q \in Request |-> Verdict(q)]
          /\ Taken' = Taken
      BY <3>1 DEF Draws, Verdict, Taken, HasAsked, Drawn, Refused, At, Budgets
    <3>3. QED
      BY <3>2 DEF Limiter!bvars, Draws, Verdict, Taken
  <2>5. QED
    BY <1>2, <2>3, <2>4 DEF ServiceNext
<1>3. QED
  BY BudgetInit, BudgetStep, <1>1, <1>2, PTL DEF ServiceSpec, AtomicBudgetSpec, Limiter!Spec
=============================================================================
