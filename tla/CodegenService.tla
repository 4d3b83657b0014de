--------------------------- MODULE CodegenService ---------------------------
(***************************************************************************)
(* The code generation service in the cloud, as one visitor meets it:      *)
(*   apps/codegen-worker/src/{index,rate-limit,session,turnstile}.ts       *)
(*                                                                         *)
(* A request is a chain of awaits: session or challenge, budget, body,     *)
(* container (tried twice).  The budget of an address lives in a Durable   *)
(* Object that requests enter one at a time; windows are hours and days.   *)
(*                                                                         *)
(* Data: time is counted in ticks, windows are numbered from 0.  A cookie  *)
(* is its expiry, the day whose salt is in its address hash, and when the  *)
(* browser forgets it.  Bodies and generated code are left out.            *)
(***************************************************************************)
EXTENDS Integers, Sequences, FiniteSets

CONSTANTS
  Visits,        \* what a visitor's requests may ask for, in their order
  TicksPerHour, HoursPerDay,
  HourCap, DayCap,   \* GENERATE_HOUR_CAP, GENERATE_DAY_CAP
  HealthCap,         \* HEALTH_HOUR_CAP
  MaxTime        \* the clock stops here

VARIABLES
  asks,   \* the kinds of the requests of this visit
  clock,  \* now
  jar,    \* the session cookie the browser holds
  req,    \* where each request is and what it carries
  count,  \* the counters in the storage of the Durable Object
  holder  \* the request inside blockConcurrencyWhile

service == <<asks, clock, jar, req, count, holder>>

Request == UNION {DOMAIN v : v \in Visits}
Nobody == 0
Time == 0..MaxTime
Hour(t) == t \div TicksPerHour
Day(t) == Hour(t) \div HoursPerDay
NoCookie == [exp |-> 0, day |-> 0, gone |-> 0]
Cookie == [exp : Nat, day : Nat, gone : Nat]

Kind == {"generate", "health"}
Window == {"hour", "day"}
Index(w, t) == IF w = "hour" THEN Hour(t) ELSE Day(t)
Cap(k, w) == IF k = "health" THEN HealthCap ELSE IF w = "hour" THEN HourCap ELSE DayCap

\* The windows a bucket is limited in.
Limits(k) == IF k = "health" THEN {"hour"} ELSE Window

ASSUME VisitsAssumption == Visits \subseteq Seq(Kind)
ASSUME ClockAssumption ==
  TicksPerHour \in Nat \ {0} /\ HoursPerDay \in Nat \ {0} /\ MaxTime \in Nat
ASSUME CapAssumption == HourCap \in Nat /\ DayCap \in Nat /\ HealthCap \in Nat

Unread == [w \in Window |-> 0]
Fresh == [pc |-> "new", token |-> FALSE,
          day |-> 0, at |-> 0, seen |-> Unread, issued |-> NoCookie,
          counted |-> FALSE, calls |-> 0, answer |-> 0]

Stage == {"new", "site", "ask", "queued", "inside", "body", "dispatch", "probe", "done"}
Status == {0, 200, 400, 401, 422, 429, 502, 503}
Reading == [Window -> Nat]
Course ==
  [pc : Stage, token : BOOLEAN, day : Time, at : Time, seen : Reading,
   issued : Cookie, counted : BOOLEAN, calls : 0..2, answer : Status]

ServiceTypeOK ==
  /\ asks \in Visits /\ clock \in Time /\ jar \in Cookie
  /\ holder \in Request \cup {Nobody}
  /\ count \in [Kind -> [Window -> [Time -> Nat]]]
  /\ req \in [Request -> Course]

ServiceInit ==
  /\ asks \in Visits /\ clock = 0 /\ jar = NoCookie /\ holder = Nobody
  /\ req = [r \in Request |-> Fresh]
  /\ count = [k \in Kind |-> [w \in Window |-> [t \in Time |-> 0]]]

At(r, label) == req[r].pc = label
To(r, label) == req' = [req EXCEPT ![r].pc = label]
Refuse(r) == req' = [req EXCEPT ![r].pc = "done", ![r].answer = 429, ![r].seen = Unread]
Answer(r, status) == req' = [req EXCEPT ![r].pc = "done", ![r].answer = status]

-----------------------------------------------------------------------------
Valid(c) == c # NoCookie /\ clock < c.exp /\ c.day = Day(clock)

\* A request comes in.  The cookie of the browser stands for the challenge
\* if it is not too old and its address hash has the salt of this day; else
\* the request needs the token of a solved challenge.
Arrive(r, solved) ==
  /\ r \in DOMAIN asks /\ At(r, "new") /\ \A q \in Request : q < r => ~At(q, "new")
  /\ asks[r] = "health" => ~solved
  /\ req' = [req EXCEPT ![r].token = solved,
       ![r].day = IF solved THEN Day(clock) ELSE 0,
       ![r].pc = IF asks[r] = "health" \/ Valid(jar) THEN "ask" ELSE IF solved THEN "site" ELSE "done",
       ![r].answer = IF asks[r] = "health" \/ Valid(jar) \/ solved THEN 0 ELSE 401]
  /\ UNCHANGED <<asks, clock, jar, count, holder>>

\* verifyTurnstile has answered, or could not be reached.
SiteVerify(r) ==
  /\ At(r, "site")
  /\ \/ Answer(r, 401)
     \/ req' = [req EXCEPT ![r].pc = "ask",
                           ![r].issued = [exp |-> clock + TicksPerHour,
                                          day |-> req[r].day, gone |-> 0]]
  /\ UNCHANGED <<asks, clock, jar, count, holder>>

\* The request reaches the Durable Object, where check() fixes the windows
\* it counts in before it queues; or the object cannot be reached: a probe
\* goes on without it, a generation is refused.
Ask(r) ==
  /\ At(r, "ask")
  /\ \/ req' = [req EXCEPT ![r].pc = "queued", ![r].at = clock]
     \/ IF asks[r] = "health" THEN To(r, "probe") ELSE Answer(r, 503)
  /\ UNCHANGED <<asks, clock, jar, count, holder>>

Enter_Unblocked(r) ==
  /\ At(r, "queued")
  /\ holder' = r
  /\ req' = [req EXCEPT ![r].pc = "inside",
       ![r].seen = [w \in Window |->
                      IF w \in Limits(asks[r])
                        THEN count[asks[r]][w][Index(w, req[r].at)] ELSE 0]]
  /\ UNCHANGED <<asks, clock, jar, count>>

\* blockConcurrencyWhile lets it in; both counters are read.
Enter(r) ==
  /\ At(r, "queued") /\ holder = Nobody
  /\ holder' = r
  /\ req' = [req EXCEPT ![r].pc = "inside",
       ![r].seen = [w \in Window |->
                      IF w \in Limits(asks[r])
                        THEN count[asks[r]][w][Index(w, req[r].at)] ELSE 0]]
  /\ UNCHANGED <<asks, clock, jar, count>>

Exceeded(r, w) == w \in Limits(asks[r]) /\ req[r].seen[w] >= Cap(asks[r], w)

\* Both counters go up in one put.
CountIt(r) ==
  count' = [count EXCEPT ![asks[r]] =
    [w \in Window |-> IF w \in Limits(asks[r])
       THEN [@[w] EXCEPT ![Index(w, req[r].at)] = req[r].seen[w] + 1] ELSE @[w]]]

Decide_CountsRefusals(r) ==
  /\ At(r, "inside")
  /\ holder' = Nobody
  /\ CountIt(r)
  /\ req' = [req EXCEPT ![r].counted = ~\E w \in Window : Exceeded(r, w),
       ![r].answer = IF \E w \in Window : Exceeded(r, w) THEN 429 ELSE 0,
       ![r].pc = CASE \E w \in Window : Exceeded(r, w) -> "done"
                   [] asks[r] = "health" -> "probe" [] OTHER -> "body"]
  /\ UNCHANGED <<asks, clock, jar>>

Decide_KeepsBlocking(r) ==
  /\ At(r, "inside")
  /\ IF \E w \in Window : Exceeded(r, w)
       THEN Refuse(r) /\ UNCHANGED <<count, holder>>
       ELSE /\ CountIt(r) /\ holder' = Nobody
            /\ req' = [req EXCEPT ![r].counted = TRUE, ![r].seen = Unread,
                 ![r].pc = IF asks[r] = "health" THEN "probe" ELSE "body"]
  /\ UNCHANGED <<asks, clock, jar>>

\* Inside: the answer, and the way free for the next.
Decide(r) ==
  /\ At(r, "inside")
  /\ holder' = Nobody
  /\ IF \E w \in Window : Exceeded(r, w)
       THEN Refuse(r) /\ UNCHANGED count
       ELSE /\ CountIt(r)
            /\ req' = [req EXCEPT ![r].counted = TRUE, ![r].seen = Unread,
                 ![r].pc = IF asks[r] = "health" THEN "probe" ELSE "body"]
  /\ UNCHANGED <<asks, clock, jar>>

\* The body is read only now: what cannot be parsed has used up budget.
Body(r) ==
  /\ At(r, "body")
  /\ To(r, "dispatch") \/ Answer(r, 400)
  /\ UNCHANGED <<asks, clock, jar, count, holder>>

Promote(r) ==
  jar' = IF req[r].issued = NoCookie THEN jar
         ELSE [req[r].issued EXCEPT !.gone = clock + TicksPerHour]

Dispatch_AlwaysPromotes(r) ==
  /\ At(r, "dispatch") /\ Promote(r)
  /\ \E status \in {200, 422} :
       req' = [req EXCEPT ![r].pc = "done", ![r].answer = status, ![r].calls = @ + 1]
  /\ UNCHANGED <<asks, clock, count, holder>>

Dispatch_Thrice(r) ==
  /\ At(r, "dispatch")
  /\ req' = [req EXCEPT ![r].calls = @ + 1,
                ![r].pc = IF req[r].calls <= 1 THEN "dispatch" ELSE "done",
                ![r].answer = IF req[r].calls <= 1 THEN 0 ELSE 502]
  /\ UNCHANGED <<asks, clock, jar, count, holder>>

\* The container answered or failed; the first failure is tried again.
Dispatch(r) ==
  /\ At(r, "dispatch")
  /\ \/ /\ req' = [req EXCEPT ![r].pc = "done", ![r].answer = 200, ![r].calls = @ + 1]
        /\ Promote(r)
     \/ /\ req' = [req EXCEPT ![r].pc = "done", ![r].answer = 422, ![r].calls = @ + 1]
        /\ UNCHANGED jar
     \/ /\ req' = [req EXCEPT ![r].calls = @ + 1,
                     ![r].pc = IF req[r].calls = 0 THEN "dispatch" ELSE "done",
                     ![r].answer = IF req[r].calls = 0 THEN 0 ELSE 502]
        /\ UNCHANGED jar
  /\ UNCHANGED <<asks, clock, count, holder>>

\* The probe of the container has answered, or the list of languages it
\* left in LANG_CACHE has; else there is none.
Probe(r) ==
  /\ At(r, "probe")
  /\ \E status \in {200, 503} : Answer(r, status)
  /\ UNCHANGED <<asks, clock, jar, count, holder>>

\* Time passes; the browser forgets a cookie past its Max-Age.
Tick ==
  /\ clock < MaxTime
  /\ clock' = clock + 1
  /\ jar' = IF jar.gone <= clock' THEN NoCookie ELSE jar
  /\ UNCHANGED <<asks, req, count, holder>>

Work(r) == \/ SiteVerify(r) \/ Ask(r) \/ Enter(r)
           \/ Decide(r) \/ Body(r) \/ Dispatch(r) \/ Probe(r)

ServiceNext ==
  \/ \E r \in Request : Work(r)
  \/ \E r \in Request, solved \in BOOLEAN : Arrive(r, solved)
  \/ Tick

ServiceSpec == ServiceInit /\ [][ServiceNext]_service

-----------------------------------------------------------------------------
(* Properties. *)

Admitted(k, w, i) ==
  {r \in Request : req[r].counted /\ asks[r] = k /\ Index(w, req[r].at) = i}

\* However requests overlap, and whenever they leave the queue, no hour and
\* no day admits more of those that came in it than its cap.
WithinBudget ==
  \A k \in Kind, t \in Time : \A w \in Limits(k) :
    Cardinality(Admitted(k, w, Index(w, t))) <= Cap(k, w)

\* A refusal is always deserved: one of the windows of the refused request
\* has admitted all it may.  What was refused before is not held against it.
RefusedOnlyWhenSpent ==
  \A r \in Request : req[r].answer = 429 =>
    \E w \in Limits(asks[r]) :
      Cardinality(Admitted(asks[r], w, Index(w, req[r].at))) = Cap(asks[r], w)

\* Seen from its callers the limiter judges in one step, though it reads and
\* writes in two and requests overlap around it: a budget is a window of a
\* kind of request, drawn on from the moment the windows are fixed.
Budgets == UNION {{<<k, w, t>> : w \in Limits(k), t \in Time} : k \in Kind}
Drawn(r) == {<<asks[r], w, Index(w, req[r].at)>> : w \in Limits(asks[r])}
Refused(r) == req[r].answer = 429
HasAsked(r) == req[r].counted \/ Refused(r) \/ At(r, "queued") \/ At(r, "inside")
Limiter == INSTANCE AtomicBudget WITH
  Asker <- Request,
  Budget <- Budgets,
  Room <- [b \in Budgets |-> Cap(b[1], b[2])],
  spent <- [b \in Budgets |-> count[b[1]][b[2]][b[3]]],
  draws <- [r \in Request |-> IF HasAsked(r) THEN Drawn(r) ELSE {}],
  verdict <- [r \in Request |-> IF req[r].counted THEN "admitted"
                                ELSE IF Refused(r) THEN "refused" ELSE "none"]
AtomicBudgetSpec == Limiter!Spec

\* The browser holds a session only because a request that solved the
\* challenge was admitted, ran and was answered with code
\* (contracts/http-generate.md: only on a 200 that consumed a token).
SessionsAreEarned ==
  jar # NoCookie =>
    \E r \in Request : /\ req[r].answer = 200 /\ req[r].token /\ req[r].counted
                       /\ req[r].issued = [jar EXCEPT !.gone = 0]

\* The requests that wait for their answer.
Waiting == {r \in Request : req[r].pc \notin {"new", "done"}}
=============================================================================
