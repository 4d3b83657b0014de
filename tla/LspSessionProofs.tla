-------------------------- MODULE LspSessionProofs --------------------------
(***************************************************************************)
(* Proofs about LspSession for any documents, texts and bound.             *)
(*                                                                         *)
(* Four invariants stand on each other.  BuildInv holds what each object   *)
(* owes to the gate and to the texts: no server works before the gate      *)
(* opens, and what is not parsed will be.  Calls holds the life of a       *)
(* connection: initialize comes first, shutdown last, nothing is written   *)
(* behind a purge.  Sound holds where no answer and no build outlasts its  *)
(* net: memory goes only when storage has caught up.  Whole adds where     *)
(* each request of the client is, and what an object without a transport   *)
(* is; it makes every step one of SteadyServer or none.                    *)
(***************************************************************************)
EXTENDS LspSession, FiniteSetTheorems, TLAPS

-----------------------------------------------------------------------------
(* Types. *)

\* A client opens finitely many documents.
DocsAreFinite == IsFiniteSet(Doc)

(* SetToSeq lists a finite set without repetition. *)
LEMMA Listed ==
  ASSUME NEW S, IsFiniteSet(S)
  PROVE  /\ SetToSeq(S) \in Seq(S)
         /\ \A x \in S : \E i \in DOMAIN SetToSeq(S) : SetToSeq(S)[i] = x
         /\ \A i, j \in DOMAIN SetToSeq(S) : SetToSeq(S)[i] = SetToSeq(S)[j] => i = j
<1> DEFINE n == Cardinality(S)
<1>1. n \in Nat /\ ExistsBijection(1 .. n, S)
  BY FS_CardinalityType
<1>2. \E f \in [1 .. n -> S] : IsInjective(f)
  BY <1>1 DEF ExistsBijection, Bijection, Injection
<1>3. SetToSeq(S) \in [1 .. n -> S] /\ IsInjective(SetToSeq(S))
  BY <1>2 DEF SetToSeq
<1>4. SetToSeq(S) \in Injection(1 .. n, S)
  BY <1>3 DEF Injection
<1>5. IsFiniteSet(1 .. n) /\ Cardinality(1 .. n) = n
  BY <1>1, FS_Interval
<1>6. SetToSeq(S) \in Surjection(1 .. n, S)
  BY <1>4, <1>5, FS_Injection
<1>7. SetToSeq(S) \in Seq(S)
  BY <1>1, <1>3
<1>8. \A x \in S : \E i \in 1 .. n : SetToSeq(S)[i] = x
  BY <1>6 DEF Surjection
<1>9. QED
  BY <1>3, <1>7, <1>8 DEF IsInjective

(* What frames and jobs are made of. *)
LEMMA Frames ==
  /\ \A m \in Request \cup {"initialized"} : Message(m) \in Frame /\ Message(m).m = m
  /\ \A d \in Doc, t \in Text :
       /\ DidOpen(d, t) \in Frame /\ DidOpen(d, t).m = "didOpen"
       /\ DidChange(d, t) \in Frame /\ DidChange(d, t).m = "didChange"
  /\ \A d \in Doc : DidClose(d) \in Frame /\ DidClose(d).m = "didClose"
BY DEF Message, DidOpen, DidChange, DidClose, Frame

LEMMA DocumentFrame ==
  ASSUME NEW f \in Frame
  PROVE  /\ f.m \in Request \cup {"initialized", "didOpen", "didChange", "didClose"}
         /\ "doc" \in DOMAIN f => /\ f.doc \in Doc
                                  /\ f.m \in {"didOpen", "didChange", "didClose"}
                                  /\ f.m \in {"didOpen", "didChange"} => f.text \in Text
         /\ f.m \in Request \cup {"initialized"} => f = Message(f.m) /\ "doc" \notin DOMAIN f
<1>1. CASE f \in {Message(m) : m \in Request \cup {"initialized"}}
  <2>1. PICK m \in Request \cup {"initialized"} : f = [m |-> m]
    BY <1>1 DEF Message
  <2>2. f.m = m /\ DOMAIN f = {"m"}
    BY <2>1
  <2>3. QED
    BY <2>1, <2>2 DEF Message, Request
<1>2. CASE f \in [m : {"didOpen", "didChange"}, doc : Doc, text : Text]
  BY <1>2 DEF Request
<1>3. CASE f \in [m : {"didClose"}, doc : Doc]
  BY <1>3 DEF Request
<1>4. QED
  BY <1>1, <1>2, <1>3 DEF Frame

LEMMA Jobs ==
  /\ [op |-> "init"] \in Job /\ [op |-> "purge"] \in Job
  /\ \A d \in Doc : Delete(d) \in Job
  /\ \A D \in SUBSET Doc : \A b \in [D -> Text] : Put(b) \in Job
BY DEF Job, Delete, Put

LEMMA JobCases ==
  ASSUME NEW j \in Job
  PROVE  \/ j = [op |-> "init"] /\ j.op = "init"
         \/ j = [op |-> "purge"] /\ j.op = "purge"
         \/ j.op = "put" /\ j = Put(j.batch) /\ DOMAIN j.batch \subseteq Doc
            /\ \A d \in DOMAIN j.batch : j.batch[d] \in Text
         \/ j.op = "delete" /\ j.doc \in Doc /\ j = Delete(j.doc)
<1>1. CASE j \in {[op |-> "init"], [op |-> "purge"]}
  BY <1>1
<1>2. CASE j \in [op : {"put"}, batch : UNION {[D -> Text] : D \in SUBSET Doc}]
  <2>1. PICK b \in UNION {[D -> Text] : D \in SUBSET Doc} : j = [op |-> "put", batch |-> b]
    BY <1>2
  <2>2. PICK D \in SUBSET Doc : b \in [D -> Text]
    BY <2>1
  <2>3. QED
    BY <2>1, <2>2 DEF Put
<1>3. CASE j \in [op : {"delete"}, doc : Doc]
  BY <1>3 DEF Delete
<1>4. QED
  BY <1>1, <1>2, <1>3 DEF Job

(* The first of a queue, and what is left of it. *)
LEMMA Queue ==
  ASSUME NEW S, NEW q \in Seq(S), q # <<>>
  PROVE  /\ Head(q) \in S /\ Tail(q) \in Seq(S) /\ Head(q) = q[1]
         /\ Len(q) \in Nat /\ Len(q) > 0 /\ Len(Tail(q)) = Len(q) - 1
         /\ DOMAIN q = 1 .. Len(q) /\ DOMAIN Tail(q) = 1 .. Len(q) - 1
         /\ \A i \in 1 .. Len(q) - 1 : Tail(q)[i] = q[i + 1]
OBVIOUS

-----------------------------------------------------------------------------
(* Memory and builder. *)

\* A handler that waits has passed the gate; an object whose gate is not open
\* has no server at work: nothing is queued, built, answered or awaited.
Blank ==
  /\ text = Nothing /\ index = Nothing /\ stale = {}
  /\ updates = <<>> /\ build = "idle" /\ settle = {} /\ working = {} /\ acks = {}
Dormant ==
  /\ busy # "no" => gate = "open"
  /\ gate \in {"none", "replay", "failed"} => Blank

\* The last update queued for a document is what has become of it, and one
\* that has none queued is indexed as it is, or not parsed yet.
About(d) == {i \in DOMAIN updates : updates[i].doc = d}
Latest(i) == \A j \in DOMAIN updates : updates[j].doc = updates[i].doc => j <= i
Queued ==
  \A i \in DOMAIN updates :
    Latest(i) => (updates[i].kind = "deleted" <=> text[updates[i].doc] = None)
Indexed ==
  \A d \in Doc : About(d) = {} => \/ index[d] = text[d]
                                  \/ index[d] = Unparsed /\ text[d] # None

\* What is not parsed will be, and the build a wake waits for has no other
\* behind it.
Parsed == (\E d \in Doc : index[d] = Unparsed) => updates # <<>> \/ build = "started"
LinksAll == gate = "linking" /\ build \in {"parsed", "linked"} => updates = <<>>

\* What is queued on the workspace lock.
Order == [kind : {"changed", "deleted"}, doc : Doc]

BuildInv == TypeOK /\ Dormant /\ Queued /\ Indexed /\ Parsed /\ LinksAll

LEMMA Sequence ==
  ASSUME NEW S, NEW n \in Nat, NEW f \in [1 .. n -> S]
  PROVE  f \in Seq(S)
OBVIOUS

(* The replay queues a didOpen of each stored document. *)
LEMMA ReplayQueue ==
  ASSUME DocsAreFinite, store \in Docs, Replay
  PROVE  /\ updates' \in Seq(Order)
         /\ \A i \in DOMAIN updates' : updates'[i].kind = "changed" /\ updates'[i].doc \in Open(store)
         /\ \A d \in Open(store) : \E i \in DOMAIN updates' : updates'[i].doc = d
         /\ \A i, j \in DOMAIN updates' : updates'[i].doc = updates'[j].doc => i = j
         /\ Open(store) = {} <=> updates' = <<>>
<1> DEFINE docs == SetToSeq(Open(store))
<1>1. Open(store) \subseteq Doc /\ IsFiniteSet(Open(store))
  BY FS_Subset DEF DocsAreFinite, Open
<1>2. /\ docs \in Seq(Open(store))
      /\ \A x \in Open(store) : \E i \in DOMAIN docs : docs[i] = x
      /\ \A i, j \in DOMAIN docs : docs[i] = docs[j] => i = j
  BY <1>1, Listed
<1>3. updates' = [i \in DOMAIN docs |-> [kind |-> "changed", doc |-> docs[i]]]
  BY DEF Replay
<1> HIDE DEF docs
<1>4. DOMAIN updates' = DOMAIN docs /\ DOMAIN docs = 1 .. Len(docs) /\ Len(docs) \in Nat
  BY <1>2, <1>3
<1>5. \A i \in DOMAIN docs : docs[i] \in Open(store)
  BY <1>2
<1>6. \A i \in DOMAIN docs : updates'[i].kind = "changed" /\ updates'[i].doc = docs[i]
  BY <1>3
<1>7. updates' \in Seq(Order)
  <2>1. \A i \in 1 .. Len(docs) : [kind |-> "changed", doc |-> docs[i]] \in Order
    BY <1>1, <1>4, <1>5 DEF Order
  <2>2. updates' \in [1 .. Len(docs) -> Order]
    BY <2>1, <1>3, <1>4
  <2>3. QED
    BY <2>2, <1>4, Sequence
<1>8. Open(store) = {} <=> updates' = <<>>
  BY <1>2, <1>4, <1>5, <1>7
<1>9. \A i \in DOMAIN updates' : updates'[i].kind = "changed" /\ updates'[i].doc \in Open(store)
  BY <1>4, <1>5, <1>6
<1>10. \A d \in Open(store) : \E i \in DOMAIN updates' : updates'[i].doc = d
  BY <1>2, <1>4, <1>6
<1>11. \A i, j \in DOMAIN updates' : updates'[i].doc = updates'[j].doc => i = j
  BY <1>2, <1>4, <1>6
<1>12. QED
  BY <1>7, <1>8, <1>9, <1>10, <1>11
(* The types in four parts: Booleans for Zenon, the others for SMT. *)
Flags ==
  /\ init \in BOOLEAN /\ meta \in BOOLEAN /\ purged \in BOOLEAN
  /\ transport \in BOOLEAN /\ closed \in BOOLEAN
  /\ settle \subseteq BOOLEAN
Words ==
  /\ phase \in {"new", "starting", "running", "stopping", "gone", "reported"}
  /\ asked \subseteq Request
  /\ odd \subseteq {"replayed handshake", "not initialized"}
  /\ gate \in {"none", "replay", "linking", "open", "failed"}
  /\ busy \in {"no", "initialize", "shutdown"}
  /\ server \in {"created", "replaying", "initializing", "ready"}
  /\ stale \subseteq Doc
  /\ build \in {"idle", "started", "parsed", "linked"}
  /\ working \subseteq Request /\ acks \subseteq Request
Tables ==
  /\ editor \in Docs /\ store \in Docs /\ told \in Docs /\ text \in Docs
  /\ index \in [Doc -> Text \cup {None, Unparsed}]
Queues ==
  /\ wire \in Seq(Frame) /\ inbox \in Seq(Frame)
  /\ jobs \in Seq(Job)
  /\ updates \in Seq(Order)

LEMMA TypeParts == TypeOK <=> Flags /\ Words /\ Tables /\ Queues
BY Zenon DEF TypeOK, Flags, Words, Tables, Queues, Order

LEMMA TypePartsNext == TypeOK' <=> Flags' /\ Words' /\ Tables' /\ Queues'
BY Zenon DEF TypeOK, Flags, Words, Tables, Queues, Order

LEMMA Appended ==
  ASSUME NEW S, NEW q \in Seq(S), NEW x \in S
  PROVE  Append(q, x) \in Seq(S)
OBVIOUS

LEMMA Empty == \A S : <<>> \in Seq(S)
OBVIOUS

(* Every step keeps each part. *)
LEMMA WordsStep ==
  ASSUME Words, Queues, [Next]_vars
  PROVE  Words'
<1> USE DEF Words
<1>1. CASE Initialize
  BY <1>1
  DEF Initialize, SendRequest, Send, Request, vars, client, storage, builder,
      promises, session, memory
<1>2. CASE Hover
  BY <1>2
  DEF Hover, SendRequest, Send, Request, vars, client, storage, builder,
      promises, session, memory
<1>3. CASE Shutdown
  BY <1>3
  DEF Shutdown, SendRequest, Send, Request, vars, client, storage, builder,
      promises, session, memory
<1>4. CASE Disconnect
  BY <1>4
  DEF Disconnect, vars, client, storage, builder, promises, session, memory
<1>5. CASE Evict
  BY <1>5
  DEF Evict, vars, client, storage, builder, promises, session, memory
<1>6. CASE Wake
  BY <1>6
  DEF Wake, vars, client, storage, builder, promises, session, memory
<1>7. CASE Close
  BY <1>7
  DEF Close, vars, client, storage, builder, promises, session, memory
<1>8. CASE Refuse
  BY <1>8
  DEF Refuse, Error, vars, client, storage, builder, promises, session,
      memory
<1>9. CASE HandleRequest
  BY <1>9
  DEF HandleRequest, Handle, Receive, Throw, Error, Request, vars, client,
      storage, builder, promises, session, memory
<1>10. CASE HandleInitialize
  BY <1>10
  DEF HandleInitialize, Handle, vars, client, storage, builder, promises,
      session, memory
<1>11. CASE HandleShutdown
  BY <1>11
  DEF HandleShutdown, Handle, vars, client, storage, builder, promises,
      session, memory
<1>12. CASE Resume
  BY <1>12
  DEF Resume, Receive, Throw, Error, Request, vars, client, storage, builder,
      promises, session, memory
<1>13. CASE BeginUpdate
  <2>1. Head(updates) \in Order
    BY <1>13, Queue DEF BeginUpdate, Queues
  <2>2. stale' \subseteq Doc /\ build' \in {"idle", "started"}
    BY <1>13, <2>1 DEF BeginUpdate, Order
  <2>3. QED
    BY <1>13, <2>2
    DEF BeginUpdate, vars, client, storage, builder, promises, session, memory
<1>14. CASE Parse
  BY <1>14
  DEF Parse, vars, client, storage, builder, promises, session, memory
<1>15. CASE Link
  BY <1>15
  DEF Link, vars, client, storage, builder, promises, session, memory
<1>16. CASE Validate
  BY <1>16
  DEF Validate, vars, client, storage, builder, promises, session, memory
<1>17. CASE Abandon
  BY <1>17
  DEF Abandon, vars, client, storage, builder, promises, session, memory
<1>18. CASE HandshakeReplayed
  BY <1>18
  DEF HandshakeReplayed, Replay, vars, client, storage, builder, promises,
      session, memory
<1>19. CASE Initialized
  BY <1>19
  DEF Initialized, Reply, vars, client, storage, builder, promises, session,
      memory
<1>20. ASSUME NEW m \in Request, Answer(m) PROVE Words'
  BY <1>20
  DEF Answer, Reply, vars, client, storage, builder, promises, session,
      memory
<1>21. CASE ReplayTimeout
  BY <1>21
  DEF ReplayTimeout, Replay, vars, client, storage, builder, promises,
      session, memory
<1>22. ASSUME NEW m \in Request, AckTimeout(m) PROVE Words'
  BY <1>22
  DEF AckTimeout, vars, client, storage, builder, promises, session, memory
<1>23. CASE \/ Edit \/ Deliver \/ RunJob \/ HandleInitialized
            \/ HandleDocument \/ SettleTimeout \/ UNCHANGED vars
  <2>1. UNCHANGED <<phase, asked, odd, gate, busy, server, stale, build, working, acks>>
    BY <1>23
    DEF Edit, Send, Deliver, RunJob, HandleInitialized, Handle,
        HandleDocument, SettleTimeout, vars, client, storage, builder,
        promises, session, memory
  <2>2. QED
    BY <2>1
<1>24. QED
  BY <1>1, <1>2, <1>3, <1>4, <1>5, <1>6, <1>7, <1>8, <1>9, <1>10, <1>11,
     <1>12, <1>13, <1>14, <1>15, <1>16, <1>17, <1>18, <1>19, <1>20, <1>21,
     <1>22, <1>23
  DEF Next, Client, Event, Handler, Builder, Server, Timeout

LEMMA TablesStep ==
  ASSUME Tables, Queues, [Next]_vars
  PROVE  Tables'
<1> USE DEF Tables
<1>1. CASE Edit
  BY <1>1
  DEF Edit, Send, Nothing, Docs, vars, client, storage, builder, promises,
      session, memory
<1>2. CASE Disconnect
  BY <1>2
  DEF Disconnect, Nothing, Docs, vars, client, storage, builder, promises,
      session, memory
<1>3. CASE Evict
  BY <1>3
  DEF Evict, Nothing, Docs, vars, client, storage, builder, promises,
      session, memory
<1>4. CASE RunJob
  <2>1. Head(jobs) \in Job
    BY <1>4, Queue DEF RunJob, Queues
  <2>2. store' \in Docs
    <3>1. CASE Head(jobs).op = "put" /\ \A d \in DOMAIN Head(jobs).batch : Head(jobs).batch[d] \in Text
      BY <1>4, <3>1 DEF RunJob, Docs
    <3>2. CASE Head(jobs).op \in {"init", "purge", "delete"}
      BY <1>4, <3>2 DEF RunJob, Docs, Nothing
    <3>3. QED
      BY <2>1, <3>1, <3>2, JobCases
  <2>3. QED
    BY <1>4, <2>2
    DEF RunJob, client, storage, builder, session, memory
<1>5. CASE HandleDocument
  <2>1. PICK f \in {g \in Range(inbox) : "doc" \in DOMAIN g} :
          \/ told' = After(told, f) /\ text' = After(text, f)
          \/ UNCHANGED <<told, text>>
    BY <1>5 DEF HandleDocument
  <2>2. f \in Frame
    BY <2>1 DEF Range, Queues
  <2>3. \A docs \in Docs : After(docs, f) \in Docs
    BY <2>1, <2>2, DocumentFrame DEF After, Takes, Docs
  <2>4. told' \in Docs /\ text' \in Docs
    BY <2>1, <2>3
  <2>5. QED
    BY <1>5, <2>4 DEF HandleDocument, Handle, client, storage
<1>6. CASE BeginUpdate
  BY <1>6
  DEF BeginUpdate, Nothing, Docs, vars, client, storage, builder, promises,
      session, memory
<1>7. CASE Parse
  BY <1>7
  DEF Parse, Nothing, Docs, vars, client, storage, builder, promises,
      session, memory
<1>8. CASE HandshakeReplayed
  BY <1>8
  DEF HandshakeReplayed, Replay, Nothing, Docs, vars, client, storage,
      builder, promises, session, memory
<1>9. CASE ReplayTimeout
  BY <1>9
  DEF ReplayTimeout, Replay, Nothing, Docs, vars, client, storage, builder,
      promises, session, memory
<1>10. CASE \/ Initialize \/ Hover \/ Shutdown \/ Wake \/ Deliver \/ Close
            \/ Refuse \/ HandleRequest \/ HandleInitialized
            \/ HandleInitialize \/ HandleShutdown \/ Resume \/ Link
            \/ Validate \/ Abandon \/ Initialized
            \/ (\E m \in Request : Answer(m)) \/ SettleTimeout
            \/ (\E m \in Request : AckTimeout(m)) \/ UNCHANGED vars
  <2>1. UNCHANGED <<editor, store, told, text, index>>
    BY <1>10
    DEF Initialize, SendRequest, Send, Hover, Shutdown, Wake, Deliver, Close,
        Refuse, Error, HandleRequest, Handle, Receive, Throw,
        HandleInitialized, HandleInitialize, HandleShutdown, Resume, Link,
        Validate, Abandon, Initialized, Reply, Answer, SettleTimeout,
        AckTimeout, vars, client, storage, builder, promises, session, memory
  <2>2. QED
    BY <2>1
<1>11. QED
  BY <1>1, <1>2, <1>3, <1>4, <1>5, <1>6, <1>7, <1>8, <1>9, <1>10
  DEF Next, Client, Event, Handler, Builder, Server, Timeout

LEMMA QueuesStep ==
  ASSUME DocsAreFinite, Tables, Queues, Indexed, [Next]_vars
  PROVE  Queues'
<1> USE DEF Queues
<1>1. CASE Initialize
  <2>1. Message("initialize") \in Frame
    BY Frames DEF Request
  <2>2. wire' \in {wire, Append(wire, Message("initialize"))} /\ UNCHANGED <<inbox, jobs, updates>>
    BY <1>1
    DEF Initialize, SendRequest, Send, vars, client, storage, builder,
        promises, session, memory
  <2>3. QED
    BY <2>1, <2>2, Appended
<1>2. CASE Edit
  <2>1. PICK f : /\ wire' = Append(wire, f)
                 /\ \/ \E d \in Doc, t \in Text : f = DidOpen(d, t) \/ f = DidChange(d, t)
                    \/ \E d \in Doc : f = DidClose(d)
    BY <1>2 DEF Edit, Send
  <2>2. wire' \in Seq(Frame)
    BY <2>1, Frames
  <2>3. QED
    BY <1>2, <2>2 DEF Edit, memory, session, builder
<1>3. CASE Hover
  <2>1. Message("hover") \in Frame
    BY Frames DEF Request
  <2>2. wire' \in {wire, Append(wire, Message("hover"))} /\ UNCHANGED <<inbox, jobs, updates>>
    BY <1>3
    DEF Hover, SendRequest, Send, vars, client, storage, builder, promises,
        session, memory
  <2>3. QED
    BY <2>1, <2>2, Appended
<1>4. CASE Shutdown
  <2>1. Message("shutdown") \in Frame
    BY Frames DEF Request
  <2>2. wire' \in {wire, Append(wire, Message("shutdown"))} /\ UNCHANGED <<inbox, jobs, updates>>
    BY <1>4
    DEF Shutdown, SendRequest, Send, vars, client, storage, builder,
        promises, session, memory
  <2>3. QED
    BY <2>1, <2>2, Appended
<1>5. CASE Disconnect
  <2>0. wire' = wire \/ wire' = <<>>
    BY <1>5 DEF Disconnect
  <2>1. wire' \in Seq(Frame)
    BY <2>0, Empty
  <2>2. QED
    BY <1>5, <2>1 DEF Disconnect, memory, session, builder
<1>6. CASE Evict
  BY <1>6
  DEF Evict, vars, client, storage, builder, promises, session, memory
<1>7. CASE Wake
  BY <1>7
  DEF Wake, vars, client, storage, builder, promises, session, memory
<1>8. CASE Deliver
  BY <1>8
  DEF Deliver, vars, client, storage, builder, promises, session, memory
<1>9. CASE Close
  <2>1. jobs' \in Seq(Job)
    BY <1>9, Jobs DEF Close
  <2>2. QED
    BY <1>9, <2>1 DEF Close, builder
<1>10. CASE RunJob
  BY <1>10
  DEF RunJob, vars, client, storage, builder, promises, session, memory
<1>11. CASE Refuse
  BY <1>11
  DEF Refuse, Error, vars, client, storage, builder, promises, session,
      memory
<1>12. CASE HandleRequest
  <2>1. UNCHANGED wire
    BY <1>12 DEF HandleRequest, Receive, Throw, Error, client
  <2>2. QED
    BY <1>12, <2>1 DEF HandleRequest, Handle, builder
<1>13. CASE HandleInitialized
  BY <1>13
  DEF HandleInitialized, Handle, vars, client, storage, builder, promises,
      session, memory
<1>14. CASE HandleInitialize
  <2>1. jobs' \in Seq(Job)
    BY <1>14, Jobs DEF HandleInitialize
  <2>2. QED
    BY <1>14, <2>1 DEF HandleInitialize, Handle, client, builder
<1>15. CASE HandleShutdown
  <2>1. jobs' \in Seq(Job)
    BY <1>15, Jobs DEF HandleShutdown
  <2>2. QED
    BY <1>15, <2>1 DEF HandleShutdown, Handle, client, builder
<1>16. CASE HandleDocument
  <2>1. PICK f \in {g \in Range(inbox) : "doc" \in DOMAIN g} :
          \/ updates' = Append(updates, Update(f))
          \/ UNCHANGED updates
    BY <1>16 DEF HandleDocument
  <2>2. f \in Frame
    BY <2>1 DEF Range
  <2>3. Update(f) \in Order
    BY <2>1, <2>2, DocumentFrame DEF Update, Order
  <2>4. updates' \in Seq(Order)
    BY <2>1, <2>3, Appended
  <2>5. QED
    BY <1>16, <2>4 DEF HandleDocument, Handle, client
<1>17. CASE BeginUpdate
  <2>1. /\ Head(updates) \in Order
        /\ updates' \in Seq(Order)
    BY <1>17, Queue DEF BeginUpdate
  <2>2. jobs' \in Seq(Job)
    <3>1. jobs' \in {jobs, Append(jobs, Delete(Head(updates).doc))}
      BY <1>17 DEF BeginUpdate
    <3>2. Delete(Head(updates).doc) \in Job
      BY <2>1, Jobs DEF Order
    <3>3. QED
      BY <3>1, <3>2, Appended
  <2>3. QED
    BY <1>17, <2>1, <2>2 DEF BeginUpdate, client, session
<1>18. CASE Parse
  <2> DEFINE batch == [d \in {e \in Doc : index[e] = Unparsed} |-> text[d]]
  <2>1. \A d \in Doc : index[d] = Unparsed => text[d] \in Text
    BY <1>18, MarksAreDistinct DEF Parse, Indexed, About, Tables, Docs
  <2>2. batch \in [{e \in Doc : index[e] = Unparsed} -> Text]
    BY <2>1
  <2>3. Put(batch) \in Job
    <3> HIDE DEF batch
    <3>1. QED
      BY <2>2, Jobs
  <2>4. jobs' \in {jobs, Append(jobs, Put(batch))}
    BY <1>18 DEF Parse
  <2>5. jobs' \in Seq(Job)
    <3> HIDE DEF batch
    <3>1. QED
      BY <2>3, <2>4, Appended
  <2>6. QED
    BY <1>18, <2>5 DEF Parse, client, session
<1>19. CASE HandshakeReplayed
  <2>1. CASE Replay
    <3>1. updates' \in Seq(Order)
      BY <2>1, ReplayQueue DEF Tables
    <3>2. QED
      BY <1>19, <2>1, <3>1 DEF HandshakeReplayed, Replay, client
  <2>2. CASE UNCHANGED <<inbox, updates>>
    BY <1>19, <2>2 DEF HandshakeReplayed, client
  <2>3. QED
    BY <1>19, <2>1, <2>2 DEF HandshakeReplayed, session, builder
<1>20. CASE Initialized
  <2>1. Message("initialized") \in Frame
    BY Frames DEF Request
  <2>2. wire' \in {wire, Append(wire, Message("initialized"))} /\ UNCHANGED <<inbox, jobs, updates>>
    BY <1>20
    DEF Initialized, Reply, vars, client, storage, builder, promises,
        session, memory
  <2>3. QED
    BY <2>1, <2>2, Appended
<1>21. ASSUME NEW m \in Request, Answer(m) PROVE Queues'
  <2>1. Message("initialized") \in Frame
    BY Frames DEF Request
  <2>2. wire' \in {wire, Append(wire, Message("initialized"))} /\ UNCHANGED <<inbox, jobs, updates>>
    BY <1>21
    DEF Answer, Reply, vars, client, storage, builder, promises, session,
        memory
  <2>3. QED
    BY <2>1, <2>2, Appended
<1>22. CASE ReplayTimeout
  <2>1. CASE Replay
    <3>1. updates' \in Seq(Order)
      BY <2>1, ReplayQueue DEF Tables
    <3>2. QED
      BY <1>22, <2>1, <3>1 DEF ReplayTimeout, Replay, client
  <2>2. CASE UNCHANGED <<inbox, updates>>
    BY <1>22, <2>2 DEF ReplayTimeout, client
  <2>3. QED
    BY <1>22, <2>1, <2>2 DEF ReplayTimeout, session, builder
<1>23. CASE \/ Resume \/ Link \/ Validate \/ Abandon \/ SettleTimeout
            \/ (\E m \in Request : AckTimeout(m)) \/ UNCHANGED vars
  <2>1. UNCHANGED <<wire, inbox, jobs, updates>>
    BY <1>23
    DEF Resume, Receive, Throw, Error, Link, Validate, Abandon,
        SettleTimeout, AckTimeout, vars, client, storage, builder, promises,
        session, memory
  <2>2. QED
    BY <2>1
<1>24. QED
  BY <1>1, <1>2, <1>3, <1>4, <1>5, <1>6, <1>7, <1>8, <1>9, <1>10, <1>11,
     <1>12, <1>13, <1>14, <1>15, <1>16, <1>17, <1>18, <1>19, <1>20, <1>21,
     <1>22, <1>23
  DEF Next, Client, Event, Handler, Builder, Server, Timeout

LEMMA FlagsStep ==
  ASSUME Flags, Queues, [Next]_vars
  PROVE  Flags'
<1> USE DEF Flags
<1>1. CASE Evict
  BY <1>1
  DEF Evict, vars, client, storage, builder, promises, session, memory
<1>2. CASE Wake
  BY <1>2
  DEF Wake, vars, client, storage, builder, promises, session, memory
<1>3. CASE Close
  BY <1>3
  DEF Close, vars, client, storage, builder, promises, session, memory
<1>4. CASE RunJob
  <2>1. Head(jobs) \in Job
    BY <1>4, Queue DEF RunJob, Queues
  <2>2. \/ init' = TRUE /\ UNCHANGED <<meta, purged>>
        \/ init' = FALSE /\ meta' = FALSE /\ purged' = TRUE
        \/ UNCHANGED <<init, meta, purged>>
    BY <1>4, <2>1, JobCases DEF RunJob
  <2>3. init' \in BOOLEAN /\ meta' \in BOOLEAN /\ purged' \in BOOLEAN
    BY <2>2, Zenon
  <2>4. UNCHANGED <<transport, closed, settle>>
    BY <1>4 DEF RunJob, memory, session, promises
  <2>5. QED
    BY <2>3, <2>4, Zenon
<1>5. CASE HandleShutdown
  BY <1>5
  DEF HandleShutdown, Handle, vars, client, storage, builder, promises,
      session, memory
<1>6. CASE HandleDocument
  <2>1. settle' = settle \cup {FALSE} \/ UNCHANGED settle
    BY <1>6 DEF HandleDocument
  <2>2. UNCHANGED <<init, meta, purged, transport, closed>>
    BY <1>6 DEF HandleDocument, Handle, storage
  <2>3. settle' \subseteq BOOLEAN
    <3> DEFINE more == settle \cup {FALSE}
    <3>1. \A S : settle \subseteq S /\ FALSE \in S => more \subseteq S
      OBVIOUS
    <3>2. more \subseteq BOOLEAN
      BY <3>1, Zenon
    <3> HIDE DEF more
    <3>3. settle' = more \/ settle' = settle
      BY <2>1 DEF more
    <3>4. QED
      BY <3>2, <3>3, Zenon
  <2>4. QED
    BY <2>2, <2>3, Zenon
<1>7. CASE BeginUpdate
  BY <1>7
  DEF BeginUpdate, vars, client, storage, builder, promises, session, memory
<1>8. CASE Validate
  BY <1>8
  DEF Validate, vars, client, storage, builder, promises, session, memory
<1>9. CASE SettleTimeout
  BY <1>9
  DEF SettleTimeout, vars, client, storage, builder, promises, session,
      memory
<1>10. CASE \/ Initialize \/ Edit \/ Hover \/ Shutdown \/ Disconnect
            \/ Deliver \/ Refuse \/ HandleRequest \/ HandleInitialized
            \/ HandleInitialize \/ Resume \/ Parse \/ Link \/ Abandon
            \/ HandshakeReplayed \/ Initialized
            \/ (\E m \in Request : Answer(m)) \/ ReplayTimeout
            \/ (\E m \in Request : AckTimeout(m)) \/ UNCHANGED vars
  <2>1. UNCHANGED <<init, meta, purged, transport, closed, settle>>
    BY <1>10
    DEF Initialize, SendRequest, Send, Edit, Hover, Shutdown, Disconnect,
        Deliver, Refuse, Error, HandleRequest, Handle, Receive, Throw,
        HandleInitialized, HandleInitialize, Resume, Parse, Link, Abandon,
        HandshakeReplayed, Replay, Initialized, Reply, Answer, ReplayTimeout,
        AckTimeout, vars, client, storage, builder, promises, session, memory
  <2>2. QED
    BY <2>1
<1>11. QED
  BY <1>1, <1>2, <1>3, <1>4, <1>5, <1>6, <1>7, <1>8, <1>9, <1>10
  DEF Next, Client, Event, Handler, Builder, Server, Timeout

LEMMA TypeStep ==
  ASSUME DocsAreFinite, TypeOK, Indexed, [Next]_vars
  PROVE  TypeOK'
BY TypeParts, TypePartsNext, FlagsStep, WordsStep, TablesStep, QueuesStep

LEMMA TypeInit ==
  ASSUME Init
  PROVE  TypeOK
<1>1. Flags
  BY Zenon DEF Init, Fresh, Flags
<1>2. Words /\ Tables
  BY DEF Init, Fresh, Words, Tables, Docs, Nothing
<1>3. Queues
  BY Empty DEF Init, Fresh, Queues
<1>4. QED
  BY <1>1, <1>2, <1>3, TypeParts


(* Every step keeps what the builder owes to the gate and to the texts. *)
LEMMA DormantStep ==
  ASSUME TypeOK, Dormant, [Next]_vars
  PROVE  Dormant'
<1> USE DEF Dormant
<1>1. CASE Evict
  BY <1>1
  DEF Evict, Blank, vars, client, storage, builder, promises, session, memory
<1>2. CASE Wake
  BY <1>2
  DEF Wake, Blank, vars, client, storage, builder, promises, session, memory
<1>3. CASE HandleRequest
  BY <1>3
  DEF HandleRequest, Handle, Receive, Throw, Error, Blank, vars, client,
      storage, builder, promises, session, memory
<1>4. CASE HandleInitialize
  BY <1>4
  DEF HandleInitialize, Handle, Blank, vars, client, storage, builder,
      promises, session, memory
<1>5. CASE HandleShutdown
  BY <1>5
  DEF HandleShutdown, Handle, Blank, vars, client, storage, builder,
      promises, session, memory
<1>6. CASE HandleDocument
  BY <1>6
  DEF HandleDocument, Handle, Blank, vars, client, storage, builder,
      promises, session, memory
<1>7. CASE Resume
  BY <1>7
  DEF Resume, Receive, Throw, Error, Blank, vars, client, storage, builder,
      promises, session, memory
<1>8. CASE BeginUpdate
  BY <1>8
  DEF BeginUpdate, Blank, vars, client, storage, builder, promises, session,
      memory
<1>9. CASE Parse
  BY <1>9
  DEF Parse, Blank, vars, client, storage, builder, promises, session, memory
<1>10. CASE Link
  BY <1>10
  DEF Link, Blank, vars, client, storage, builder, promises, session, memory
<1>11. CASE Validate
  BY <1>11
  DEF Validate, Blank, vars, client, storage, builder, promises, session,
      memory
<1>12. CASE Abandon
  BY <1>12
  DEF Abandon, Blank, vars, client, storage, builder, promises, session,
      memory
<1>13. CASE HandshakeReplayed
  BY <1>13
  DEF HandshakeReplayed, Replay, Blank, vars, client, storage, builder,
      promises, session, memory
<1>14. CASE Initialized
  BY <1>14
  DEF Initialized, Reply, Blank, vars, client, storage, builder, promises,
      session, memory
<1>15. ASSUME NEW m \in Request, Answer(m) PROVE Dormant'
  BY <1>15
  DEF Answer, Reply, Blank, vars, client, storage, builder, promises,
      session, memory
<1>16. CASE ReplayTimeout
  BY <1>16
  DEF ReplayTimeout, Replay, Blank, vars, client, storage, builder, promises,
      session, memory
<1>17. CASE SettleTimeout
  BY <1>17
  DEF SettleTimeout, Blank, vars, client, storage, builder, promises,
      session, memory
<1>18. ASSUME NEW m \in Request, AckTimeout(m) PROVE Dormant'
  BY <1>18
  DEF AckTimeout, Blank, vars, client, storage, builder, promises, session,
      memory
<1>19. CASE \/ Initialize \/ Edit \/ Hover \/ Shutdown \/ Disconnect
            \/ Deliver \/ Close \/ RunJob \/ Refuse \/ HandleInitialized
            \/ UNCHANGED vars
  <2>1. UNCHANGED <<busy, gate, text, index, stale, updates, build, settle, working, acks>>
    BY <1>19
    DEF Initialize, SendRequest, Send, Edit, Hover, Shutdown, Disconnect,
        Deliver, Close, RunJob, Refuse, Error, HandleInitialized, Handle,
        vars, client, storage, builder, promises, session, memory
  <2>2. QED
    BY <2>1 DEF Blank
<1>20. QED
  BY <1>1, <1>2, <1>3, <1>4, <1>5, <1>6, <1>7, <1>8, <1>9, <1>10, <1>11,
     <1>12, <1>13, <1>14, <1>15, <1>16, <1>17, <1>18, <1>19
  DEF Next, Client, Event, Handler, Builder, Server, Timeout

Builds == Queued /\ Indexed /\ Parsed /\ LinksAll

LEMMA ReplayBuilds ==
  ASSUME DocsAreFinite, TypeOK, Dormant, gate = "replay", Replay, UNCHANGED store
  PROVE  Builds'
<1>1. Blank
  BY DEF Dormant
<1>2. /\ text' = store /\ index' = Nothing /\ build' = "idle" /\ store \in Docs
  BY <1>1 DEF Replay, Blank, TypeOK
<1>3. /\ \A i \in DOMAIN updates' : updates'[i].kind = "changed" /\ updates'[i].doc \in Open(store)
      /\ \A d \in Open(store) : \E i \in DOMAIN updates' : updates'[i].doc = d
  BY <1>2, ReplayQueue
<1>4. Queued'
  BY <1>2, <1>3 DEF Queued, Open
<1>5. Indexed'
  BY <1>2, <1>3 DEF Indexed, About, Open, Nothing
<1>6. Parsed' /\ LinksAll'
  BY <1>2, MarksAreDistinct DEF Parsed, LinksAll, Nothing
<1>7. QED
  BY <1>4, <1>5, <1>6 DEF Builds

LEMMA HandleBuilds ==
  ASSUME TypeOK, Builds, HandleDocument
  PROVE  Builds'
<1>1. PICK f \in {g \in Range(inbox) : "doc" \in DOMAIN g} :
        /\ gate = "open" /\ UNCHANGED <<gate, index, build>>
        /\ IF transport
             THEN /\ text' = After(text, f)
                  /\ updates' = IF Takes(text, f) THEN Append(updates, Update(f)) ELSE updates
             ELSE UNCHANGED <<text, updates>>
  BY DEF HandleDocument, Handle
<1>2. CASE UNCHANGED <<text, updates>>
  BY <1>1, <1>2 DEF Builds, Queued, Latest, Indexed, About, Parsed, LinksAll
<1>3. CASE /\ Takes(text, f)
           /\ text' = [text EXCEPT ![f.doc] = IF f.m = "didClose" THEN None ELSE f.text]
           /\ updates' = Append(updates, Update(f))
  <2> DEFINE n == Len(updates) + 1
  <2>1. f \in Frame
    BY <1>1, TypeParts DEF Range, Queues
  <2>2. /\ f.doc \in Doc
        /\ text' \in Docs /\ (text'[f.doc] = None <=> f.m = "didClose")
        /\ \A d \in Doc : d # f.doc => text'[d] = text[d]
    BY <1>1, <1>3, <2>1, DocumentFrame, MarksAreDistinct DEF TypeOK, Docs
  <2>3. Update(f).doc = f.doc /\ (Update(f).kind = "deleted" <=> f.m = "didClose")
    BY DEF Update
  <2>4. /\ Len(updates) \in Nat /\ DOMAIN updates = 1 .. Len(updates)
        /\ DOMAIN updates' = 1 .. n /\ updates'[n] = Update(f)
        /\ \A i \in 1 .. Len(updates) : updates'[i] = updates[i] /\ updates[i].doc \in Doc
    <3>1. updates \in Seq(Order)
      BY TypeParts DEF Queues
    <3>2. /\ Len(updates) \in Nat /\ DOMAIN updates = 1 .. Len(updates)
          /\ DOMAIN updates' = 1 .. n /\ updates'[n] = Update(f)
          /\ \A i \in 1 .. Len(updates) : updates'[i] = updates[i] /\ updates[i] \in Order
      BY <1>3, <3>1
    <3>3. \A o \in Order : o.doc \in Doc
      BY DEF Order
    <3>4. QED
      BY <3>2, <3>3
  <2>5. Queued'
    <3>1. SUFFICES ASSUME NEW i \in DOMAIN updates', Latest(i)'
                   PROVE  updates'[i].kind = "deleted" <=> text'[updates'[i].doc] = None
      BY DEF Queued
    <3>2. CASE i = n
      BY <3>2, <2>2, <2>3, <2>4
    <3>3. CASE i \in 1 .. Len(updates)
      <4>1. updates[i].doc # f.doc
        BY <3>1, <3>3, <2>3, <2>4 DEF Latest
      <4>2. Latest(i)
        BY <3>1, <3>3, <2>4 DEF Latest
      <4>3. QED
        BY <3>3, <4>1, <4>2, <2>2, <2>4 DEF Builds, Queued
    <3>4. QED
      BY <3>1, <3>2, <3>3, <2>4
  <2>6. Indexed'
    <3>1. SUFFICES ASSUME NEW d \in Doc, About(d)' = {}
                   PROVE  \/ index'[d] = text'[d]
                          \/ index'[d] = Unparsed /\ text'[d] # None
      BY DEF Indexed
    <3>2. d # f.doc /\ About(d) = {}
      BY <3>1, <2>3, <2>4 DEF About
    <3>3. QED
      BY <3>2, <1>1, <2>2 DEF Builds, Indexed
  <2>7. Parsed' /\ LinksAll'
    BY <1>1, <2>4 DEF Parsed, LinksAll
  <2>8. QED
    BY <2>5, <2>6, <2>7 DEF Builds
<1>4. QED
  BY <1>1, <1>2, <1>3 DEF After

LEMMA BeginBuilds ==
  ASSUME TypeOK, Builds, BeginUpdate
  PROVE  Builds'
<1> DEFINE u == Head(updates)
<1>1. /\ u \in Order /\ u = updates[1] /\ Len(updates) \in Nat /\ Len(updates) > 0
      /\ DOMAIN updates = 1 .. Len(updates) /\ DOMAIN updates' = 1 .. Len(updates) - 1
      /\ \A i \in 1 .. Len(updates) - 1 : updates'[i] = updates[i + 1]
  <2>1. updates \in Seq(Order) /\ updates # <<>> /\ updates' = Tail(updates)
    BY TypeParts DEF BeginUpdate, Queues
  <2>2. QED
    BY <2>1, Queue
<1>2. /\ UNCHANGED <<text, gate>>
      /\ build' = IF updates' = <<>> THEN "started" ELSE "idle"
      /\ index' = [index EXCEPT ![u.doc] = IF u.kind = "changed" THEN Unparsed ELSE None]
  BY DEF BeginUpdate, session
<1> HIDE DEF u
<1>3. u.doc \in Doc /\ u.kind \in {"changed", "deleted"} /\ index \in [Doc -> Text \cup {None, Unparsed}]
  BY <1>1 DEF Order, TypeOK
<1>4. Queued'
  <2>1. SUFFICES ASSUME NEW i \in DOMAIN updates', Latest(i)'
                 PROVE  updates'[i].kind = "deleted" <=> text'[updates'[i].doc] = None
    BY DEF Queued
  <2>2. Latest(i + 1)
    <3>1. SUFFICES ASSUME NEW j \in DOMAIN updates, updates[j].doc = updates[i + 1].doc
                   PROVE  j <= i + 1
      BY DEF Latest
    <3>2. CASE j > 1
      <4>1. j - 1 \in DOMAIN updates' /\ updates'[j - 1] = updates[j]
        BY <1>1, <3>2
      <4>2. j - 1 <= i
        BY <1>1, <2>1, <3>1, <4>1 DEF Latest
      <4>3. QED
        BY <1>1, <4>2
    <3>3. QED
      BY <1>1, <3>2
  <2>3. QED
    BY <1>1, <1>2, <2>2 DEF Builds, Queued
<1>5. Indexed'
  <2>1. SUFFICES ASSUME NEW d \in Doc, About(d)' = {}
                 PROVE  \/ index'[d] = text'[d]
                        \/ index'[d] = Unparsed /\ text'[d] # None
    BY DEF Indexed
  <2>2. \A j \in DOMAIN updates : updates[j].doc = d => j = 1
    <3>1. SUFFICES ASSUME NEW j \in DOMAIN updates, updates[j].doc = d, j > 1 PROVE FALSE
      BY <1>1
    <3>2. j - 1 \in DOMAIN updates' /\ updates'[j - 1].doc = d
      BY <1>1, <3>1
    <3>3. QED
      BY <2>1, <3>2 DEF About
  <2>3. CASE d = u.doc
    <3>1. Latest(1)
      BY <1>1, <2>2, <2>3 DEF Latest
    <3>2. u.kind = "deleted" <=> text[d] = None
      BY <1>1, <2>3, <3>1 DEF Builds, Queued
    <3>3. QED
      BY <1>2, <1>3, <2>3, <3>2
  <2>4. CASE d # u.doc
    <3>1. About(d) = {}
      BY <1>1, <2>2, <2>4 DEF About
    <3>2. QED
      BY <1>2, <1>3, <2>4, <3>1 DEF Builds, Indexed
  <2>5. QED
    BY <2>3, <2>4
<1>6. Parsed' /\ LinksAll'
  BY <1>2 DEF Parsed, LinksAll
<1>7. QED
  BY <1>4, <1>5, <1>6 DEF Builds

LEMMA ParseBuilds ==
  ASSUME TypeOK, Builds, Parse
  PROVE  Builds' /\ index' = text'
<1>1. /\ updates = <<>> /\ UNCHANGED <<updates, text, gate>>
      /\ index' = [d \in Doc |-> IF index[d] = Unparsed THEN text[d] ELSE index[d]]
  BY DEF Parse, session
<1>2. \A d \in Doc : index'[d] = text[d]
  BY <1>1 DEF Builds, Indexed, About
<1>3. index' = text'
  BY <1>1, <1>2 DEF TypeOK, Docs
<1>4. Queued' /\ Indexed' /\ LinksAll'
  BY <1>1, <1>3 DEF Queued, Indexed, LinksAll
<1>5. Parsed'
  BY <1>1, <1>3, MarksAreDistinct, TypeParts DEF Parsed, Tables, Docs
<1>6. QED
  BY <1>3, <1>4, <1>5 DEF Builds

LEMMA BuildsStep ==
  ASSUME DocsAreFinite, TypeOK, Dormant, Builds, [Next]_vars
  PROVE  Builds'
<1>1. CASE Evict
  BY <1>1, MarksAreDistinct
  DEF Evict, Nothing, Builds, Queued, Latest, Indexed, About, Parsed,
      LinksAll, vars, client, storage, builder, promises, session, memory
<1>2. CASE Wake
  BY <1>2
  DEF Wake, Builds, Queued, Latest, Indexed, About, Parsed, LinksAll, vars,
      client, storage, builder, promises, session, memory
<1>3. CASE HandleDocument
  BY <1>3, HandleBuilds
<1>4. CASE BeginUpdate
  BY <1>4, BeginBuilds
<1>5. CASE Parse
  BY <1>5, ParseBuilds
<1>6. CASE Link
  BY <1>6
  DEF Link, Builds, Queued, Latest, Indexed, About, Parsed, LinksAll, vars,
      client, storage, builder, promises, session, memory
<1>7. CASE Validate
  BY <1>7
  DEF Validate, Builds, Queued, Latest, Indexed, About, Parsed, LinksAll,
      vars, client, storage, builder, promises, session, memory
<1>8. CASE Abandon
  BY <1>8
  DEF Abandon, Builds, Queued, Latest, Indexed, About, Parsed, LinksAll,
      vars, client, storage, builder, promises, session, memory
<1>9. CASE HandshakeReplayed
  <2>1. CASE gate = "replay" /\ Replay
    BY <1>9, <2>1, ReplayBuilds DEF HandshakeReplayed, client, storage
  <2>2. CASE UNCHANGED <<text, index, updates, build>> /\ gate' \in {gate, "failed"}
    BY <1>9, <2>2 DEF Builds, Queued, Latest, Indexed, About, Parsed, LinksAll
  <2>3. QED
    BY <1>9, <2>1, <2>2 DEF HandshakeReplayed, session, builder
<1>10. CASE ReplayTimeout
  <2>1. CASE gate = "replay" /\ Replay
    BY <1>10, <2>1, ReplayBuilds DEF ReplayTimeout, client, storage
  <2>2. CASE UNCHANGED <<text, index, updates, build>> /\ gate' \in {gate, "failed"}
    BY <1>10, <2>2 DEF Builds, Queued, Latest, Indexed, About, Parsed, LinksAll
  <2>3. QED
    BY <1>10, <2>1, <2>2 DEF ReplayTimeout, session, builder
<1>11. CASE \/ Initialize \/ Edit \/ Hover \/ Shutdown \/ Disconnect
            \/ Deliver \/ Close \/ RunJob \/ Refuse \/ HandleRequest
            \/ HandleInitialized \/ HandleInitialize \/ HandleShutdown
            \/ Resume \/ Initialized \/ (\E m \in Request : Answer(m))
            \/ SettleTimeout \/ (\E m \in Request : AckTimeout(m))
            \/ UNCHANGED vars
  <2>1. UNCHANGED <<gate, text, index, updates, build>>
    BY <1>11
    DEF Initialize, SendRequest, Send, Edit, Hover, Shutdown, Disconnect,
        Deliver, Close, RunJob, Refuse, Error, HandleRequest, Handle,
        Receive, Throw, HandleInitialized, HandleInitialize, HandleShutdown,
        Resume, Initialized, Reply, Answer, SettleTimeout, AckTimeout, vars,
        client, storage, builder, promises, session, memory
  <2>2. QED
    BY <2>1 DEF Builds, Queued, Latest, Indexed, About, Parsed, LinksAll
<1>12. QED
  BY <1>1, <1>2, <1>3, <1>4, <1>5, <1>6, <1>7, <1>8, <1>9, <1>10, <1>11
  DEF Next, Client, Event, Handler, Builder, Server, Timeout

LEMMA BuildStep ==
  ASSUME DocsAreFinite, BuildInv, [Next]_vars
  PROVE  BuildInv'
<1>1. TypeOK'
  BY TypeStep DEF BuildInv
<1>2. Dormant' /\ Builds'
  BY DormantStep, BuildsStep DEF BuildInv, Builds
<1>3. QED
  BY <1>1, <1>2 DEF BuildInv, Builds

LEMMA BuildInit ==
  ASSUME Init
  PROVE  BuildInv
<1>1. Dormant
  BY DEF Init, Fresh, Dormant, Blank
<1>2. Queued /\ Indexed /\ Parsed /\ LinksAll
  BY MarksAreDistinct DEF Init, Fresh, Nothing, Queued, Indexed, Parsed, LinksAll
<1>3. QED
  BY <1>1, <1>2, TypeInit DEF BuildInv

(* The types hold, for any documents, texts and bound on the frames under    *)
(* way: fields of RuneLspSession, the server's tables, storage.              *)
THEOREM TypeCorrect ==
  ASSUME DocsAreFinite
  PROVE  Spec => []TypeOK
<1>1. BuildInv /\ [Next]_vars => BuildInv'
  BY BuildStep
<1>2. BuildInv => TypeOK
  BY DEF BuildInv
<1>3. QED
  BY BuildInit, <1>1, <1>2, PTL DEF Spec

(* A wake serves no request before the documents it replays are parsed and   *)
(* linked (replayIfColdWake, its last await).                                *)
THEOREM WakesAreBuilt ==
  ASSUME DocsAreFinite
  PROVE  Spec => BuiltBeforeAsked
<1>1. BuildInv /\ [Next]_vars => BuildInv'
  BY BuildStep
<1>2. BuildInv /\ [Next]_vars => [(gate \in {"replay", "linking"} /\ gate' = "open") => index' = text']_vars
  <2>1. SUFFICES ASSUME BuildInv, Next, gate \in {"replay", "linking"}, gate' = "open"
                 PROVE  index' = text'
    OBVIOUS
  <2>2. CASE gate = "replay" /\ Replay
    <3>1. text' = store /\ index' = Nothing /\ store \in Docs /\ Open(store) = {}
      BY <2>1, <2>2 DEF BuildInv, TypeOK, Dormant, Blank, Replay
    <3>2. QED
      BY <3>1 DEF Docs, Open, Nothing
  <2>3. CASE Link /\ gate = "linking"
    <3>1. updates = <<>> /\ build # "started"
      BY <2>1, <2>3 DEF BuildInv, LinksAll, Link
    <3>2. \A d \in Doc : index[d] = text[d]
      BY <2>1, <3>1 DEF BuildInv, Parsed, Indexed, About
    <3>3. UNCHANGED <<index, text>> /\ index \in [Doc -> Text \cup {None, Unparsed}] /\ text \in Docs
      BY <2>1, <2>3, TypeParts DEF Link, BuildInv, Tables, session, builder
    <3>4. QED
      BY <3>2, <3>3 DEF Docs
  <2>4. QED
    BY <2>1, <2>2, <2>3
    DEF Initialize, SendRequest, Send, Edit, Hover, Shutdown, Disconnect,
        Evict, Wake, Deliver, Close, RunJob, Refuse, Error, HandleRequest,
        Handle, Receive, Throw, HandleInitialized, HandleInitialize,
        HandleShutdown, HandleDocument, Resume, BeginUpdate, Parse, Link,
        Validate, Abandon, HandshakeReplayed, Replay, Initialized, Reply,
        Answer, ReplayTimeout, SettleTimeout, AckTimeout, Next, Client,
        Event, Handler, Builder, Server, Timeout, vars, client, storage,
        builder, promises, session, memory
<1>3. QED
  BY BuildInit, <1>1, <1>2, PTL DEF Spec, BuiltBeforeAsked

-----------------------------------------------------------------------------
(* The life of a connection. *)

Under(m) == Has(wire, m) \/ Has(inbox, m)

\* The handshake is to come, or under way; there is a client past it; there
\* will be no other frame; what the session stores is purged, or about to be.
Early == phase = "new" \/ Under("initialize")
Greeting == Early \/ busy = "initialize" \/ server = "initializing"
Up == \/ phase \in {"running", "stopping"} \/ busy = "shutdown"
      \/ \E i \in DOMAIN wire : wire[i].m # "initialize"
      \/ \E i \in DOMAIN inbox : inbox[i].m # "initialize"
Ended == phase \in {"stopping", "gone", "reported"}

\* initialize is the first frame and alone until it is answered, and what
\* comes after it finds its parameters in storage, unless they are purged.
Greeted ==
  /\ phase = "new" => wire = <<>> /\ inbox = <<>>
  /\ Early => /\ Len(wire) + Len(inbox) <= 1
              /\ ~init /\ ~purged /\ ~HasJob("init") /\ ~HasJob("purge")
              /\ busy = "no" /\ server = "created" /\ gate \in {"none", "open", "failed"}
  /\ Greeting => ~Up
  /\ busy = "initialize" => server = "created" /\ (init \/ Spent \/ HasJob("init"))
  /\ server = "initializing" => init \/ Spent
  /\ Up => init \/ Spent
  /\ gate = "none" => server = "created" /\ ~transport
  /\ working \subseteq {"hover", "shutdown"}

\* shutdown is the last frame.
LastWord ==
  /\ \A i \in DOMAIN wire : wire[i].m = "shutdown" => i = Len(wire) /\ Ended
  /\ \A i \in DOMAIN inbox : inbox[i].m = "shutdown" => i = Len(inbox) /\ wire = <<>> /\ Ended

\* Nothing is written behind a purge: the builder looks at closed, and once
\* memory is dropped no frame is left to build a server again.
NoWriteBehind ==
  /\ purged => store = Nothing /\ ~init /\ ~meta /\ ~HasJob("put") /\ ~HasJob("init")
  /\ \A i, j \in DOMAIN jobs : i < j /\ jobs[i].op = "purge" => jobs[j].op \notin {"put", "init"}
  /\ Spent => /\ wire = <<>> /\ Ended /\ ~Early
              /\ closed \/ (gate = "none" /\ inbox = <<>>)

Calls == Greeted /\ LastWord /\ NoWriteBehind

LEMMA Rest ==
  ASSUME NEW q \in Seq(Frame), q # <<>>
  PROVE  /\ \A m : Has(Tail(q), m) => Has(q, m)
         /\ Has(q, Head(q).m)
         /\ (\E i \in DOMAIN Tail(q) : Tail(q)[i].m # "initialize")
              => \E i \in DOMAIN q : q[i].m # "initialize"
         /\ Head(q).m # "initialize" => \E i \in DOMAIN q : q[i].m # "initialize"
         /\ Len(q) \in Nat /\ Len(q) > 0 /\ Len(Tail(q)) = Len(q) - 1
         /\ Len(q) = 1 => Tail(q) = <<>>
<1>1. /\ Head(q) = q[1] /\ Len(q) \in Nat /\ Len(q) > 0 /\ Len(Tail(q)) = Len(q) - 1
      /\ DOMAIN q = 1 .. Len(q) /\ DOMAIN Tail(q) = 1 .. Len(q) - 1
      /\ \A i \in 1 .. Len(q) - 1 : Tail(q)[i] = q[i + 1]
      /\ Tail(q) \in Seq(Frame)
  BY Queue
<1>2. Len(q) = 1 => Tail(q) = <<>>
  BY <1>1
<1>3. \A i \in DOMAIN Tail(q) : i + 1 \in DOMAIN q /\ Tail(q)[i] = q[i + 1]
  BY <1>1
<1>4. 1 \in DOMAIN q
  BY <1>1
<1>5. QED
  BY <1>1, <1>2, <1>3, <1>4 DEF Has

LEMMA RestLast ==
  ASSUME NEW q \in Seq(Frame), q # <<>>,
         \A i \in DOMAIN q : q[i].m = "shutdown" => i = Len(q)
  PROVE  /\ \A i \in DOMAIN Tail(q) : Tail(q)[i].m = "shutdown" => i = Len(Tail(q))
         /\ Head(q).m = "shutdown" => Len(q) = 1
         /\ Has(Tail(q), "shutdown") => Has(q, "shutdown")
<1>1. /\ Head(q) = q[1] /\ Len(q) \in Nat /\ Len(q) > 0 /\ Len(Tail(q)) = Len(q) - 1
      /\ DOMAIN q = 1 .. Len(q) /\ DOMAIN Tail(q) = 1 .. Len(q) - 1
      /\ \A i \in 1 .. Len(q) - 1 : Tail(q)[i] = q[i + 1]
  BY Queue
<1>2. QED
  BY <1>1 DEF Has

\* A frame leaves the inbox.
LEMMA HandledCalls ==
  ASSUME Queues, Calls, inbox # <<>>, inbox' = Tail(inbox),
         UNCHANGED <<phase, wire, jobs, init, purged, store, meta, busy, server, gate, transport, closed>>,
         working' \subseteq working \cup {"hover"}
  PROVE  Calls'
<1>1. inbox \in Seq(Frame)
  BY DEF Queues
<1>2. Under("initialize")' => Under("initialize")
  BY <1>1, Rest DEF Under
<1>3. Early' => Early
  BY <1>2 DEF Early, Calls, Greeted
<1>4. Up' => Up
  BY <1>1, Rest DEF Up
<1>5. Len(wire') + Len(inbox') <= Len(wire) + Len(inbox)
  BY <1>1, Rest DEF Queues
<1>6. /\ Ended' <=> Ended
      /\ Spent' <=> Spent
      /\ \A o : HasJob(o)' <=> HasJob(o)
  BY DEF Ended, Spent, HasJob
<1>7. Greeted'
  <2>1. Len(wire) \in Nat /\ Len(inbox) \in Nat /\ Len(inbox') \in Nat
    BY <1>1, Rest DEF Queues
  <2>2. QED
    BY <1>3, <1>4, <1>5, <1>6, <2>1 DEF Calls, Greeted, Greeting
<1>8. LastWord'
  <2>1. \A i \in DOMAIN inbox' : inbox'[i].m = "shutdown" => i = Len(inbox') /\ wire = <<>> /\ Ended
    BY <1>1, RestLast DEF Calls, LastWord, Has
  <2>2. QED
    BY <1>6, <2>1 DEF Calls, LastWord
<1>9. NoWriteBehind'
  BY <1>3, <1>6 DEF Calls, Greeted, NoWriteBehind
<1>10. QED
  BY <1>7, <1>8, <1>9 DEF Calls

\* A frame reaches the inbox.
LEMMA DeliverCalls ==
  ASSUME Queues, Calls, Deliver
  PROVE  Calls'
<1>1. /\ wire \in Seq(Frame) /\ wire # <<>> /\ inbox \in Seq(Frame)
      /\ wire' = Tail(wire) /\ inbox' = Append(inbox, Head(wire))
      /\ UNCHANGED <<phase, jobs, init, purged, store, meta, busy, server, gate, transport, closed, working>>
  BY DEF Deliver, Queues, storage, promises
<1>2. /\ Len(inbox) \in Nat /\ Len(inbox') = Len(inbox) + 1
      /\ DOMAIN inbox = 1 .. Len(inbox) /\ DOMAIN inbox' = 1 .. Len(inbox) + 1
      /\ inbox'[Len(inbox) + 1] = Head(wire)
      /\ \A i \in 1 .. Len(inbox) : inbox'[i] = inbox[i]
  BY <1>1
<1>3. Under("initialize")' => Under("initialize")
  <2>1. CASE Has(inbox, "initialize")'
    <3>1. PICK i \in 1 .. Len(inbox) + 1 : inbox'[i].m = "initialize"
      BY <1>2, <2>1 DEF Has
    <3>2. CASE i = Len(inbox) + 1
      BY <1>1, <1>2, <3>1, <3>2, Rest DEF Under
    <3>3. CASE i \in 1 .. Len(inbox)
      BY <1>2, <3>1, <3>3 DEF Under, Has
    <3>4. QED
      BY <1>2, <3>2, <3>3
  <2>2. CASE Has(wire, "initialize")'
    BY <1>1, <2>2, Rest DEF Under
  <2>3. QED
    BY <2>1, <2>2 DEF Under
<1>4. Early' => Early
  BY <1>1, <1>3 DEF Early
<1>5. Up' => Up
  <2>1. CASE \E i \in DOMAIN inbox' : inbox'[i].m # "initialize"
    <3>1. PICK i \in 1 .. Len(inbox) + 1 : inbox'[i].m # "initialize"
      BY <1>2, <2>1
    <3>2. CASE i = Len(inbox) + 1
      BY <1>1, <1>2, <3>1, <3>2, Rest DEF Up
    <3>3. CASE i \in 1 .. Len(inbox)
      BY <1>2, <3>1, <3>3 DEF Up
    <3>4. QED
      BY <1>2, <3>2, <3>3
  <2>2. CASE \E i \in DOMAIN wire' : wire'[i].m # "initialize"
    BY <1>1, <2>2, Rest DEF Up
  <2>3. QED
    BY <1>1, <2>1, <2>2 DEF Up
<1>6. /\ Ended' <=> Ended
      /\ Spent' <=> Spent
      /\ \A o : HasJob(o)' <=> HasJob(o)
  BY <1>1 DEF Ended, Spent, HasJob
<1>7. Len(wire') + Len(inbox') = Len(wire) + Len(inbox)
  BY <1>1, <1>2, Rest
<1>8. ~Spent
  BY <1>1 DEF Calls, NoWriteBehind
<1>9. phase # "new"
  BY <1>1 DEF Calls, Greeted
<1>10. Greeted'
  BY <1>1, <1>4, <1>5, <1>6, <1>7, <1>9 DEF Calls, Greeted, Greeting
<1>11. LastWord'
  <2>1. \A i \in DOMAIN wire' : wire'[i].m = "shutdown" => i = Len(wire')
    BY <1>1, RestLast DEF Calls, LastWord
  <2>2. ASSUME NEW i \in DOMAIN wire', wire'[i].m = "shutdown"
        PROVE  Ended
    <3>1. Has(wire', "shutdown")
      BY <2>2 DEF Has
    <3>2. Has(wire, "shutdown")
      BY <1>1, <3>1, Rest
    <3>3. QED
      BY <3>2 DEF Has, Calls, LastWord
  <2>3. ASSUME NEW i \in 1 .. Len(inbox) + 1, inbox'[i].m = "shutdown"
        PROVE  i = Len(inbox') /\ wire' = <<>> /\ Ended
    <3>1. i = Len(inbox) + 1
      BY <1>1, <1>2, <2>3 DEF Calls, LastWord
    <3>2. Head(wire).m = "shutdown"
      BY <1>2, <2>3, <3>1
    <3>3. Has(wire, "shutdown") /\ Len(wire) = 1 /\ Tail(wire) = <<>>
      BY <1>1, <3>2, Rest, RestLast DEF Calls, LastWord
    <3>4. QED
      BY <1>1, <1>2, <3>1, <3>3 DEF Has, Calls, LastWord
  <2>4. QED
    BY <1>2, <1>6, <2>1, <2>2, <2>3 DEF LastWord
<1>12. NoWriteBehind'
  BY <1>1, <1>6, <1>8 DEF Calls, NoWriteBehind, Spent
<1>13. QED
  BY <1>10, <1>11, <1>12 DEF Calls

\* The first of the jobs runs.
LEMMA RunJobCalls ==
  ASSUME Queues, Calls, RunJob
  PROVE  Calls'
<1>1. /\ jobs \in Seq(Job) /\ jobs # <<>> /\ jobs' = Tail(jobs)
      /\ UNCHANGED <<phase, wire, inbox, busy, server, gate, transport, closed, working>>
  BY DEF RunJob, Queues, client, memory, session, promises
<1>2. /\ Head(jobs) \in Job /\ Head(jobs) = jobs[1] /\ Len(jobs) \in Nat /\ Len(jobs) > 0
      /\ DOMAIN jobs = 1 .. Len(jobs) /\ DOMAIN jobs' = 1 .. Len(jobs) - 1
      /\ \A i \in 1 .. Len(jobs) - 1 : jobs'[i] = jobs[i + 1]
  BY <1>1, Queue
<1>3. \A i \in DOMAIN jobs' : i + 1 \in DOMAIN jobs /\ jobs'[i] = jobs[i + 1]
  BY <1>2
<1>4. 1 \in DOMAIN jobs /\ \A i \in DOMAIN jobs : i = 1 \/ (i - 1 \in DOMAIN jobs' /\ jobs'[i - 1] = jobs[i])
  BY <1>2
<1>5. \A o : /\ HasJob(o)' => HasJob(o)
             /\ HasJob(o) => HasJob(o)' \/ Head(jobs).op = o
             /\ Head(jobs).op = o => HasJob(o)
  BY <1>2, <1>3, <1>4 DEF HasJob
<1>6. /\ Ended' <=> Ended
      /\ Early' <=> Early
      /\ Greeting' <=> Greeting
      /\ Up' <=> Up
  BY <1>1 DEF Ended, Early, Greeting, Up, Under, Has
<1>7. Head(jobs).op = "purge" => ~HasJob("put")' /\ ~HasJob("init")'
  <2>1. SUFFICES ASSUME Head(jobs).op = "purge", NEW i \in DOMAIN jobs'
                 PROVE  jobs'[i].op \notin {"put", "init"}
    BY DEF HasJob
  <2>2. 1 < i + 1 /\ jobs'[i] = jobs[i + 1] /\ i + 1 \in DOMAIN jobs
    BY <1>2, <2>1
  <2>3. QED
    BY <1>2, <1>4, <2>1, <2>2 DEF Calls, NoWriteBehind
<1>8. \A i, j \in DOMAIN jobs' : i < j /\ jobs'[i].op = "purge" => jobs'[j].op \notin {"put", "init"}
  <2>1. \A i, j \in DOMAIN jobs' : i < j => i + 1 < j + 1
    BY <1>2
  <2>2. QED
    BY <1>3, <2>1 DEF Calls, NoWriteBehind
<1>9. \/ /\ Head(jobs).op = "purge"
         /\ store' = Nothing /\ init' = FALSE /\ meta' = FALSE /\ purged' = TRUE
      \/ /\ Head(jobs).op = "init"
         /\ init' = TRUE /\ UNCHANGED <<store, meta, purged>>
      \/ /\ Head(jobs).op = "put"
         /\ UNCHANGED <<init, meta, purged>>
      \/ /\ Head(jobs).op = "delete"
         /\ store' = [store EXCEPT ![Head(jobs).doc] = None]
         /\ UNCHANGED <<init, meta, purged>>
  BY <1>2, JobCases DEF RunJob
<1>10. Spent' <=> Spent
  BY <1>5, <1>9 DEF Spent
<1>11. purged' => store' = Nothing /\ ~init' /\ ~meta' /\ ~HasJob("put")' /\ ~HasJob("init")'
  <2>1. CASE Head(jobs).op = "purge"
    BY <1>7, <1>9, <2>1
  <2>2. CASE Head(jobs).op # "purge" /\ purged
    <3>1. Head(jobs).op = "delete" /\ store = Nothing /\ ~init /\ ~meta /\ ~HasJob("put") /\ ~HasJob("init")
      BY <1>5, <1>9, <2>2 DEF Calls, NoWriteBehind
    <3>2. QED
      BY <1>5, <1>9, <3>1 DEF Nothing
  <2>3. QED
    BY <1>9, <2>1, <2>2
<1>12. NoWriteBehind'
  BY <1>1, <1>6, <1>8, <1>10, <1>11 DEF Calls, NoWriteBehind
<1>13. LastWord'
  BY <1>1, <1>6 DEF Calls, LastWord
<1>14. Greeted'
  <2>1. Early => ~init' /\ ~purged' /\ ~HasJob("init")' /\ ~HasJob("purge")'
    BY <1>5, <1>9 DEF Calls, Greeted
  <2>2. init \/ Spent => init' \/ Spent'
    BY <1>9, <1>10 DEF Spent
  <2>3. init \/ Spent \/ HasJob("init") => init' \/ Spent' \/ HasJob("init")'
    BY <1>5, <1>9, <1>10 DEF Spent
  <2>4. QED
    BY <1>1, <1>6, <2>1, <2>2, <2>3 DEF Calls, Greeted
<1>15. QED
  BY <1>12, <1>13, <1>14 DEF Calls

LEMMA MoreJobs ==
  ASSUME NEW j, jobs \in Seq(Job), jobs' = Append(jobs, j)
  PROVE  /\ \A o : HasJob(o)' <=> HasJob(o) \/ j.op = o
         /\ /\ \A i, k \in DOMAIN jobs : i < k /\ jobs[i].op = "purge" => jobs[k].op \notin {"put", "init"}
            /\ HasJob("purge") => j.op \notin {"put", "init"}
            => \A i, k \in DOMAIN jobs' : i < k /\ jobs'[i].op = "purge" => jobs'[k].op \notin {"put", "init"}
<1>1. /\ Len(jobs) \in Nat /\ DOMAIN jobs = 1 .. Len(jobs) /\ DOMAIN jobs' = 1 .. Len(jobs) + 1
      /\ jobs'[Len(jobs) + 1] = j
      /\ \A i \in 1 .. Len(jobs) : jobs'[i] = jobs[i]
  OBVIOUS
<1>2. \A o : HasJob(o)' <=> HasJob(o) \/ j.op = o
  <2>1. ASSUME NEW o, HasJob(o)' PROVE HasJob(o) \/ j.op = o
    <3>1. PICK i \in 1 .. Len(jobs) + 1 : jobs'[i].op = o
      BY <1>1, <2>1 DEF HasJob
    <3>2. i = Len(jobs) + 1 \/ i \in 1 .. Len(jobs)
      BY <1>1
    <3>3. QED
      BY <1>1, <3>1, <3>2 DEF HasJob
  <2>2. ASSUME NEW o, HasJob(o) \/ j.op = o PROVE HasJob(o)'
    <3>1. Len(jobs) + 1 \in DOMAIN jobs' /\ \A i \in DOMAIN jobs : i \in DOMAIN jobs' /\ jobs'[i] = jobs[i]
      BY <1>1
    <3>2. QED
      BY <1>1, <2>2, <3>1 DEF HasJob
  <2>3. QED
    BY <2>1, <2>2
<1>3. ASSUME \A i, k \in DOMAIN jobs : i < k /\ jobs[i].op = "purge" => jobs[k].op \notin {"put", "init"},
             HasJob("purge") => j.op \notin {"put", "init"},
             NEW i \in DOMAIN jobs', NEW k \in DOMAIN jobs', i < k, jobs'[i].op = "purge"
      PROVE  jobs'[k].op \notin {"put", "init"}
  <2>1. i \in 1 .. Len(jobs) /\ jobs[i].op = "purge"
    BY <1>1, <1>3
  <2>2. HasJob("purge")
    BY <1>1, <2>1 DEF HasJob
  <2>3. CASE k \in 1 .. Len(jobs)
    BY <1>1, <1>3, <2>1, <2>3
  <2>4. CASE k = Len(jobs) + 1
    BY <1>1, <1>3, <2>2, <2>4
  <2>5. QED
    BY <1>1, <2>3, <2>4
<1>4. QED
  BY <1>2, <1>3

\* The builder adds a job, and no put once the session is closed.
LEMMA BuilderCalls ==
  ASSUME Queues, Dormant, Calls, build # "idle" \/ updates # <<>>, NEW j,
         jobs' = jobs \/ jobs' = Append(jobs, j),
         j.op = "delete" \/ (j.op = "put" /\ ~closed),
         UNCHANGED <<phase, wire, inbox, init, purged, store, meta, busy, server, gate, transport, closed, working>>
  PROVE  Calls'
<1>1. \A o \in {"init", "purge"} : HasJob(o)' <=> HasJob(o)
  <2>1. jobs \in Seq(Job)
    BY DEF Queues
  <2>2. QED
    BY <2>1, MoreJobs DEF HasJob
<1>2. /\ Ended' <=> Ended
      /\ Early' <=> Early
      /\ Greeting' <=> Greeting
      /\ Up' <=> Up
      /\ Spent' <=> Spent
  BY <1>1 DEF Ended, Early, Greeting, Up, Under, Has, Spent
<1>3. Greeted' /\ LastWord'
  BY <1>1, <1>2 DEF Calls, Greeted, LastWord
<1>4. Spent /\ ~closed => FALSE
  BY DEF Calls, NoWriteBehind, Dormant, Blank
<1>5. CASE UNCHANGED jobs
  BY <1>2, <1>3, <1>5 DEF Calls, NoWriteBehind, HasJob
<1>6. CASE jobs' = Append(jobs, j)
  <2>1. jobs \in Seq(Job)
    BY DEF Queues
  <2>2. Spent => j.op = "delete"
    BY <1>4
  <2>3. \A i, k \in DOMAIN jobs' : i < k /\ jobs'[i].op = "purge" => jobs'[k].op \notin {"put", "init"}
    BY <1>6, <2>1, <2>2, MoreJobs DEF Calls, NoWriteBehind, Spent
  <2>4. purged => ~HasJob("put")' /\ ~HasJob("init")'
    BY <1>6, <2>1, <2>2, MoreJobs DEF Calls, NoWriteBehind, Spent
  <2>5. QED
    BY <1>2, <1>3, <2>3, <2>4 DEF Calls, NoWriteBehind
<1>7. QED
  BY <1>5, <1>6

\* The client sends something about a document.
LEMMA EditCalls ==
  ASSUME Queues, Calls, Edit
  PROVE  Calls'
<1>1. PICK f : /\ wire' = Append(wire, f) /\ f.m \notin {"initialize", "shutdown"}
               /\ phase = "running"
               /\ UNCHANGED <<phase, inbox, jobs, init, purged, store, meta, busy, server, gate, transport, closed, working>>
  <2>1. \A d, t : /\ DidOpen(d, t).m = "didOpen" /\ DidChange(d, t).m = "didChange"
                  /\ DidClose(d).m = "didClose"
    BY DEF DidOpen, DidChange, DidClose
  <2>2. UNCHANGED <<phase, inbox, jobs, init, purged, store, meta, busy, server, gate, transport, closed, working>>
    BY DEF Edit, storage, memory, session, promises
  <2>3. PICK f : wire' = Append(wire, f) /\ \E d, t : f \in {DidOpen(d, t), DidChange(d, t), DidClose(d)}
    BY DEF Edit, Send
  <2>4. QED
    BY <2>1, <2>2, <2>3 DEF Edit
<1>2. /\ Len(wire) \in Nat /\ DOMAIN wire = 1 .. Len(wire) /\ DOMAIN wire' = 1 .. Len(wire) + 1
      /\ wire'[Len(wire) + 1] = f
      /\ \A i \in 1 .. Len(wire) : wire'[i] = wire[i]
  BY <1>1 DEF Queues
<1>3. Up /\ Up' /\ ~Ended /\ ~Ended'
  BY <1>1 DEF Up, Ended
<1>4. ~Greeting /\ ~Spent
  BY <1>3 DEF Calls, Greeted, NoWriteBehind
<1>5. ~Has(wire', "initialize") /\ ~Has(wire', "shutdown") /\ ~Has(inbox, "shutdown")
  <2>1. ~Has(wire, "initialize") /\ ~Has(wire, "shutdown") /\ ~Has(inbox, "shutdown")
    BY <1>3, <1>4 DEF Greeting, Early, Under, Has, Calls, LastWord
  <2>2. \A i \in DOMAIN wire' : i = Len(wire) + 1 \/ i \in DOMAIN wire
    BY <1>2
  <2>3. QED
    BY <1>1, <1>2, <2>1, <2>2 DEF Has
<1>6. ~Early' /\ ~Greeting' /\ (Spent' <=> Spent)
  BY <1>1, <1>4, <1>5 DEF Greeting, Early, Under, Has, Spent, HasJob
<1>7. Greeted'
  BY <1>1, <1>3, <1>4, <1>6 DEF Calls, Greeted
<1>8. LastWord'
  BY <1>1, <1>5 DEF LastWord, Has
<1>9. NoWriteBehind'
  BY <1>1, <1>4, <1>6 DEF Calls, NoWriteBehind, HasJob
<1>10. QED
  BY <1>7, <1>8, <1>9 DEF Calls

\* initialize and shutdown leave the inbox for the input gate.
LEMMA GateCalls ==
  ASSUME Queues, Calls, HandleInitialize \/ HandleShutdown
  PROVE  Calls'
<1>1. /\ inbox \in Seq(Frame) /\ inbox # <<>> /\ inbox' = Tail(inbox) /\ jobs \in Seq(Job)
      /\ gate = "open" /\ busy = "no"
      /\ UNCHANGED <<phase, wire, init, purged, store, meta, server, gate, transport, working>>
  BY DEF HandleInitialize, HandleShutdown, Handle, Queues, client, storage, promises
<1>2. /\ \A m : Has(inbox', m) => Has(inbox, m)
      /\ Has(inbox, Head(inbox).m)
      /\ Up' => Up \/ busy' = "shutdown"
      /\ Len(inbox) \in Nat /\ Len(inbox) > 0 /\ Len(inbox') = Len(inbox) - 1
      /\ Len(inbox) = 1 => inbox' = <<>>
      /\ Len(wire) \in Nat
  <2>1. (\E i \in DOMAIN inbox' : inbox'[i].m # "initialize") => \E i \in DOMAIN inbox : inbox[i].m # "initialize"
    BY <1>1, Rest
  <2>2. QED
    BY <1>1, <2>1, Rest DEF Up, Queues
<1>3. CASE HandleInitialize
  <2>1. /\ Head(inbox).m = "initialize" /\ busy' = "initialize" /\ UNCHANGED closed
        /\ jobs' = Append(jobs, [op |-> "init"])
    BY <1>3 DEF HandleInitialize, Handle, Message
  <2>2. Early
    BY <1>2, <2>1 DEF Early, Under
  <2>3. /\ wire = <<>> /\ Len(inbox) = 1 /\ inbox' = <<>>
        /\ ~init /\ ~Spent /\ server = "created" /\ ~Up
    BY <1>1, <1>2, <2>2 DEF Calls, Greeted, Greeting, Spent, Queues
  <2>4. phase # "new"
    BY <1>1 DEF Calls, Greeted
  <2>5. \A o : HasJob(o)' <=> HasJob(o) \/ o = "init"
    BY <1>1, <2>1, MoreJobs
  <2>6. ~Early' /\ ~Up' /\ ~Spent'
    BY <1>1, <1>2, <2>1, <2>3, <2>4, <2>5 DEF Early, Under, Has, Spent
  <2>7. Greeted'
    BY <1>1, <2>1, <2>3, <2>4, <2>5, <2>6 DEF Calls, Greeted
  <2>8. LastWord'
    BY <1>1, <2>3 DEF LastWord
  <2>9. NoWriteBehind'
    <3>1. \A i, k \in DOMAIN jobs' : i < k /\ jobs'[i].op = "purge" => jobs'[k].op \notin {"put", "init"}
      BY <1>1, <2>1, <2>3, MoreJobs DEF Calls, NoWriteBehind, Spent
    <3>2. QED
      BY <1>1, <2>3, <2>6, <3>1 DEF NoWriteBehind, Spent
  <2>10. QED
    BY <2>7, <2>8, <2>9 DEF Calls
<1>4. CASE HandleShutdown
  <2>1. /\ Head(inbox).m = "shutdown" /\ busy' = "shutdown" /\ closed' = TRUE
        /\ jobs' = Append(jobs, [op |-> "purge"])
    BY <1>4 DEF HandleShutdown, Handle, Message
  <2>2. Has(inbox, "shutdown")
    BY <1>2, <2>1
  <2>3. wire = <<>> /\ Ended /\ Up
    BY <2>2 DEF Has, Calls, LastWord, Up
  <2>4. ~Greeting
    BY <2>3 DEF Calls, Greeted
  <2>5. \A o : HasJob(o)' <=> HasJob(o) \/ o = "purge"
    BY <1>1, <2>1, MoreJobs
  <2>6. ~Early' /\ ~Greeting' /\ Spent' /\ Ended' /\ inbox' = <<>>
    <3>1. Len(inbox) = 1
      BY <1>1, <2>1, RestLast DEF Calls, LastWord
    <3>2. QED
      BY <1>1, <1>2, <2>1, <2>3, <2>4, <2>5, <3>1 DEF Early, Greeting, Under, Has, Spent, Ended
  <2>7. Greeted'
    BY <1>1, <2>1, <2>4, <2>6 DEF Calls, Greeted, Early
  <2>8. LastWord'
    BY <1>1, <2>3, <2>6 DEF LastWord
  <2>9. NoWriteBehind'
    <3>1. \A i, k \in DOMAIN jobs' : i < k /\ jobs'[i].op = "purge" => jobs'[k].op \notin {"put", "init"}
      BY <1>1, <2>1, MoreJobs DEF Calls, NoWriteBehind
    <3>2. QED
      BY <1>1, <2>1, <2>3, <2>5, <2>6, <3>1 DEF Calls, NoWriteBehind
  <2>10. QED
    BY <2>7, <2>8, <2>9 DEF Calls
<1>5. QED
  BY <1>3, <1>4

\* What waited for storage goes on.
LEMMA ResumeCalls ==
  ASSUME Words, Dormant, Calls, Resume
  PROVE  Calls'
<1>1. /\ busy \in {"initialize", "shutdown"} /\ busy' = "no" /\ gate = "open"
      /\ ~HasJob("init") /\ ~HasJob("purge")
      /\ UNCHANGED <<inbox, jobs, init, purged, store, meta, gate, transport, closed>>
  BY DEF Resume, Words, Dormant, HasJob, storage
<1>2. /\ UNCHANGED <<phase, wire>>
      /\ server' = server \/ (busy = "initialize" /\ server' = "initializing")
      /\ working' = working \/ (busy # "initialize" /\ working' = working \cup {busy})
  BY DEF Resume, Receive, Throw, Error, client
<1>3. /\ Ended' <=> Ended
      /\ Early' <=> Early
      /\ Up' => Up
      /\ Spent' <=> Spent
      /\ \A o : HasJob(o)' <=> HasJob(o)
  BY <1>1, <1>2 DEF Ended, Early, Up, Under, Has, Spent, HasJob
<1>4. ~Early
  BY <1>1 DEF Calls, Greeted
<1>5. Greeting' => Greeting
  BY <1>1, <1>2, <1>3 DEF Greeting
<1>6. server' = "initializing" => init \/ Spent
  BY <1>1, <1>2 DEF Calls, Greeted
<1>7. working' \subseteq {"hover", "shutdown"}
  BY <1>1, <1>2 DEF Calls, Greeted
<1>8. Greeted'
  BY <1>1, <1>2, <1>3, <1>4, <1>5, <1>6, <1>7 DEF Calls, Greeted
<1>9. LastWord' /\ NoWriteBehind'
  BY <1>1, <1>2, <1>3 DEF Calls, LastWord, NoWriteBehind
<1>10. QED
  BY <1>8, <1>9 DEF Calls

(* Every step keeps what the connection has come to. *)
LEMMA CallsStep ==
  ASSUME TypeOK, Dormant, Queues, Calls, [Next]_vars
  PROVE  Calls'
<1>0. Words
  BY TypeParts
<1>1. CASE Initialize
  BY <1>1, Queue
  DEF Initialize, SendRequest, Send, Quiet, Message, Calls, Greeted,
      LastWord, NoWriteBehind, Has, Under, HasJob, Early, Greeting, Up,
      Ended, Spent, vars, client, storage, builder, promises, session, memory
<1>2. CASE Edit
  BY <1>2, EditCalls
<1>3. CASE Hover
  BY <1>3, Queue
  DEF Hover, SendRequest, Send, Quiet, Message, Calls, Greeted, LastWord,
      NoWriteBehind, Has, Under, HasJob, Early, Greeting, Up, Ended, Spent,
      vars, client, storage, builder, promises, session, memory
<1>4. CASE Shutdown
  BY <1>4, Queue
  DEF Shutdown, SendRequest, Send, Quiet, Message, Calls, Greeted, LastWord,
      NoWriteBehind, Has, Under, HasJob, Early, Greeting, Up, Ended, Spent,
      vars, client, storage, builder, promises, session, memory
<1>5. CASE Disconnect
  BY <1>5, Queue
  DEF Disconnect, Quiet, Message, Calls, Greeted, LastWord, NoWriteBehind,
      Has, Under, HasJob, Early, Greeting, Up, Ended, Spent, vars, client,
      storage, builder, promises, session, memory
<1>6. CASE Evict
  BY <1>6, Queue
  DEF Evict, Quiet, Message, Calls, Greeted, LastWord, NoWriteBehind, Has,
      Under, HasJob, Early, Greeting, Up, Ended, Spent, vars, client,
      storage, builder, promises, session, memory
<1>7. CASE Wake
  BY <1>7, Queue
  DEF Wake, Quiet, Message, Calls, Greeted, LastWord, NoWriteBehind, Has,
      Under, HasJob, Early, Greeting, Up, Ended, Spent, vars, client,
      storage, builder, promises, session, memory
<1>8. CASE Deliver
  BY <1>8, DeliverCalls
<1>9. CASE Close
  BY <1>9, Queue
  DEF Close, Quiet, Message, Calls, Greeted, LastWord, NoWriteBehind, Has,
      Under, HasJob, Early, Greeting, Up, Ended, Spent, vars, client,
      storage, builder, promises, session, memory
<1>10. CASE RunJob
  BY <1>10, RunJobCalls
<1>11. CASE Refuse
  BY <1>11, HandledCalls DEF Refuse, Handle, Error, client, storage, promises
<1>12. CASE HandleRequest
  <2>1. /\ working' \subseteq working \cup {"hover"}
        /\ UNCHANGED <<phase, wire, server>>
    BY <1>12 DEF HandleRequest, Receive, Throw, Error, client
  <2>2. QED
    BY <1>12, <2>1, HandledCalls DEF HandleRequest, Handle, storage
<1>13. CASE HandleInitialized
  BY <1>13, HandledCalls DEF HandleInitialized, Handle, Error, client, storage, promises
<1>14. CASE HandleInitialize
  BY <1>14, GateCalls
<1>15. CASE HandleShutdown
  BY <1>15, GateCalls
<1>16. CASE HandleDocument
  BY <1>16, HandledCalls DEF HandleDocument, Handle, Error, client, storage, promises
<1>17. CASE Resume
  BY <1>0, <1>17, ResumeCalls
<1>18. CASE BeginUpdate
  <2>1. Delete(Head(updates).doc).op = "delete"
    BY DEF Delete
  <2>2. jobs' = jobs \/ jobs' = Append(jobs, Delete(Head(updates).doc))
    BY <1>18 DEF BeginUpdate
  <2>3. QED
    BY <1>18, <2>1, <2>2, BuilderCalls DEF BeginUpdate, client, storage, session
<1>19. CASE Parse
  <2> DEFINE batch == [d \in {e \in Doc : index[e] = Unparsed} |-> text[d]]
  <2>1. Put(batch).op = "put"
    BY DEF Put
  <2>2. jobs' = jobs \/ (jobs' = Append(jobs, Put(batch)) /\ ~closed)
    BY <1>19 DEF Parse
  <2>3. /\ build # "idle"
        /\ UNCHANGED <<phase, wire, inbox, init, purged, store, meta, busy, server, gate, transport, closed, working>>
    BY <1>19 DEF Parse, client, storage, session, promises
  <2> HIDE DEF batch
  <2>4. CASE UNCHANGED jobs
    BY <2>3, <2>4 DEF Calls, Greeted, LastWord, NoWriteBehind, Has, Under, HasJob, Early, Greeting, Up, Ended, Spent
  <2>5. CASE jobs' = Append(jobs, Put(batch)) /\ ~closed
    BY <2>1, <2>3, <2>5, BuilderCalls
  <2>6. QED
    BY <2>2, <2>4, <2>5
<1>20. CASE Link
  BY <1>20, Queue
  DEF Link, Quiet, Message, Calls, Greeted, LastWord, NoWriteBehind, Has,
      Under, HasJob, Early, Greeting, Up, Ended, Spent, vars, client,
      storage, builder, promises, session, memory
<1>21. CASE HandshakeReplayed
  BY <1>21, Queue
  DEF HandshakeReplayed, Replay, Quiet, Message, Calls, Greeted, LastWord,
      NoWriteBehind, Has, Under, HasJob, Early, Greeting, Up, Ended, Spent,
      vars, client, storage, builder, promises, session, memory
<1>22. CASE Initialized
  BY <1>22, Queue
  DEF Initialized, Reply, Quiet, Message, Calls, Greeted, LastWord,
      NoWriteBehind, Has, Under, HasJob, Early, Greeting, Up, Ended, Spent,
      vars, client, storage, builder, promises, session, memory
<1>23. ASSUME NEW m \in Request, Answer(m) PROVE Calls'
  BY <1>23, Queue
  DEF Answer, Reply, Quiet, Message, Calls, Greeted, LastWord, NoWriteBehind,
      Has, Under, HasJob, Early, Greeting, Up, Ended, Spent, vars, client,
      storage, builder, promises, session, memory
<1>24. CASE ReplayTimeout
  BY <1>24, Queue
  DEF ReplayTimeout, Replay, Quiet, Message, Calls, Greeted, LastWord,
      NoWriteBehind, Has, Under, HasJob, Early, Greeting, Up, Ended, Spent,
      vars, client, storage, builder, promises, session, memory
<1>25. CASE \/ Validate \/ Abandon \/ SettleTimeout
            \/ (\E m \in Request : AckTimeout(m)) \/ UNCHANGED vars
  <2>1. UNCHANGED <<phase, wire, inbox, jobs, init, purged, store, meta, busy, server, gate, transport, closed, working>>
    BY <1>25
    DEF Validate, Abandon, SettleTimeout, AckTimeout, vars, client, storage,
        builder, promises, session, memory
  <2>2. QED
    BY <2>1 DEF Calls, Greeted, LastWord, NoWriteBehind, Has, Under, HasJob, Early, Greeting, Up, Ended, Spent
<1>26. QED
  BY <1>1, <1>2, <1>3, <1>4, <1>5, <1>6, <1>7, <1>8, <1>9, <1>10, <1>11,
     <1>12, <1>13, <1>14, <1>15, <1>16, <1>17, <1>18, <1>19, <1>20, <1>21,
     <1>22, <1>23, <1>24, <1>25
  DEF Next, Client, Event, Handler, Builder, Server, Timeout

LEMMA CallsInit ==
  ASSUME Init
  PROVE  Calls
BY DEF Init, Fresh, Calls, Greeted, LastWord, NoWriteBehind, Has, Under, HasJob, Early, Greeting, Up, Ended, Spent

CallInv == BuildInv /\ Calls

LEMMA CallStep ==
  ASSUME DocsAreFinite, CallInv, [Next]_vars
  PROVE  CallInv'
<1>1. BuildInv'
  BY BuildStep DEF CallInv
<1>2. Queues
  BY TypeParts DEF CallInv, BuildInv
<1>3. Calls'
  BY <1>2, CallsStep DEF CallInv, BuildInv
<1>4. QED
  BY <1>1, <1>3 DEF CallInv

(* Storage stays empty from the purge on (purgeStorage, on shutdown or on    *)
(* the close of the socket), whatever builds and writes were under way, and  *)
(* however the runtime interleaves and hibernates.                           *)
THEOREM PurgedForGood ==
  ASSUME DocsAreFinite
  PROVE  Spec => []NothingLeftBehind
<1>1. Init => CallInv
  BY BuildInit, CallsInit DEF CallInv
<1>2. CallInv /\ [Next]_vars => CallInv'
  BY CallStep
<1>3. CallInv => NothingLeftBehind
  BY DEF CallInv, Calls, NoWriteBehind, NothingLeftBehind
<1>4. QED
  BY <1>1, <1>2, <1>3, PTL DEF Spec

-----------------------------------------------------------------------------
(* What the server has, where no answer and no build outlasts its net. *)

\* A wake has its transport until the session ends, and ends awake.
Connected ==
  /\ ~Spent => ~closed
  /\ ~Spent /\ gate \in {"replay", "linking", "open"} => transport
  /\ gate \in {"replay", "linking"} /\ transport => ~Spent

\* The documents are those of the server while there is one, and those in
\* storage while there is none.
Told ==
  /\ Awake /\ transport => text = told
  /\ ~Awake /\ ~Spent => store = told
  /\ ~Awake => \A i \in DOMAIN jobs : jobs[i].op = "purge"
  /\ told # Nothing => init \/ Spent

\* An update that deletes finds what it deletes in the index.
Alternate ==
  /\ \A i \in DOMAIN updates :
       /\ updates[i].kind = "deleted"
       /\ \A j \in DOMAIN updates : updates[j].doc = updates[i].doc => i <= j
       => index[updates[i].doc] # None
  /\ \A i, j \in DOMAIN updates :
       /\ i < j /\ updates[i].doc = updates[j].doc /\ updates[j].kind = "deleted"
       /\ \A k \in DOMAIN updates : i < k /\ k < j => updates[k].doc # updates[j].doc
       => updates[i].kind = "changed"

\* Storage has, or the last write queued will bring, the text of a document
\* the builder has done with.
IsAbout(job, d) == \/ job.op = "put" /\ d \in DOMAIN job.batch
                   \/ job.op = "delete" /\ job.doc = d
Clean(d) == About(d) = {} /\ index[d] # Unparsed
Stored(d) ==
  \/ /\ \A i \in DOMAIN jobs : ~IsAbout(jobs[i], d)
     /\ store[d] = text[d]
  \/ \E i \in DOMAIN jobs :
       /\ IsAbout(jobs[i], d)
       /\ \A j \in DOMAIN jobs : IsAbout(jobs[j], d) => j <= i
       /\ jobs[i].op = "delete" <=> text[d] = None
Mirrored == Awake /\ ~Spent => \A d \in Doc : Clean(d) => Stored(d)

\* A wait registered with waitUntil keeps the memory until the builder is
\* through with every change.
Settles ==
  /\ gate = "open" /\ updates # <<>> => FALSE \in settle \/ (TRUE \in settle /\ build = "idle")
  /\ gate = "open" /\ build = "started" => TRUE \in settle

\* The reply of a replayed handshake is waited for, and a client past its
\* handshake finds a server past its own.
Served ==
  /\ Up /\ Awake /\ transport => server = "ready"
  /\ server = "replaying" => gate = "replay" \/ ~transport

\* Only a shutdown and the close of the socket ask for a purge.
LEMMA SpentStep ==
  ASSUME Queues, Calls, [Next]_vars
  PROVE  /\ Spent => Spent'
         /\ Spent' => Spent \/ Close \/ HandleShutdown
         /\ init => init' \/ Spent'
<1>0. jobs \in Seq(Job)
  BY DEF Queues
<1>1. CASE RunJob
  <2>1. /\ Head(jobs) \in Job /\ Head(jobs) = jobs[1] /\ Len(jobs) \in Nat /\ Len(jobs) > 0
        /\ jobs' = Tail(jobs) /\ DOMAIN jobs = 1 .. Len(jobs) /\ DOMAIN jobs' = 1 .. Len(jobs) - 1
        /\ \A i \in 1 .. Len(jobs) - 1 : jobs'[i] = jobs[i + 1]
    BY <1>0, <1>1, Queue DEF RunJob
  <2>2. \A i \in DOMAIN jobs' : i + 1 \in DOMAIN jobs /\ jobs'[i] = jobs[i + 1]
    BY <2>1
  <2>3. \A i \in DOMAIN jobs : i = 1 \/ (i - 1 \in DOMAIN jobs' /\ jobs'[i - 1] = jobs[i])
    BY <2>1
  <2>4. 1 \in DOMAIN jobs
    BY <2>1
  <2>5. \/ Head(jobs).op = "purge" /\ init' = FALSE /\ purged' = TRUE
        \/ Head(jobs).op = "init" /\ init' = TRUE /\ UNCHANGED purged
        \/ Head(jobs).op \in {"put", "delete"} /\ UNCHANGED <<init, purged>>
    BY <1>1, <2>1, JobCases DEF RunJob
  <2>6. HasJob("purge") <=> HasJob("purge")' \/ Head(jobs).op = "purge"
    BY <2>1, <2>2, <2>3, <2>4 DEF HasJob
  <2>7. QED
    BY <2>5, <2>6 DEF Spent
<1>2. CASE HandleInitialize
  <2>1. jobs' = Append(jobs, [op |-> "init"]) /\ UNCHANGED <<init, purged>>
    BY <1>2 DEF HandleInitialize, Handle, storage
  <2>2. QED
    BY <1>0, <2>1, MoreJobs DEF Spent
<1>3. CASE Close \/ HandleShutdown
  <2>1. jobs' = Append(jobs, [op |-> "purge"]) /\ UNCHANGED <<init, purged>>
    BY <1>3 DEF Close, HandleShutdown, Handle, storage
  <2>2. QED
    BY <1>0, <1>3, <2>1, MoreJobs DEF Spent
<1>4. CASE BeginUpdate
  <2>1. jobs' \in {jobs, Append(jobs, Delete(Head(updates).doc))} /\ UNCHANGED <<init, purged>>
    BY <1>4 DEF BeginUpdate, storage
  <2>2. Delete(Head(updates).doc).op = "delete"
    BY DEF Delete
  <2>3. HasJob("purge")' <=> HasJob("purge")
    BY <1>0, <2>1, <2>2, MoreJobs DEF HasJob
  <2>4. QED
    BY <2>1, <2>3 DEF Spent
<1>5. CASE Parse
  <2> DEFINE batch == [d \in {e \in Doc : index[e] = Unparsed} |-> text[d]]
  <2>1. jobs' \in {jobs, Append(jobs, Put(batch))} /\ UNCHANGED <<init, purged>>
    BY <1>5 DEF Parse, storage
  <2>2. Put(batch).op = "put"
    BY DEF Put
  <2> HIDE DEF batch
  <2>3. HasJob("purge")' <=> HasJob("purge")
    BY <1>0, <2>1, <2>2, MoreJobs DEF HasJob
  <2>4. QED
    BY <2>1, <2>3 DEF Spent
<1>6. CASE \/ Initialize \/ Edit \/ Hover \/ Shutdown \/ Disconnect \/ Evict
           \/ Wake \/ Deliver \/ Refuse \/ HandleRequest \/ HandleInitialized
           \/ HandleDocument \/ Resume \/ Link \/ Validate \/ Abandon
           \/ HandshakeReplayed \/ Initialized
           \/ (\E m \in Request : Answer(m)) \/ ReplayTimeout
           \/ SettleTimeout \/ (\E m \in Request : AckTimeout(m))
           \/ UNCHANGED vars
  <2>1. UNCHANGED <<jobs, init, purged>>
    BY <1>6
    DEF Initialize, SendRequest, Send, Edit, Hover, Shutdown, Disconnect,
        Evict, Wake, Deliver, Refuse, Error, HandleRequest, Handle, Receive,
        Throw, HandleInitialized, HandleDocument, Resume, Link, Validate,
        Abandon, HandshakeReplayed, Replay, Initialized, Reply, Answer,
        ReplayTimeout, SettleTimeout, AckTimeout, vars, client, storage,
        builder, promises, session, memory
  <2>2. QED
    BY <2>1 DEF Spent, HasJob
<1>7. QED
  BY <1>1, <1>2, <1>3, <1>4, <1>5, <1>6
  DEF Next, Client, Event, Handler, Builder, Server, Timeout

LEMMA ConnectedStep ==
  ASSUME Queues, Calls, Connected, [Next]_vars
  PROVE  Connected'
<1>1. CASE Close
  <2>1. jobs' = Append(jobs, [op |-> "purge"]) /\ jobs \in Seq(Job)
    BY <1>1 DEF Close, Queues
  <2>2. Spent'
    BY <2>1, MoreJobs DEF Spent
  <2>3. QED
    BY <1>1, <2>2 DEF Close, Connected
<1>2. CASE HandleShutdown
  <2>1. jobs' = Append(jobs, [op |-> "purge"]) /\ jobs \in Seq(Job)
    BY <1>2 DEF HandleShutdown, Queues
  <2>2. Spent'
    BY <2>1, MoreJobs DEF Spent
  <2>3. QED
    BY <1>2, <2>2 DEF HandleShutdown, Handle, Connected
<1>3. SUFFICES ASSUME ~Close, ~HandleShutdown
               PROVE  Connected'
  BY <1>1, <1>2
<1>4. Spent' <=> Spent
  BY <1>3, SpentStep
<1>5. CASE Evict
  BY <1>4, <1>5
  DEF Evict, Connected, vars, client, storage, builder, promises, session,
      memory
<1>6. CASE Wake
  BY <1>4, <1>6
  DEF Wake, Calls, NoWriteBehind, Connected, vars, client, storage, builder,
      promises, session, memory
<1>7. CASE Link
  BY <1>4, <1>7
  DEF Link, Connected, vars, client, storage, builder, promises, session,
      memory
<1>8. CASE HandshakeReplayed
  BY <1>4, <1>8
  DEF HandshakeReplayed, Replay, Connected, vars, client, storage, builder,
      promises, session, memory
<1>9. CASE ReplayTimeout
  BY <1>4, <1>9
  DEF ReplayTimeout, Replay, Connected, vars, client, storage, builder,
      promises, session, memory
<1>10. CASE \/ Initialize \/ Edit \/ Hover \/ Shutdown \/ Disconnect
            \/ Deliver \/ RunJob \/ Refuse \/ HandleRequest
            \/ HandleInitialized \/ HandleInitialize \/ HandleDocument
            \/ Resume \/ BeginUpdate \/ Parse \/ Validate \/ Abandon
            \/ Initialized \/ (\E m \in Request : Answer(m)) \/ SettleTimeout
            \/ (\E m \in Request : AckTimeout(m)) \/ UNCHANGED vars
  <2>1. UNCHANGED <<closed, gate, transport>>
    BY <1>10
    DEF Initialize, SendRequest, Send, Edit, Hover, Shutdown, Disconnect,
        Deliver, RunJob, Refuse, Error, HandleRequest, Handle, Receive,
        Throw, HandleInitialized, HandleInitialize, HandleDocument, Resume,
        BeginUpdate, Parse, Validate, Abandon, Initialized, Reply, Answer,
        SettleTimeout, AckTimeout, vars, client, storage, builder, promises,
        session, memory
  <2>2. QED
    BY <2>1, <1>4 DEF Connected
<1>11. QED
  BY <1>1, <1>2, <1>3, <1>5, <1>6, <1>7, <1>8, <1>9, <1>10
  DEF Next, Client, Event, Handler, Builder, Server, Timeout

\* Memory goes when the builder is through and storage has caught up.
LEMMA EvictTold ==
  ASSUME Tables, Builds, Connected, Told, Mirrored, Settles, Evict
  PROVE  ~Spent => store = told
<1>1. SUFFICES ASSUME ~Spent, Awake PROVE store = told
  BY DEF Told
<1>2. gate = "open" /\ transport /\ text = told /\ jobs = <<>> /\ settle = {}
  BY <1>1 DEF Evict, Awake, Connected, Told
<1>3. updates = <<>> /\ build # "started"
  BY <1>2 DEF Settles
<1>4. \A d \in Doc : Clean(d)
  BY <1>3 DEF Builds, Parsed, Clean, About
<1>5. \A d \in Doc : store[d] = text[d]
  BY <1>1, <1>2, <1>4 DEF Mirrored, Stored
<1>6. QED
  BY <1>2, <1>5 DEF Tables, Docs

LEMMA WakeTold ==
  ASSUME Tables, Dormant, Calls, Told, Wake
  PROVE  /\ ~Awake /\ ~Spent /\ store = told /\ gate' \in {"replay", "open", "failed"}
         /\ gate' = "open" => store = Nothing /\ text' = Nothing /\ told' = Nothing /\ jobs = <<>>
         /\ UNCHANGED <<store, told, init, text, jobs, purged, index, updates>>
<1>1. /\ gate = "none" /\ wire # <<>> /\ jobs = <<>>
      /\ UNCHANGED <<store, told, init, text, jobs, purged, index, updates>>
      /\ gate' \in {"replay", "open", "failed"} /\ (gate' = "open" => ~init)
  BY DEF Wake, Quiet, storage, builder
<1>2. ~Awake /\ ~Spent
  BY <1>1 DEF Awake, Calls, NoWriteBehind
<1>3. QED
  BY <1>1, <1>2 DEF Told, Dormant, Blank

LEMMA ToldStep ==
  ASSUME Words, Tables, Queues, Dormant, Builds, Calls, Connected, Told, Mirrored, Settles,
         [Next]_vars
  PROVE  Told'
<1>1. CASE Close
  <2>1. jobs' = <<[op |-> "purge"]>> /\ jobs = <<>> /\ UNCHANGED <<gate, text, told, store, init, purged>>
    BY <1>1 DEF Close, Quiet, storage
  <2>2. DOMAIN jobs' = {1} /\ jobs'[1].op = "purge"
    BY <2>1
  <2>3. Spent'
    BY <2>2 DEF Spent, HasJob
  <2>4. transport' = FALSE
    BY <1>1 DEF Close
  <2>5. QED
    BY <2>1, <2>2, <2>3, <2>4 DEF Told, Awake
<1>2. CASE HandleShutdown
  <2>1. jobs' = Append(jobs, [op |-> "purge"]) /\ jobs \in Seq(Job) /\ gate = "open"
        /\ UNCHANGED <<gate, transport, text, told, store, init, purged>>
    BY <1>2 DEF HandleShutdown, Handle, Queues, storage
  <2>2. Spent'
    BY <2>1, MoreJobs DEF Spent
  <2>3. QED
    BY <2>1, <2>2 DEF Told, Awake
<1>3. SUFFICES ASSUME ~Close, ~HandleShutdown
               PROVE  Told'
  BY <1>1, <1>2
<1>4. (Spent' <=> Spent) /\ (init => init' \/ Spent')
  BY <1>3, SpentStep
<1>5. CASE Evict
  <2>1. /\ gate' = "none" /\ jobs = <<>>
        /\ UNCHANGED <<told, store, jobs, init>>
    BY <1>5 DEF Evict, storage
  <2>2. QED
    BY <1>4, <1>5, <2>1, EvictTold DEF Told, Awake
<1>6. CASE Wake
  BY <1>4, <1>6, WakeTold DEF Told, Awake
<1>7. CASE RunJob
  <2>1. /\ jobs \in Seq(Job) /\ jobs # <<>> /\ jobs' = Tail(jobs)
        /\ UNCHANGED <<gate, transport, text, told>>
    BY <1>7 DEF RunJob, Queues, memory, session
  <2>2. ~Awake => Spent
    <3>1. 1 \in DOMAIN jobs
      BY <2>1
    <3>2. QED
      BY <3>1 DEF Told, Spent, HasJob
  <2>3. \A i \in DOMAIN jobs' : i + 1 \in DOMAIN jobs /\ jobs'[i] = jobs[i + 1]
    BY <2>1
  <2>4. QED
    BY <1>4, <2>1, <2>2, <2>3 DEF Told, Awake
<1>8. CASE HandleInitialize
  <2>1. gate = "open" /\ UNCHANGED <<gate, transport, text, told, store, init>>
    BY <1>8 DEF HandleInitialize, Handle, storage
  <2>2. QED
    BY <1>4, <2>1 DEF Told, Awake
<1>9. CASE HandleDocument
  <2>1. PICK f \in {g \in Range(inbox) : "doc" \in DOMAIN g} :
          /\ gate = "open" /\ UNCHANGED <<gate, transport, store, jobs, init>>
          /\ IF transport THEN told' = After(told, f) /\ text' = After(text, f)
                          ELSE UNCHANGED <<told, text>>
    BY <1>9 DEF HandleDocument, Handle, storage
  <2>2. f \in Frame /\ \E i \in DOMAIN inbox : inbox[i] = f
    BY <2>1 DEF Range, Queues
  <2>3. Up
    BY <2>1, <2>2, DocumentFrame DEF Up
  <2>4. init \/ Spent
    BY <2>3 DEF Calls, Greeted
  <2>5. QED
    BY <1>4, <2>1, <2>4 DEF Told, Awake
<1>10. CASE BeginUpdate
  <2>1. Awake /\ UNCHANGED <<gate, transport, text, told, store, init>>
    BY <1>10 DEF BeginUpdate, Dormant, Blank, Awake, Words, session, storage
  <2>2. QED
    BY <1>4, <2>1 DEF Told, Awake
<1>11. CASE Parse
  <2>1. Awake /\ UNCHANGED <<gate, transport, text, told, store, init>>
    BY <1>11 DEF Parse, Dormant, Blank, Awake, Words, session, storage
  <2>2. QED
    BY <1>4, <2>1 DEF Told, Awake
<1>12. CASE Link
  BY <1>4, <1>12
  DEF Link, Told, Awake, vars, client, storage, builder, promises, session,
      memory
<1>13. CASE HandshakeReplayed
  <2>1. UNCHANGED <<transport, told, store, jobs, init>>
    BY <1>13 DEF HandshakeReplayed, Replay, client, storage, session
  <2>2. CASE gate = "replay" /\ transport /\ Replay
    <3>1. store = told /\ text' = store /\ gate' \in {"open", "linking"}
      BY <2>2 DEF Connected, Told, Awake, Replay
    <3>2. QED
      BY <1>4, <2>1, <3>1 DEF Told, Awake
  <2>3. CASE UNCHANGED <<gate, text>> \/ (gate = "replay" /\ gate' = "failed")
    BY <1>4, <2>1, <2>3 DEF Told, Awake
  <2>4. QED
    BY <1>13, <2>2, <2>3 DEF HandshakeReplayed, session
<1>14. CASE ReplayTimeout
  <2>1. UNCHANGED <<transport, told, store, jobs, init>>
    BY <1>14 DEF ReplayTimeout, Replay, client, storage, session
  <2>2. CASE gate = "replay" /\ transport /\ Replay
    <3>1. store = told /\ text' = store /\ gate' \in {"open", "linking"}
      BY <2>2 DEF Connected, Told, Awake, Replay
    <3>2. QED
      BY <1>4, <2>1, <3>1 DEF Told, Awake
  <2>3. CASE UNCHANGED <<gate, text>> \/ (gate = "replay" /\ gate' = "failed")
    BY <1>4, <2>1, <2>3 DEF Told, Awake
  <2>4. QED
    BY <1>14, <2>2, <2>3 DEF ReplayTimeout, session
<1>15. CASE \/ Initialize \/ Edit \/ Hover \/ Shutdown \/ Disconnect
            \/ Deliver \/ Refuse \/ HandleRequest \/ HandleInitialized
            \/ Resume \/ Validate \/ Abandon \/ Initialized
            \/ (\E m \in Request : Answer(m)) \/ SettleTimeout
            \/ (\E m \in Request : AckTimeout(m)) \/ UNCHANGED vars
  <2>1. UNCHANGED <<gate, transport, text, told, store, jobs, init>>
    BY <1>15
    DEF Initialize, SendRequest, Send, Edit, Hover, Shutdown, Disconnect,
        Deliver, Refuse, Error, HandleRequest, Handle, Receive, Throw,
        HandleInitialized, Resume, Validate, Abandon, Initialized, Reply,
        Answer, SettleTimeout, AckTimeout, vars, client, storage, builder,
        promises, session, memory
  <2>2. QED
    BY <2>1, <1>4 DEF Told, Awake
<1>16. QED
  BY <1>1, <1>2, <1>3, <1>5, <1>6, <1>7, <1>8, <1>9, <1>10, <1>11, <1>12,
     <1>13, <1>14, <1>15
  DEF Next, Client, Event, Handler, Builder, Server, Timeout

LEMMA HandleAlternate ==
  ASSUME Tables, Queues, Builds, Alternate, HandleDocument
  PROVE  Alternate'
<1>1. PICK f \in {g \in Range(inbox) : "doc" \in DOMAIN g} :
        /\ UNCHANGED index
        /\ \/ UNCHANGED updates
           \/ Takes(text, f) /\ updates' = Append(updates, Update(f))
  BY DEF HandleDocument
<1>2. CASE UNCHANGED updates
  BY <1>1, <1>2 DEF Alternate
<1>3. CASE Takes(text, f) /\ updates' = Append(updates, Update(f))
  <2> DEFINE n == Len(updates) + 1
  <2>1. f \in Frame
    BY <1>1 DEF Range, Queues
  <2>2. /\ f.doc \in Doc /\ Update(f).doc = f.doc
        /\ Update(f).kind = "deleted" => text[f.doc] # None
    BY <1>1, <1>3, <2>1, DocumentFrame DEF Takes, Update
  <2>3. /\ Len(updates) \in Nat /\ DOMAIN updates = 1 .. Len(updates)
        /\ DOMAIN updates' = 1 .. n /\ updates'[n] = Update(f)
        /\ \A i \in 1 .. Len(updates) : updates'[i] = updates[i]
    BY <1>3 DEF Queues
  <2>4. \A i \in 1 .. n : i = n \/ i \in 1 .. Len(updates)
    BY <2>3
  <2>5. ASSUME NEW i \in DOMAIN updates', updates'[i].kind = "deleted",
               \A j \in DOMAIN updates' : updates'[j].doc = updates'[i].doc => i <= j
        PROVE  index'[updates'[i].doc] # None
    <3>1. CASE i = n
      <4>1. About(f.doc) = {}
        BY <2>2, <2>3, <2>5, <3>1 DEF About
      <4>2. index[f.doc] # None
        BY <2>2, <2>3, <2>5, <3>1, <4>1, MarksAreDistinct DEF Builds, Indexed
      <4>3. QED
        BY <1>1, <2>2, <2>3, <3>1, <4>2
    <3>2. CASE i \in 1 .. Len(updates)
      <4>1. \A j \in DOMAIN updates : j \in DOMAIN updates' /\ updates'[j] = updates[j]
        BY <2>3
      <4>2. QED
        BY <1>1, <2>3, <2>5, <3>2, <4>1 DEF Alternate
    <3>3. QED
      BY <2>3, <2>4, <2>5, <3>1, <3>2
  <2>6. ASSUME NEW i \in DOMAIN updates', NEW j \in DOMAIN updates',
               i < j, updates'[i].doc = updates'[j].doc, updates'[j].kind = "deleted",
               \A k \in DOMAIN updates' : i < k /\ k < j => updates'[k].doc # updates'[j].doc
        PROVE  updates'[i].kind = "changed"
    <3>1. i \in 1 .. Len(updates) /\ updates'[i] = updates[i]
      BY <2>3, <2>6
    <3>2. CASE j = n
      <4>1. Latest(i)
        BY <2>2, <2>3, <2>6, <3>1, <3>2 DEF Latest
      <4>2. updates[i].kind # "deleted"
        BY <2>2, <2>3, <2>6, <3>1, <3>2, <4>1 DEF Builds, Queued
      <4>3. updates[i] \in Order
        BY <3>1 DEF Queues
      <4>4. QED
        BY <3>1, <4>2, <4>3 DEF Order
    <3>3. CASE j \in 1 .. Len(updates)
      <4>1. \A k \in DOMAIN updates : k \in DOMAIN updates' /\ updates'[k] = updates[k]
        BY <2>3
      <4>2. QED
        BY <2>3, <2>6, <3>1, <3>3, <4>1 DEF Alternate
    <3>4. QED
      BY <2>3, <2>4, <3>2, <3>3
  <2>7. QED
    BY <2>5, <2>6 DEF Alternate
<1>4. QED
  BY <1>1, <1>2, <1>3

LEMMA BeginAlternate ==
  ASSUME Tables, Queues, Alternate, BeginUpdate
  PROVE  /\ Alternate'
         /\ Head(updates).kind = "deleted" => index[Head(updates).doc] # None
<1> DEFINE u == Head(updates)
<1>1. /\ u \in Order /\ u = updates[1] /\ Len(updates) \in Nat /\ Len(updates) > 0
      /\ DOMAIN updates = 1 .. Len(updates) /\ DOMAIN updates' = 1 .. Len(updates) - 1
      /\ \A i \in 1 .. Len(updates) - 1 : updates'[i] = updates[i + 1]
  <2>1. updates \in Seq(Order) /\ updates # <<>> /\ updates' = Tail(updates)
    BY DEF BeginUpdate, Queues
  <2>2. QED
    BY <2>1, Queue
<1>2. index' = [index EXCEPT ![u.doc] = IF u.kind = "changed" THEN Unparsed ELSE None]
  BY DEF BeginUpdate
<1> HIDE DEF u
<1>3. u.doc \in Doc /\ index \in [Doc -> Text \cup {None, Unparsed}]
  BY <1>1 DEF Order, Tables
<1>4. \A i \in DOMAIN updates' : i \in Nat /\ i + 1 \in DOMAIN updates /\ updates'[i] = updates[i + 1] /\ 1 < i + 1
  BY <1>1
<1>5. \A j \in DOMAIN updates : j = 1 \/ (j - 1 \in DOMAIN updates' /\ updates'[j - 1] = updates[j] /\ j \in Nat)
  BY <1>1
<1>6. 1 \in DOMAIN updates /\ \A j \in DOMAIN updates : 1 <= j
  BY <1>1
<1>7. u.kind = "deleted" => index[u.doc] # None
  BY <1>1, <1>6 DEF Alternate
<1>8. ASSUME NEW i \in DOMAIN updates', updates'[i].kind = "deleted",
             \A j \in DOMAIN updates' : updates'[j].doc = updates'[i].doc => i <= j
      PROVE  index'[updates'[i].doc] # None
  <2>1. \A j \in DOMAIN updates : updates[j].doc = updates[i + 1].doc => j = 1 \/ i + 1 <= j
    <3>1. SUFFICES ASSUME NEW j \in DOMAIN updates, updates[j].doc = updates[i + 1].doc, j # 1
                   PROVE  i + 1 <= j
      OBVIOUS
    <3>2. i <= j - 1
      BY <1>4, <1>5, <1>8, <3>1
    <3>3. QED
      BY <1>1, <1>4, <3>1, <3>2
  <2>2. CASE u.doc = updates[i + 1].doc
    <3>1. \A k \in DOMAIN updates : 1 < k /\ k < i + 1 => updates[k].doc # updates[i + 1].doc
      BY <1>1, <1>4, <2>1
    <3>2. updates[1].kind = "changed"
      BY <1>1, <1>4, <1>6, <1>8, <2>2, <3>1 DEF Alternate
    <3>3. QED
      BY <1>1, <1>2, <1>3, <1>4, <2>2, <3>2, MarksAreDistinct
  <2>3. CASE u.doc # updates[i + 1].doc
    <3>1. index[updates[i + 1].doc] # None
      BY <1>1, <1>4, <1>8, <2>1, <2>3 DEF Alternate
    <3>2. QED
      BY <1>2, <1>3, <1>4, <2>3, <3>1
  <2>4. QED
    BY <2>2, <2>3
<1>9. ASSUME NEW i \in DOMAIN updates', NEW j \in DOMAIN updates',
             i < j, updates'[i].doc = updates'[j].doc, updates'[j].kind = "deleted",
             \A k \in DOMAIN updates' : i < k /\ k < j => updates'[k].doc # updates'[j].doc
      PROVE  updates'[i].kind = "changed"
  <2>1. \A k \in DOMAIN updates : i + 1 < k /\ k < j + 1 => updates[k].doc # updates[j + 1].doc
    <3>1. SUFFICES ASSUME NEW k \in DOMAIN updates, i + 1 < k, k < j + 1
                   PROVE  updates[k].doc # updates[j + 1].doc
      OBVIOUS
    <3>2. k - 1 \in DOMAIN updates' /\ updates'[k - 1] = updates[k] /\ i < k - 1 /\ k - 1 < j
      BY <1>1, <1>4, <1>5, <3>1
    <3>3. QED
      BY <1>4, <1>9, <3>2
  <2>2. i + 1 < j + 1
    BY <1>4, <1>9
  <2>3. QED
    BY <1>4, <1>9, <2>1, <2>2 DEF Alternate
<1>10. Alternate'
  BY <1>8, <1>9 DEF Alternate
<1>11. QED
  BY <1>7, <1>10 DEF u

LEMMA AlternateStep ==
  ASSUME DocsAreFinite, Tables, Queues, Builds, Alternate, [Next]_vars
  PROVE  Alternate'
<1>1. CASE Evict
  BY <1>1 DEF Evict, Alternate
<1>2. CASE HandleDocument
  BY <1>2, HandleAlternate
<1>3. CASE BeginUpdate
  BY <1>3, BeginAlternate
<1>4. CASE Parse
  BY <1>4 DEF Parse, Alternate
<1>5. CASE HandshakeReplayed
  <2>1. CASE Replay
    <3>1. \A i \in DOMAIN updates' : updates'[i].kind = "changed"
      BY <2>1, ReplayQueue DEF Tables
    <3>2. QED
      BY <3>1 DEF Alternate
  <2>2. CASE UNCHANGED <<index, updates>>
    BY <2>2 DEF Alternate
  <2>3. QED
    BY <1>5, <2>1, <2>2 DEF HandshakeReplayed, builder
<1>6. CASE ReplayTimeout
  <2>1. CASE Replay
    <3>1. \A i \in DOMAIN updates' : updates'[i].kind = "changed"
      BY <2>1, ReplayQueue DEF Tables
    <3>2. QED
      BY <3>1 DEF Alternate
  <2>2. CASE UNCHANGED <<index, updates>>
    BY <2>2 DEF Alternate
  <2>3. QED
    BY <1>6, <2>1, <2>2 DEF ReplayTimeout, builder
<1>7. CASE \/ Initialize \/ Edit \/ Hover \/ Shutdown \/ Disconnect \/ Wake
           \/ Deliver \/ Close \/ RunJob \/ Refuse \/ HandleRequest
           \/ HandleInitialized \/ HandleInitialize \/ HandleShutdown
           \/ Resume \/ Link \/ Validate \/ Abandon \/ Initialized
           \/ (\E m \in Request : Answer(m)) \/ SettleTimeout
           \/ (\E m \in Request : AckTimeout(m)) \/ UNCHANGED vars
  <2>1. UNCHANGED <<index, updates>>
    BY <1>7
    DEF Initialize, SendRequest, Send, Edit, Hover, Shutdown, Disconnect,
        Wake, Deliver, Close, RunJob, Refuse, Error, HandleRequest, Handle,
        Receive, Throw, HandleInitialized, HandleInitialize, HandleShutdown,
        Resume, Link, Validate, Abandon, Initialized, Reply, Answer,
        SettleTimeout, AckTimeout, vars, client, storage, builder, promises,
        session, memory
  <2>2. QED
    BY <2>1 DEF Alternate
<1>8. QED
  BY <1>1, <1>2, <1>3, <1>4, <1>5, <1>6, <1>7
  DEF Next, Client, Event, Handler, Builder, Server, Timeout

\* A job more about other documents, or none.
LEMMA StoredMore ==
  ASSUME NEW d, NEW j, jobs \in Seq(Job), jobs' = Append(jobs, j), ~IsAbout(j, d),
         Stored(d), store'[d] = store[d], text'[d] = text[d]
  PROVE  Stored(d)'
<1>1. /\ Len(jobs) \in Nat /\ DOMAIN jobs = 1 .. Len(jobs) /\ DOMAIN jobs' = 1 .. Len(jobs) + 1
      /\ jobs'[Len(jobs) + 1] = j
      /\ \A i \in 1 .. Len(jobs) : jobs'[i] = jobs[i]
  OBVIOUS
<1>2. /\ \A i \in DOMAIN jobs : i \in DOMAIN jobs' /\ jobs'[i] = jobs[i]
      /\ \A i \in DOMAIN jobs' : i \in DOMAIN jobs \/ (i = Len(jobs) + 1 /\ jobs'[i] = j)
  BY <1>1
<1>3. \A i \in DOMAIN jobs' : IsAbout(jobs'[i], d) => i \in DOMAIN jobs /\ IsAbout(jobs[i], d)
  BY <1>2
<1>4. CASE (\A i \in DOMAIN jobs : ~IsAbout(jobs[i], d)) /\ store[d] = text[d]
  BY <1>3, <1>4 DEF Stored
<1>5. CASE \E i \in DOMAIN jobs :
             /\ IsAbout(jobs[i], d)
             /\ \A k \in DOMAIN jobs : IsAbout(jobs[k], d) => k <= i
             /\ jobs[i].op = "delete" <=> text[d] = None
  <2>1. PICK i \in DOMAIN jobs :
             /\ IsAbout(jobs[i], d)
             /\ \A k \in DOMAIN jobs : IsAbout(jobs[k], d) => k <= i
             /\ jobs[i].op = "delete" <=> text[d] = None
    BY <1>5
  <2>2. i \in DOMAIN jobs' /\ jobs'[i] = jobs[i]
    BY <1>2
  <2>3. \A k \in DOMAIN jobs' : IsAbout(jobs'[k], d) => k <= i
    BY <1>3, <2>1
  <2>4. QED
    BY <2>1, <2>2, <2>3 DEF Stored
<1>6. QED
  BY <1>4, <1>5 DEF Stored

\* The write that is to settle it is queued.
LEMMA StoredLast ==
  ASSUME NEW d, NEW j, jobs \in Seq(Job), jobs' = Append(jobs, j), IsAbout(j, d),
         j.op = "delete" <=> text'[d] = None
  PROVE  Stored(d)'
<1>1. /\ Len(jobs) \in Nat /\ DOMAIN jobs' = 1 .. Len(jobs) + 1
      /\ jobs'[Len(jobs) + 1] = j
  OBVIOUS
<1>2. Len(jobs) + 1 \in DOMAIN jobs' /\ \A i \in DOMAIN jobs' : i <= Len(jobs) + 1
  BY <1>1
<1>3. QED
  BY <1>1, <1>2 DEF Stored

LEMMA StoredSame ==
  ASSUME NEW d, UNCHANGED jobs, Stored(d), store'[d] = store[d], text'[d] = text[d]
  PROVE  Stored(d)'
BY DEF Stored

\* The first write runs.
LEMMA RunJobStored ==
  ASSUME Tables, Queues, ~Spent, RunJob, NEW d \in Doc, Stored(d)
  PROVE  Stored(d)'
<1> DEFINE job == Head(jobs)
<1>1. /\ jobs \in Seq(Job) /\ jobs # <<>> /\ jobs' = Tail(jobs) /\ UNCHANGED text
  BY DEF RunJob, Queues, memory
<1>2. /\ job \in Job /\ job = jobs[1] /\ Len(jobs) \in Nat /\ Len(jobs) > 0
      /\ DOMAIN jobs = 1 .. Len(jobs) /\ DOMAIN jobs' = 1 .. Len(jobs) - 1
      /\ \A i \in 1 .. Len(jobs) - 1 : jobs'[i] = jobs[i + 1]
  BY <1>1, Queue
<1>3. \/ job.op = "init" /\ store' = store
      \/ /\ job.op = "put"
         /\ store' = [e \in Doc |-> IF e \notin DOMAIN job.batch THEN store[e]
                                    ELSE IF text[e] # None THEN text[e] ELSE job.batch[e]]
      \/ job.op = "delete" /\ store' = [store EXCEPT ![job.doc] = None]
  <2>1. job.op # "purge"
    <3>1. 1 \in DOMAIN jobs
      BY <1>2
    <3>2. QED
      BY <1>2, <3>1 DEF Spent, HasJob
  <2>2. QED
    BY <1>2, <2>1, JobCases DEF RunJob
<1> HIDE DEF job
<1>4. ~IsAbout(job, d) => store'[d] = store[d]
  BY <1>3 DEF IsAbout, Tables, Docs
<1>5. IsAbout(job, d) /\ (job.op = "delete" <=> text[d] = None) => store'[d] = text[d]
  BY <1>3 DEF IsAbout, Tables, Docs
<1>6. /\ \A i \in DOMAIN jobs' : i \in Nat /\ i + 1 \in DOMAIN jobs /\ jobs'[i] = jobs[i + 1]
      /\ \A i \in DOMAIN jobs : i \in Nat /\ (i = 1 \/ (i - 1 \in DOMAIN jobs' /\ jobs'[i - 1] = jobs[i]))
      /\ 1 \in DOMAIN jobs
  BY <1>2
<1>7. CASE (\A i \in DOMAIN jobs : ~IsAbout(jobs[i], d)) /\ store[d] = text[d]
  <2>1. \A i \in DOMAIN jobs' : ~IsAbout(jobs'[i], d)
    BY <1>6, <1>7
  <2>2. store'[d] = text'[d]
    BY <1>1, <1>2, <1>4, <1>6, <1>7
  <2>3. QED
    BY <2>1, <2>2 DEF Stored
<1>8. ASSUME NEW i \in DOMAIN jobs, IsAbout(jobs[i], d),
             \A k \in DOMAIN jobs : IsAbout(jobs[k], d) => k <= i,
             jobs[i].op = "delete" <=> text[d] = None
      PROVE  Stored(d)'
  <2>1. CASE i = 1
    <3>1. \A k \in DOMAIN jobs' : ~IsAbout(jobs'[k], d)
      <4>1. SUFFICES ASSUME NEW k \in DOMAIN jobs', IsAbout(jobs'[k], d) PROVE FALSE
        OBVIOUS
      <4>2. k + 1 <= 1 /\ k >= 1
        BY <1>2, <1>6, <1>8, <2>1, <4>1
      <4>3. QED
        BY <1>6, <4>2
    <3>2. store'[d] = text'[d]
      BY <1>1, <1>2, <1>5, <1>8, <2>1
    <3>3. QED
      BY <3>1, <3>2 DEF Stored
  <2>2. CASE i # 1
    <3>1. i - 1 \in DOMAIN jobs' /\ jobs'[i - 1] = jobs[i]
      BY <1>6, <2>2
    <3>2. \A k \in DOMAIN jobs' : IsAbout(jobs'[k], d) => k <= i - 1
      <4>1. SUFFICES ASSUME NEW k \in DOMAIN jobs', IsAbout(jobs'[k], d) PROVE k <= i - 1
        OBVIOUS
      <4>2. k + 1 <= i
        BY <1>6, <1>8, <4>1
      <4>3. QED
        BY <1>6, <4>2
    <3>3. jobs'[i - 1].op = "delete" <=> text'[d] = None
      BY <1>1, <1>8, <3>1
    <3>4. IsAbout(jobs'[i - 1], d)
      BY <1>8, <3>1
    <3>5. QED
      BY <3>1, <3>2, <3>3, <3>4 DEF Stored
  <2>3. QED
    BY <2>1, <2>2
<1>9. QED
  BY <1>7, <1>8 DEF Stored

LEMMA HandleStored ==
  ASSUME Tables, Queues, HandleDocument, NEW d \in Doc, Clean(d)'
  PROVE  Clean(d) /\ UNCHANGED <<jobs, store>> /\ text'[d] = text[d]
<1>1. PICK f \in {g \in Range(inbox) : "doc" \in DOMAIN g} :
        /\ UNCHANGED <<index, jobs, store>>
        /\ \/ UNCHANGED <<updates, text>>
           \/ /\ updates' = Append(updates, Update(f))
              /\ text' = [text EXCEPT ![f.doc] = IF f.m = "didClose" THEN None ELSE f.text]
  BY DEF HandleDocument, Handle, storage, After
<1>2. CASE UNCHANGED <<updates, text>>
  BY <1>1, <1>2 DEF Clean, About
<1>3. CASE /\ updates' = Append(updates, Update(f))
           /\ text' = [text EXCEPT ![f.doc] = IF f.m = "didClose" THEN None ELSE f.text]
  <2>1. /\ Len(updates) \in Nat /\ DOMAIN updates = 1 .. Len(updates)
        /\ DOMAIN updates' = 1 .. Len(updates) + 1 /\ updates'[Len(updates) + 1] = Update(f)
        /\ \A i \in 1 .. Len(updates) : updates'[i] = updates[i]
    BY <1>3 DEF Queues
  <2>2. Update(f).doc = f.doc
    BY DEF Update
  <2>3. d # f.doc /\ About(d) = {}
    BY <2>1, <2>2 DEF Clean, About
  <2>4. QED
    BY <1>1, <1>3, <2>3 DEF Clean, Tables, Docs
<1>4. QED
  BY <1>1, <1>2, <1>3

LEMMA BeginStored ==
  ASSUME Tables, Queues, Builds, Alternate, ~closed, BeginUpdate, NEW d \in Doc, Clean(d)',
         Clean(d) => Stored(d)
  PROVE  Stored(d)'
<1> DEFINE u == Head(updates)
<1>1. /\ u \in Order /\ u = updates[1] /\ Len(updates) \in Nat /\ Len(updates) > 0
      /\ DOMAIN updates = 1 .. Len(updates) /\ DOMAIN updates' = 1 .. Len(updates) - 1
      /\ \A i \in 1 .. Len(updates) - 1 : updates'[i] = updates[i + 1]
  <2>1. updates \in Seq(Order) /\ updates # <<>> /\ updates' = Tail(updates)
    BY DEF BeginUpdate, Queues
  <2>2. QED
    BY <2>1, Queue
<1>2. /\ index' = [index EXCEPT ![u.doc] = IF u.kind = "changed" THEN Unparsed ELSE None]
      /\ \/ jobs' = jobs /\ (u.kind = "changed" \/ index[u.doc] = None)
         \/ jobs' = Append(jobs, Delete(u.doc)) /\ u.kind # "changed"
      /\ UNCHANGED <<store, text>>
  BY DEF BeginUpdate, storage
<1>3. u.kind = "deleted" => index[u.doc] # None
  BY BeginAlternate
<1> HIDE DEF u
<1>4. u.doc \in Doc /\ u.kind \in {"changed", "deleted"} /\ index \in [Doc -> Text \cup {None, Unparsed}]
      /\ jobs \in Seq(Job)
  BY <1>1 DEF Order, Tables, Queues
<1>5. \A j \in DOMAIN updates : updates[j].doc = d => j = 1
  <2>1. SUFFICES ASSUME NEW j \in DOMAIN updates, updates[j].doc = d, j # 1 PROVE FALSE
    OBVIOUS
  <2>2. j - 1 \in DOMAIN updates' /\ updates'[j - 1].doc = d
    BY <1>1, <2>1
  <2>3. QED
    BY <2>2 DEF Clean, About
<1>6. CASE d = u.doc
  <2>1. u.kind = "deleted"
    BY <1>2, <1>4, <1>6 DEF Clean
  <2>2. Latest(1)
    BY <1>1, <1>5, <1>6 DEF Latest
  <2>3. text[d] = None
    BY <1>1, <1>6, <2>1, <2>2 DEF Builds, Queued
  <2>4. jobs' = Append(jobs, Delete(d)) /\ Delete(d).op = "delete" /\ IsAbout(Delete(d), d)
    BY <1>2, <1>3, <1>6, <2>1 DEF Delete, IsAbout
  <2>5. QED
    BY <1>2, <1>4, <2>3, <2>4, StoredLast
<1>7. CASE d # u.doc
  <2>1. Clean(d)
    BY <1>1, <1>2, <1>4, <1>5, <1>7 DEF Clean, About
  <2>2. ~IsAbout(Delete(u.doc), d)
    BY <1>7 DEF IsAbout, Delete
  <2>3. QED
    BY <1>2, <1>4, <2>1, <2>2, StoredMore, StoredSame
<1>8. QED
  BY <1>6, <1>7

LEMMA ParseStored ==
  ASSUME Tables, Queues, Builds, ~closed, Parse, NEW d \in Doc, Clean(d) => Stored(d)
  PROVE  Stored(d)'
<1> DEFINE batch == [e \in {c \in Doc : index[c] = Unparsed} |-> text[e]]
<1>1. /\ updates = <<>> /\ UNCHANGED <<text, store>>
      /\ \/ jobs' = Append(jobs, Put(batch))
         \/ jobs' = jobs /\ DOMAIN batch = {}
  BY DEF Parse, storage
<1>2. /\ Put(batch).op = "put"
      /\ IsAbout(Put(batch), d) <=> index[d] = Unparsed
      /\ DOMAIN batch = {} => index[d] # Unparsed
  BY DEF Put, IsAbout
<1> HIDE DEF batch
<1>3. About(d) = {} /\ jobs \in Seq(Job)
  BY <1>1 DEF About, Queues
<1>4. CASE index[d] = Unparsed
  <2>1. text[d] # None
    BY <1>3, <1>4, MarksAreDistinct DEF Builds, Indexed, Tables, Docs
  <2>2. QED
    BY <1>1, <1>2, <1>3, <1>4, <2>1, StoredLast
<1>5. CASE index[d] # Unparsed
  <2>1. Stored(d)
    BY <1>3, <1>5 DEF Clean
  <2>2. QED
    BY <1>1, <1>2, <1>3, <1>5, <2>1, StoredMore, StoredSame
<1>6. QED
  BY <1>4, <1>5

LEMMA ReplayStored ==
  ASSUME DocsAreFinite, Tables, Dormant, gate = "replay", transport, Connected, Told, Replay,
         UNCHANGED <<jobs, store>>, NEW d \in Doc, Clean(d)'
  PROVE  Stored(d)'
<1>1. ~Spent /\ \A i \in DOMAIN jobs : jobs[i].op = "purge"
  BY DEF Connected, Told, Awake
<1>2. \A i \in DOMAIN jobs : FALSE
  BY <1>1 DEF Spent, HasJob
<1>3. text' = store
  BY DEF Replay
<1>4. QED
  BY <1>2, <1>3 DEF Stored

LEMMA MirroredStep ==
  ASSUME DocsAreFinite, Tables, Queues, Dormant, Builds, Calls, Connected, Told, Alternate,
         Mirrored, [Next]_vars
  PROVE  Mirrored'
<1>1. CASE Close
  <2>1. jobs' = Append(jobs, [op |-> "purge"]) /\ jobs \in Seq(Job)
    BY <1>1 DEF Close, Queues
  <2>2. Spent'
    BY <2>1, MoreJobs DEF Spent
  <2>3. QED
    BY <2>2 DEF Mirrored
<1>2. CASE HandleShutdown
  <2>1. jobs' = Append(jobs, [op |-> "purge"]) /\ jobs \in Seq(Job)
    BY <1>2 DEF HandleShutdown, Queues
  <2>2. Spent'
    BY <2>1, MoreJobs DEF Spent
  <2>3. QED
    BY <2>2 DEF Mirrored
<1>3. SUFFICES ASSUME ~Close, ~HandleShutdown, Awake', ~Spent', NEW d \in Doc, Clean(d)'
               PROVE  Stored(d)'
  BY <1>1, <1>2 DEF Mirrored
<1>4. /\ ~Spent /\ ~closed
      /\ Awake /\ Clean(d) => Stored(d)
  BY <1>3, SpentStep DEF Connected, Mirrored
<1>5. CASE Evict
  BY <1>3, <1>5 DEF Evict, Awake
<1>6. CASE Wake
  <2>1. store' = Nothing /\ text' = Nothing /\ jobs' = <<>>
    BY <1>3, <1>6, WakeTold DEF Awake
  <2>2. QED
    BY <2>1 DEF Stored
<1>7. CASE RunJob
  <2>1. Awake /\ Clean(d)
    BY <1>3, <1>7 DEF RunJob, Awake, Clean, About, memory, session, builder
  <2>2. QED
    BY <1>4, <1>7, <2>1, RunJobStored
<1>8. CASE HandleInitialize
  <2>1. Awake /\ Clean(d) /\ UNCHANGED <<text, store>>
    BY <1>3, <1>8 DEF HandleInitialize, Handle, Awake, Clean, About, builder, storage
  <2>2. jobs \in Seq(Job) /\ jobs' = Append(jobs, [op |-> "init"]) /\ ~IsAbout([op |-> "init"], d)
    BY <1>8 DEF HandleInitialize, IsAbout, Queues
  <2>3. QED
    BY <1>4, <2>1, <2>2, StoredMore
<1>9. CASE HandleDocument
  <2>1. Awake
    BY <1>9 DEF HandleDocument, Handle, Awake
  <2>2. QED
    BY <1>3, <1>4, <1>9, <2>1, HandleStored, StoredSame
<1>10. CASE BeginUpdate
  <2>1. Awake
    BY <1>3, <1>10 DEF BeginUpdate, Awake, session
  <2>2. QED
    BY <1>3, <1>4, <1>10, <2>1, BeginStored
<1>11. CASE Parse
  <2>1. Awake
    BY <1>3, <1>11 DEF Parse, Awake, session
  <2>2. QED
    BY <1>4, <1>11, <2>1, ParseStored
<1>12. CASE Link
  <2>1. Awake /\ Clean(d) /\ UNCHANGED <<text, store, jobs>>
    BY <1>3, <1>12 DEF Link, Awake, Clean, About, storage
  <2>2. QED
    BY <1>4, <2>1, StoredSame
<1>13. CASE HandshakeReplayed
  <2>1. UNCHANGED <<jobs, store>>
    BY <1>13 DEF HandshakeReplayed, client, storage
  <2>2. CASE gate = "replay" /\ transport /\ Replay
    BY <1>3, <2>1, <2>2, ReplayStored
  <2>3. CASE UNCHANGED <<gate, text, index, updates>>
    <3>1. Awake /\ Clean(d)
      BY <1>3, <2>3 DEF Awake, Clean, About
    <3>2. QED
      BY <1>4, <2>1, <2>3, <3>1, StoredSame
  <2>4. CASE gate' = "failed"
    BY <1>3, <2>4 DEF Awake
  <2>5. QED
    BY <1>13, <2>2, <2>3, <2>4 DEF HandshakeReplayed, session, builder
<1>14. CASE ReplayTimeout
  <2>1. UNCHANGED <<jobs, store>>
    BY <1>14 DEF ReplayTimeout, client, storage
  <2>2. CASE gate = "replay" /\ transport /\ Replay
    BY <1>3, <2>1, <2>2, ReplayStored
  <2>3. CASE UNCHANGED <<gate, text, index, updates>>
    <3>1. Awake /\ Clean(d)
      BY <1>3, <2>3 DEF Awake, Clean, About
    <3>2. QED
      BY <1>4, <2>1, <2>3, <3>1, StoredSame
  <2>4. CASE gate' = "failed"
    BY <1>3, <2>4 DEF Awake
  <2>5. QED
    BY <1>14, <2>2, <2>3, <2>4 DEF ReplayTimeout, session, builder
<1>15. CASE \/ Initialize \/ Edit \/ Hover \/ Shutdown \/ Disconnect
            \/ Deliver \/ Refuse \/ HandleRequest \/ HandleInitialized
            \/ Resume \/ Validate \/ Abandon \/ Initialized
            \/ (\E m \in Request : Answer(m)) \/ SettleTimeout
            \/ (\E m \in Request : AckTimeout(m)) \/ UNCHANGED vars
  <2>1. UNCHANGED <<gate, text, store, jobs, index, updates>>
    BY <1>15
    DEF Initialize, SendRequest, Send, Edit, Hover, Shutdown, Disconnect,
        Deliver, Refuse, Error, HandleRequest, Handle, Receive, Throw,
        HandleInitialized, Resume, Validate, Abandon, Initialized, Reply,
        Answer, SettleTimeout, AckTimeout, vars, client, storage, builder,
        promises, session, memory
  <2>2. Awake /\ Clean(d)
    BY <1>3, <2>1 DEF Awake, Clean, About
  <2>3. QED
    BY <1>4, <2>1, <2>2, StoredSame
<1>16. QED
  BY <1>1, <1>2, <1>3, <1>5, <1>6, <1>7, <1>8, <1>9, <1>10, <1>11, <1>12,
     <1>13, <1>14, <1>15
  DEF Next, Client, Event, Handler, Builder, Server, Timeout

LEMMA SettlesStep ==
  ASSUME DocsAreFinite, Tables, Words, Dormant, Builds, Settles, "slow" \notin Env, [Next]_vars
  PROVE  Settles'
<1>1. CASE Evict
  BY <1>1
  DEF Evict, Settles, vars, client, storage, builder, promises, session,
      memory
<1>2. CASE Wake
  <2>1. updates' = <<>> /\ build' = "idle"
    BY <1>2 DEF Wake, Dormant, Blank, builder
  <2>2. QED
    BY <2>1 DEF Settles
<1>3. CASE HandleDocument
  BY <1>3
  DEF HandleDocument, Handle, Settles, vars, client, storage, builder,
      promises, session, memory
<1>4. CASE BeginUpdate
  BY <1>4
  DEF BeginUpdate, Settles, vars, client, storage, builder, promises,
      session, memory
<1>5. CASE Parse
  BY <1>5
  DEF Parse, Settles, vars, client, storage, builder, promises, session,
      memory
<1>6. CASE Link
  BY <1>6
  DEF Link, Settles, Builds, LinksAll, vars, client, storage, builder,
      promises, session, memory
<1>7. CASE Validate
  BY <1>7
  DEF Validate, Settles, vars, client, storage, builder, promises, session,
      memory
<1>8. CASE Abandon
  BY <1>8
  DEF Abandon, Settles, vars, client, storage, builder, promises, session,
      memory
<1>9. CASE HandshakeReplayed
  <2>1. CASE gate = "replay" /\ Replay
    <3>1. build' = "idle"
      BY <2>1 DEF Replay, Dormant, Blank
    <3>2. gate' = "open" => updates' = <<>>
      BY <2>1, ReplayQueue DEF Replay, Tables
    <3>3. QED
      BY <3>1, <3>2 DEF Settles
  <2>2. CASE UNCHANGED <<gate, updates, build, settle>> \/ gate' = "failed"
    BY <2>2 DEF Settles
  <2>3. QED
    BY <1>9, <2>1, <2>2 DEF HandshakeReplayed, session, builder, promises
<1>10. CASE ReplayTimeout
  <2>1. CASE gate = "replay" /\ Replay
    <3>1. build' = "idle"
      BY <2>1 DEF Replay, Dormant, Blank
    <3>2. gate' = "open" => updates' = <<>>
      BY <2>1, ReplayQueue DEF Replay, Tables
    <3>3. QED
      BY <3>1, <3>2 DEF Settles
  <2>2. CASE UNCHANGED <<gate, updates, build, settle>> \/ gate' = "failed"
    BY <2>2 DEF Settles
  <2>3. QED
    BY <1>10, <2>1, <2>2 DEF ReplayTimeout, session, builder, promises
<1>11. CASE SettleTimeout
  BY <1>11
  DEF SettleTimeout, Settles, vars, client, storage, builder, promises,
      session, memory
<1>12. CASE \/ Initialize \/ Edit \/ Hover \/ Shutdown \/ Disconnect
            \/ Deliver \/ Close \/ RunJob \/ Refuse \/ HandleRequest
            \/ HandleInitialized \/ HandleInitialize \/ HandleShutdown
            \/ Resume \/ Initialized \/ (\E m \in Request : Answer(m))
            \/ (\E m \in Request : AckTimeout(m)) \/ UNCHANGED vars
  <2>1. UNCHANGED <<gate, updates, build, settle>>
    BY <1>12
    DEF Initialize, SendRequest, Send, Edit, Hover, Shutdown, Disconnect,
        Deliver, Close, RunJob, Refuse, Error, HandleRequest, Handle,
        Receive, Throw, HandleInitialized, HandleInitialize, HandleShutdown,
        Resume, Initialized, Reply, Answer, AckTimeout, vars, client,
        storage, builder, promises, session, memory
  <2>2. QED
    BY <2>1 DEF Settles
<1>13. QED
  BY <1>1, <1>2, <1>3, <1>4, <1>5, <1>6, <1>7, <1>8, <1>9, <1>10, <1>11,
     <1>12
  DEF Next, Client, Event, Handler, Builder, Server, Timeout

\* Frames move, and none comes up that was not there.
LEMMA TakenUp ==
  ASSUME Queues, inbox # <<>>, inbox' = Tail(inbox), UNCHANGED <<phase, wire, busy>>
  PROVE  Up' => Up
<1>1. inbox \in Seq(Frame)
  BY DEF Queues
<1>2. QED
  BY <1>1, Rest DEF Up

LEMMA MovedUp ==
  ASSUME Queues, wire # <<>>, wire' = Tail(wire), inbox' = Append(inbox, Head(wire)),
         UNCHANGED <<phase, busy>>
  PROVE  Up' => Up
<1>1. wire \in Seq(Frame) /\ inbox \in Seq(Frame)
  BY DEF Queues
<1>2. /\ DOMAIN inbox' = 1 .. Len(inbox) + 1 /\ Len(inbox) \in Nat /\ DOMAIN inbox = 1 .. Len(inbox)
      /\ inbox'[Len(inbox) + 1] = Head(wire)
      /\ \A i \in 1 .. Len(inbox) : inbox'[i] = inbox[i]
  BY <1>1
<1>3. \A i \in DOMAIN inbox' : (i \in DOMAIN inbox /\ inbox'[i] = inbox[i]) \/ inbox'[i] = Head(wire)
  BY <1>2
<1>4. CASE \E i \in DOMAIN inbox' : inbox'[i].m # "initialize"
  BY <1>1, <1>3, <1>4, Rest DEF Up
<1>5. CASE \E i \in DOMAIN wire' : wire'[i].m # "initialize"
  BY <1>1, <1>5, Rest DEF Up
<1>6. QED
  BY <1>4, <1>5 DEF Up

\* A request the client should not have had answered so.
LEMMA ServedStep ==
  ASSUME Words, Queues, Dormant, Calls, Served, "slow" \notin Env, [Next]_vars
  PROVE  Served' /\ UNCHANGED odd
<1>1. CASE Initialize
  <2>1. /\ phase' = "starting" /\ wire = <<>> /\ inbox = <<>> /\ wire' = Append(wire, Message("initialize"))
        /\ UNCHANGED <<inbox, busy, gate, transport, server, odd>>
    BY <1>1 DEF Initialize, SendRequest, Send, memory, session, Calls, Greeted
  <2>2. Message("initialize").m = "initialize"
    BY DEF Message
  <2>3. Up' => Up
    BY <2>1, <2>2 DEF Up
  <2>4. QED
    BY <2>1, <2>3 DEF Served, Awake
<1>2. CASE Edit
  <2>1. phase = "running" /\ UNCHANGED <<gate, transport, server, odd>>
    BY <1>2 DEF Edit, memory, session
  <2>2. QED
    BY <2>1 DEF Served, Awake, Up
<1>3. CASE Hover
  BY <1>3
  DEF Hover, SendRequest, Send, Served, Awake, Up, vars, client, storage,
      builder, promises, session, memory
<1>4. CASE Shutdown
  BY <1>4
  DEF Shutdown, SendRequest, Send, Served, Awake, Up, vars, client, storage,
      builder, promises, session, memory
<1>5. CASE Disconnect
  BY <1>5
  DEF Disconnect, Served, Awake, Up, vars, client, storage, builder,
      promises, session, memory
<1>6. CASE Evict
  BY <1>6
  DEF Evict, Served, Awake, Up, vars, client, storage, builder, promises,
      session, memory
<1>7. CASE Wake
  <2>1. /\ gate = "none" /\ inbox = <<>> /\ wire # <<>> /\ wire' = Tail(wire) /\ inbox' = <<Head(wire)>>
        /\ UNCHANGED <<phase, busy, odd>>
        /\ \/ gate' = "failed" /\ UNCHANGED <<transport, server>>
           \/ gate' = "replay"
           \/ gate' = "open" /\ ~init /\ UNCHANGED server
    BY <1>7 DEF Wake, Quiet
  <2>2. Up' => Up
    <3>1. inbox' = Append(inbox, Head(wire))
      BY <2>1
    <3>2. QED
      BY <2>1, <3>1, MovedUp
  <2>3. ~Spent /\ server = "created" /\ ~transport
    BY <2>1 DEF Calls, NoWriteBehind, Greeted
  <2>4. ~init => ~Up
    BY <2>3 DEF Calls, Greeted
  <2>5. QED
    BY <2>1, <2>2, <2>3, <2>4 DEF Served, Awake
<1>8. CASE Deliver
  <2>1. Up' => Up
    BY <1>8, MovedUp DEF Deliver
  <2>2. QED
    BY <1>8, <2>1 DEF Deliver, Served, Awake
<1>9. CASE Close
  BY <1>9
  DEF Close, Served, Awake, Up, vars, client, storage, builder, promises,
      session, memory
<1>10. CASE Refuse
  <2>1. UNCHANGED <<phase, wire, busy, gate, transport, server, odd>> /\ inbox # <<>> /\ inbox' = Tail(inbox)
    BY <1>10 DEF Refuse, Handle, Error
  <2>2. Up' => Up
    BY <2>1, TakenUp
  <2>3. QED
    BY <2>1, <2>2 DEF Served, Awake
<1>11. CASE HandleRequest
  <2>1. /\ UNCHANGED <<busy, gate, transport>> /\ gate = "open"
        /\ inbox # <<>> /\ inbox' = Tail(inbox) /\ Head(inbox) = Message("hover")
        /\ inbox \in Seq(Frame)
    BY <1>11 DEF HandleRequest, Handle, Queues
  <2>2. Head(inbox).m = "hover"
    BY <2>1 DEF Message
  <2>3. Up
    BY <2>1, <2>2, Rest DEF Up
  <2>4. transport => server = "ready"
    BY <2>1, <2>3 DEF Served, Awake
  <2>5. UNCHANGED <<server, odd>>
    BY <1>11, <2>4 DEF HandleRequest, Receive, Throw, client
  <2>6. QED
    BY <2>1, <2>3, <2>5 DEF Served, Awake
<1>12. CASE HandleInitialized
  <2>1. UNCHANGED <<phase, wire, busy, gate, transport, server, odd>> /\ inbox # <<>> /\ inbox' = Tail(inbox)
    BY <1>12 DEF HandleInitialized, Handle, client
  <2>2. Up' => Up
    BY <2>1, TakenUp
  <2>3. QED
    BY <2>1, <2>2 DEF Served, Awake
<1>13. CASE HandleInitialize
  <2>1. /\ UNCHANGED <<phase, wire, gate, transport, server, odd>> /\ inbox # <<>> /\ inbox' = Tail(inbox)
        /\ busy = "no" /\ busy' = "initialize" /\ inbox \in Seq(Frame)
    BY <1>13 DEF HandleInitialize, Handle, client, Queues
  <2>2. Up' => Up
    BY <2>1, Rest DEF Up
  <2>3. QED
    BY <2>1, <2>2 DEF Served, Awake
<1>14. CASE HandleShutdown
  <2>1. /\ UNCHANGED <<gate, transport, server, odd>> /\ inbox # <<>> /\ Head(inbox) = Message("shutdown")
        /\ inbox \in Seq(Frame)
    BY <1>14 DEF HandleShutdown, Handle, client, Queues
  <2>2. Head(inbox).m = "shutdown"
    BY <2>1 DEF Message
  <2>3. Up
    BY <2>1, <2>2, Rest DEF Up
  <2>4. QED
    BY <2>1, <2>3 DEF Served, Awake
<1>15. CASE HandleDocument
  <2>1. UNCHANGED <<phase, wire, busy, gate, transport, server, odd>> /\ inbox # <<>> /\ inbox' = Tail(inbox)
    BY <1>15 DEF HandleDocument, Handle, client
  <2>2. Up' => Up
    BY <2>1, TakenUp
  <2>3. QED
    BY <2>1, <2>2 DEF Served, Awake
<1>16. CASE Resume
  <2>1. /\ busy # "no" /\ gate = "open" /\ UNCHANGED <<gate, inbox, transport>>
        /\ busy \in {"initialize", "shutdown"}
    BY <1>16 DEF Resume, Dormant, Words
  <2>2. CASE busy = "shutdown"
    <3>1. transport => server = "ready"
      BY <2>1, <2>2 DEF Served, Awake, Up
    <3>2. UNCHANGED <<server, odd>>
      BY <1>16, <2>2, <3>1 DEF Resume, Receive, Throw, client
    <3>3. QED
      BY <2>1, <2>2, <3>2 DEF Served, Awake, Up
  <2>3. CASE busy = "initialize"
    <3>1. ~Up /\ server = "created"
      BY <2>3 DEF Calls, Greeted, Greeting
    <3>2. UNCHANGED <<phase, wire, odd>> /\ busy' = "no" /\ server' \in {server, "initializing"}
      BY <1>16, <2>3 DEF Resume, Receive, Throw, client
    <3>3. ~Up'
      BY <2>1, <3>1, <3>2 DEF Up
    <3>4. QED
      BY <3>1, <3>2, <3>3 DEF Served
  <2>4. QED
    BY <2>1, <2>2, <2>3
<1>17. CASE Link
  BY <1>17
  DEF Link, Served, Awake, Up, vars, client, storage, builder, promises,
      session, memory
<1>18. CASE HandshakeReplayed
  <2>1. gate = "replay" \/ ~transport
    BY <1>18 DEF HandshakeReplayed, Served
  <2>2. UNCHANGED odd /\ server' = "ready"
    BY <1>18, <2>1 DEF HandshakeReplayed
  <2>3. QED
    BY <2>2 DEF Served
<1>19. CASE Initialized
  <2>1. server' = "ready" /\ UNCHANGED odd
    BY <1>19 DEF Initialized, Reply, client
  <2>2. QED
    BY <2>1 DEF Served
<1>20. ASSUME NEW m \in Request, Answer(m) PROVE Served' /\ UNCHANGED odd
  <2>1. m # "initialize"
    BY <1>20 DEF Answer, Calls, Greeted
  <2>2. UNCHANGED <<phase, wire, inbox, busy, gate, transport, server, odd>>
    BY <1>20, <2>1 DEF Answer, Reply, client, session
  <2>3. QED
    BY <2>2 DEF Served, Awake, Up
<1>21. CASE ReplayTimeout
  <2>1. ~transport /\ gate' = "failed" /\ UNCHANGED <<transport, server, odd>>
    BY <1>21 DEF ReplayTimeout, client
  <2>2. QED
    BY <2>1 DEF Served, Awake
<1>22. CASE \/ RunJob \/ BeginUpdate \/ Parse \/ Validate \/ Abandon
            \/ SettleTimeout \/ (\E m \in Request : AckTimeout(m))
            \/ UNCHANGED vars
  <2>1. UNCHANGED <<phase, wire, inbox, busy, gate, transport, server, odd>>
    BY <1>22
    DEF RunJob, BeginUpdate, Parse, Validate, Abandon, SettleTimeout,
        AckTimeout, vars, client, storage, builder, promises, session, memory
  <2>2. QED
    BY <2>1 DEF Served, Awake, Up
<1>23. QED
  BY <1>1, <1>2, <1>3, <1>4, <1>5, <1>6, <1>7, <1>8, <1>9, <1>10, <1>11,
     <1>12, <1>13, <1>14, <1>15, <1>16, <1>17, <1>18, <1>19, <1>20, <1>21,
     <1>22
  DEF Next, Client, Event, Handler, Builder, Server, Timeout

\* One invariant for both: memory is never dropped, nor a gate opened, before
\* its time.
Sound ==
  /\ CallInv
  /\ Connected /\ Told /\ Alternate /\ Mirrored /\ Settles
  /\ Served /\ odd = {}

LEMMA SoundInit ==
  ASSUME Init
  PROVE  Sound
<1>1. CallInv
  BY BuildInit, CallsInit DEF CallInv
<1>2. /\ gate = "none" /\ updates = <<>> /\ jobs = <<>> /\ store = Nothing /\ told = Nothing
      /\ closed = FALSE /\ transport = FALSE /\ server = "created" /\ odd = {}
  BY DEF Init, Fresh
<1>3. Connected /\ Told /\ Alternate /\ Mirrored /\ Settles /\ Served
  BY <1>2 DEF Connected, Told, Alternate, Mirrored, Settles, Served, Awake
<1>4. QED
  BY <1>1, <1>2, <1>3 DEF Sound

LEMMA SoundStep ==
  ASSUME DocsAreFinite, "slow" \notin Env, Sound, [Next]_vars
  PROVE  Sound'
<1>1. CallInv'
  BY CallStep DEF Sound
<1>2. /\ Words /\ Tables /\ Queues /\ Dormant /\ Builds /\ Calls
      /\ Connected /\ Told /\ Alternate /\ Mirrored /\ Settles /\ Served
  BY TypeParts DEF Sound, CallInv, BuildInv, Builds
<1>3. Connected' /\ Told' /\ Alternate'
  BY <1>2, ConnectedStep, ToldStep, AlternateStep
<1>4. Mirrored' /\ Settles'
  BY <1>2, MirroredStep, SettlesStep
<1>5. Served' /\ odd' = {}
  BY <1>2, ServedStep DEF Sound
<1>6. QED
  BY <1>1, <1>3, <1>4, <1>5 DEF Sound

(* The server a client reaches has every edit the client has told any server *)
(* of, however hibernation falls between edits, builds and storage writes    *)
(* (storage mirror, waitUntil, replayIfColdWake), provided no build outlasts *)
(* RESPONSE_ACK_TIMEOUT_MS.                                                  *)
THEOREM NoEditLost ==
  ASSUME DocsAreFinite, "slow" \notin Env
  PROVE  Spec => []ServerHasEveryEdit
<1>1. Sound /\ [Next]_vars => Sound'
  BY SoundStep
<1>2. Sound => ServerHasEveryEdit
  BY DEF Sound, Told, Awake, ServerHasEveryEdit
<1>3. QED
  BY SoundInit, <1>1, <1>2, PTL DEF Spec

(* A client cannot tell that its server was rebuilt: no reply of a replayed  *)
(* handshake reaches it and no request of its own is turned away, provided   *)
(* the server answers within RESPONSE_ACK_TIMEOUT_MS.                        *)
THEOREM WakesAreInvisible ==
  ASSUME DocsAreFinite, "slow" \notin Env
  PROVE  Spec => []WakeIsInvisible
<1>1. Sound /\ [Next]_vars => Sound'
  BY SoundStep
<1>2. Sound => WakeIsInvisible
  BY DEF Sound, WakeIsInvisible
<1>3. QED
  BY SoundInit, <1>1, <1>2, PTL DEF Spec

-----------------------------------------------------------------------------
(* Frames in line, and requests from the first to the last. *)

\* The client is there; a request is in a queue no more than once.
Here == phase \notin {"gone", "reported"}
Single(q, m) == \A i, j \in DOMAIN q : q[i].m = m /\ q[j].m = m => i = j

LEMMA LineType == ASSUME Queues PROVE Line \in Seq(Frame)
BY DEF Queues, Line

LEMMA LineSent ==
  ASSUME Queues, NEW f \in Frame, wire' = Append(wire, f), inbox' = inbox
  PROVE  Line' = Append(Line, f)
BY DEF Queues, Line

LEMMA LineCut ==
  ASSUME Queues, wire' \in {wire, <<>>}, inbox' = inbox
  PROVE  \E n \in 0 .. Len(Line) : Line' = SubSeq(Line, 1, n)
<1>1. inbox \in Seq(Frame) /\ wire \in Seq(Frame)
  BY DEF Queues
<1>2. CASE wire' = wire
  <2>1. Line' = Line /\ Line \in Seq(Frame) /\ Len(Line) \in Nat
    BY <1>1, <1>2 DEF Line
  <2>2. Line = SubSeq(Line, 1, Len(Line)) /\ Len(Line) \in 0 .. Len(Line)
    BY <2>1
  <2>3. QED
    BY <2>1, <2>2
<1>3. CASE wire' = <<>>
  <2>1. Line' = inbox
    BY <1>1, <1>3 DEF Line
  <2>2. inbox = SubSeq(Line, 1, Len(inbox)) /\ Len(inbox) \in 0 .. Len(Line)
    BY <1>1 DEF Line
  <2>3. QED
    BY <2>1, <2>2
<1>4. QED
  BY <1>2, <1>3

LEMMA LineTaken ==
  ASSUME Queues, inbox # <<>>, inbox' = Tail(inbox), wire' = wire
  PROVE  Line # <<>> /\ Line' = Tail(Line) /\ Head(Line) = Head(inbox)
<1>1. inbox \in Seq(Frame) /\ wire \in Seq(Frame)
  BY DEF Queues
<1>2. Line # <<>> /\ Head(Line) = Head(inbox)
  BY <1>1 DEF Line
<1>3. Tail(inbox) \o wire = Tail(inbox \o wire)
  BY <1>1
<1>4. QED
  BY <1>2, <1>3 DEF Line

LEMMA LineMoved ==
  ASSUME Queues, wire # <<>>, wire' = Tail(wire), inbox' = Append(inbox, Head(wire))
  PROVE  Line' = Line
<1>1. inbox \in Seq(Frame) /\ wire \in Seq(Frame)
  BY DEF Queues
<1>2. Append(inbox, Head(wire)) \o Tail(wire) = inbox \o wire
  BY <1>1
<1>3. QED
  BY <1>2 DEF Line

LEMMA HasMore ==
  ASSUME NEW q \in Seq(Frame), NEW f \in Frame, NEW m
  PROVE  /\ Has(Append(q, f), m) <=> Has(q, m) \/ f.m = m
         /\ Single(q, m) /\ (f.m = m => ~Has(q, m)) => Single(Append(q, f), m)
<1>1. /\ DOMAIN Append(q, f) = 1 .. Len(q) + 1 /\ Len(q) \in Nat /\ DOMAIN q = 1 .. Len(q)
      /\ Append(q, f)[Len(q) + 1] = f
      /\ \A i \in 1 .. Len(q) : Append(q, f)[i] = q[i]
  OBVIOUS
<1>2. \A i \in DOMAIN Append(q, f) : i = Len(q) + 1 \/ i \in DOMAIN q
  BY <1>1
<1>3. QED
  BY <1>1, <1>2 DEF Has, Single

LEMMA HasLess ==
  ASSUME NEW q \in Seq(Frame), q # <<>>, NEW m
  PROVE  /\ Has(q, m) <=> Head(q).m = m \/ Has(Tail(q), m)
         /\ Single(q, m) => Single(Tail(q), m) /\ (Head(q).m = m => ~Has(Tail(q), m))
<1>1. /\ Head(q) = q[1] /\ Len(q) \in Nat /\ Len(q) > 0
      /\ DOMAIN q = 1 .. Len(q) /\ DOMAIN Tail(q) = 1 .. Len(q) - 1
      /\ \A i \in 1 .. Len(q) - 1 : Tail(q)[i] = q[i + 1]
  BY Queue
<1>2. \A i \in DOMAIN Tail(q) : i + 1 \in DOMAIN q /\ i + 1 # 1 /\ Tail(q)[i] = q[i + 1]
  BY <1>1
<1>3. \A i \in DOMAIN q : i = 1 \/ (i - 1 \in DOMAIN Tail(q) /\ Tail(q)[i - 1] = q[i])
  BY <1>1
<1>4. 1 \in DOMAIN q
  BY <1>1
<1>5. Has(q, m) <=> Head(q).m = m \/ Has(Tail(q), m)
  <2>1. ASSUME NEW i \in DOMAIN q, q[i].m = m PROVE Head(q).m = m \/ Has(Tail(q), m)
    BY <1>1, <1>3, <2>1 DEF Has
  <2>2. ASSUME NEW i \in DOMAIN Tail(q), Tail(q)[i].m = m PROVE Has(q, m)
    BY <1>2, <2>2 DEF Has
  <2>3. Head(q).m = m => Has(q, m)
    BY <1>1, <1>4 DEF Has
  <2>4. QED
    BY <2>1, <2>2, <2>3 DEF Has
<1>6. ASSUME Single(q, m), Head(q).m = m PROVE ~Has(Tail(q), m)
  BY <1>1, <1>2, <1>4, <1>6 DEF Has, Single
<1>7. ASSUME Single(q, m) PROVE Single(Tail(q), m)
  <2>1. SUFFICES ASSUME NEW i \in DOMAIN Tail(q), NEW j \in DOMAIN Tail(q),
                        Tail(q)[i].m = m, Tail(q)[j].m = m
                 PROVE  i = j
    BY DEF Single
  <2>2. i + 1 = j + 1
    BY <1>2, <1>7, <2>1 DEF Single
  <2>3. QED
    BY <1>1, <2>1, <2>2
<1>8. QED
  BY <1>5, <1>6, <1>7

LEMMA HasCut ==
  ASSUME NEW q \in Seq(Frame), NEW n \in 0 .. Len(q), NEW m, Single(q, m)
  PROVE  /\ Single(SubSeq(q, 1, n), m)
         /\ Has(SubSeq(q, 1, n), m) => Has(q, m)
<1>1. /\ DOMAIN SubSeq(q, 1, n) = 1 .. n /\ DOMAIN q = 1 .. Len(q) /\ Len(q) \in Nat
      /\ \A i \in 1 .. n : SubSeq(q, 1, n)[i] = q[i] /\ i \in DOMAIN q
  OBVIOUS
<1>2. QED
  BY <1>1 DEF Has, Single

\* Requests in order: those of a client that is there are the ones on their
\* way, each in one place.
Apart(m) ==
  /\ Single(Line, m)
  /\ AtServer(m) => ~Has(Line, m)
  /\ busy = m => m \notin working
InFlight ==
  /\ ~Here => asked = {}
  /\ Here => \A m \in Request : m \in asked <=> Carried(m)
  /\ \A m \in Request : Apart(m)

\* An instance without a transport has lost its client, and one that could
\* not be built owes that to a load that failed or to the close; a request at
\* the server keeps the memory.
Detached ==
  /\ gate \in {"replay", "linking", "open"} /\ ~transport => phase = "reported"
  /\ gate = "failed" => "loadFails" \in Env \/ phase = "reported"
  /\ phase = "reported" => Spent
  /\ server = "initializing" => gate = "open"
  /\ transport => working \subseteq acks /\ (server = "initializing" => "initialize" \in acks)

LEMMA DetachedStep ==
  ASSUME Words, Queues, Dormant, Calls, Detached, "slow" \notin Env, odd = {}, odd' = {}, [Next]_vars
  PROVE  Detached'
<1>1. Spent => Spent'
  BY SpentStep
<1>2. CASE Close
  <2>1. Spent'
    BY <1>2, MoreJobs DEF Close, Queues, Spent
  <2>2. transport' = FALSE /\ UNCHANGED <<gate, server>> /\ phase' = "reported"
    BY <1>2 DEF Close, Quiet
  <2>3. QED
    BY <2>1, <2>2 DEF Detached
<1>3. CASE Evict
  <2>1. gate' = "none" /\ transport' = FALSE /\ server' = "created" /\ phase' = phase
    BY <1>3 DEF Evict, client
  <2>2. QED
    BY <1>1, <2>1 DEF Detached
<1>4. CASE Wake
  <2>1. /\ gate = "none" /\ UNCHANGED <<phase, working, acks>>
        /\ \/ "loadFails" \in Env /\ gate' = "failed" /\ UNCHANGED <<transport, server>>
           \/ transport' = TRUE /\ gate' \in {"replay", "open"} /\ (server' = "replaying" \/ UNCHANGED server)
    BY <1>4 DEF Wake, promises
  <2>2. working = {} /\ server = "created" /\ ~transport
    BY <2>1 DEF Dormant, Blank, Calls, Greeted
  <2>3. QED
    BY <1>1, <2>1, <2>2 DEF Detached
<1>5. CASE HandleRequest \/ Resume
  <2>1. gate = "open" /\ UNCHANGED <<phase, gate, transport>> /\ busy \in {"no", "initialize", "shutdown"}
    <3>1. CASE HandleRequest
      BY <3>1 DEF HandleRequest, Handle, Receive, Throw, Error, client, Words
    <3>2. CASE Resume
      BY <3>2 DEF Resume, Dormant, Receive, Throw, Error, client, Words
    <3>3. QED
      BY <1>5, <3>1, <3>2
  <2>2. ~transport => UNCHANGED <<server, working, acks>>
    BY <1>5 DEF HandleRequest, Resume, Throw
  <2>3. transport => working' \subseteq acks' /\ (server' = "initializing" => "initialize" \in acks')
    <3>1. SUFFICES ASSUME transport, NEW m \in Request, Receive(m)
                   PROVE  working' \subseteq acks' /\ (server' = "initializing" => "initialize" \in acks')
      BY <1>5, <2>1 DEF HandleRequest, Resume, Request
    <3>2. "not initialized" \notin odd'
      OBVIOUS
    <3>3. /\ acks' = acks \cup {m}
          /\ \/ m = "initialize" /\ UNCHANGED working
             \/ working' = working \cup {m} /\ UNCHANGED server
      BY <3>1, <3>2 DEF Receive
    <3>4. QED
      BY <3>1, <3>3 DEF Detached
  <2>4. QED
    BY <1>1, <2>1, <2>2, <2>3 DEF Detached
<1>6. CASE Link
  BY <1>1, <1>6 DEF Link, Detached, client, promises
<1>7. CASE HandshakeReplayed
  <2>1. /\ server' = "ready" /\ UNCHANGED <<phase, transport, working, acks>>
        /\ gate' = gate \/ (transport /\ gate' \in {"open", "linking"})
    BY <1>7 DEF HandshakeReplayed, Replay, session, promises
  <2>2. QED
    BY <1>1, <2>1 DEF Detached
<1>8. CASE ReplayTimeout
  <2>1. ~transport /\ gate = "replay" /\ gate' = "failed" /\ UNCHANGED <<phase, transport, server, working, acks>>
    BY <1>8 DEF ReplayTimeout, client, promises
  <2>2. QED
    BY <1>1, <2>1 DEF Detached
<1>9. CASE Initialized
  <2>1. /\ server = "initializing" /\ server' = "ready" /\ UNCHANGED <<gate, transport, working>>
        /\ acks' = (IF transport THEN acks \ {"initialize"} ELSE acks)
        /\ phase' = phase \/ phase' = "running"
        /\ ~transport => phase' = phase
    BY <1>9 DEF Initialized, Reply, session, client
  <2>2. "initialize" \notin working
    BY DEF Calls, Greeted
  <2>3. QED
    BY <1>1, <2>1, <2>2 DEF Detached
<1>10. ASSUME NEW m \in Request, Answer(m) PROVE Detached'
  <2>1. /\ m # "initialize" /\ UNCHANGED <<phase, gate, transport, server>>
        /\ working' = working \ {m}
        /\ acks' = (IF transport THEN acks \ {m} ELSE acks)
    BY <1>10 DEF Answer, Reply, session, client, Calls, Greeted
  <2>2. QED
    BY <1>1, <2>1 DEF Detached
<1>11. ASSUME NEW m \in Request, AckTimeout(m) PROVE Detached'
  BY <1>1, <1>11 DEF AckTimeout, Detached, client, session
<1>12. CASE Disconnect
  BY <1>1, <1>12 DEF Disconnect, Detached, memory, session, promises
<1>13. CASE Initialize \/ Shutdown
  BY <1>1, <1>13 DEF Initialize, Shutdown, SendRequest, Send, Detached, memory, session, promises
<1>14. CASE \/ Edit \/ Hover \/ Deliver \/ RunJob \/ Refuse \/ HandleInitialized
            \/ HandleInitialize \/ HandleShutdown \/ HandleDocument
            \/ BeginUpdate \/ Parse \/ Validate \/ Abandon \/ SettleTimeout
            \/ UNCHANGED vars
  <2>1. UNCHANGED <<phase, gate, transport, server, working, acks>>
    BY <1>14
    DEF Edit, Hover, SendRequest, Send, Deliver, RunJob, Refuse, Error,
        HandleInitialized, HandleInitialize, HandleShutdown, HandleDocument,
        Handle, BeginUpdate, Parse, Validate, Abandon, SettleTimeout, vars,
        client, storage, builder, promises, session, memory
  <2>2. QED
    BY <1>1, <2>1 DEF Detached
<1>15. QED
  BY <1>2, <1>3, <1>4, <1>5, <1>6, <1>7, <1>8, <1>9, <1>10, <1>11, <1>12,
     <1>13, <1>14
  DEF Next, Client, Event, Handler, Builder, Server, Timeout

(* What a step means for requests: one is sent, or what has been sent is     *)
(* taken to a handler, passed on, answered or lost with its client.          *)
Keeps == UNCHANGED <<asked, Line, busy, working>>
         /\ (server' = "initializing" <=> server = "initializing") /\ (Here' <=> Here)

LEMMA InFlightKept ==
  ASSUME InFlight, Keeps
  PROVE  InFlight'
BY DEF InFlight, Apart, Keeps, Single, Has, AtServer, Carried

LEMMA InFlightSent ==
  ASSUME Queues, InFlight, Here, Here', NEW f \in Frame, wire' = Append(wire, f), f.m \notin asked,
         asked' = asked \cup ({f.m} \cap Request), UNCHANGED <<inbox, busy, working, server>>
  PROVE  InFlight'
<1>1. Line' = Append(Line, f) /\ Line \in Seq(Frame)
  BY LineSent, LineType
<1>2. \A m : AtServer(m)' <=> AtServer(m)
  BY DEF AtServer
<1>3. ASSUME NEW m \in Request
      PROVE  Apart(m)' /\ (m \in asked' <=> Carried(m)')
  <2>1. Has(Line', m) <=> Has(Line, m) \/ f.m = m
    BY <1>1, HasMore
  <2>2. f.m = m => ~Carried(m)
    BY DEF InFlight
  <2>3. Single(Line', m)
    <3>1. Single(Line, m) /\ (f.m = m => ~Has(Line, m))
      BY <2>2 DEF InFlight, Apart, Carried
    <3>2. QED
      BY <1>1, <3>1, HasMore
  <2>4. Apart(m)'
    BY <1>2, <2>1, <2>2, <2>3 DEF InFlight, Apart, Carried
  <2>5. QED
    BY <1>2, <2>1, <2>4 DEF InFlight, Carried
<1>4. QED
  BY <1>3 DEF InFlight

\* A frame leaves the line for the server or for no server at all.
LEMMA InFlightTaken ==
  ASSUME Queues, InFlight, inbox # <<>>, inbox' = Tail(inbox), UNCHANGED <<wire, phase>>,
         \A m \in Request : \/ AtServer(m)' <=> AtServer(m) \/ (Here /\ Head(inbox).m = m)
                            \/ ~Here,
         \A m \in Request : /\ AtServer(m)' => AtServer(m) \/ Head(inbox).m = m
                            /\ busy' = m => m \notin working',
         asked' = asked
  PROVE  InFlight'
<1>1. Line \in Seq(Frame) /\ Line # <<>> /\ Line' = Tail(Line) /\ Head(Line) = Head(inbox)
  BY LineType, LineTaken
<1>2. Here' <=> Here
  BY DEF Here
<1>3. ASSUME NEW m \in Request
      PROVE  Apart(m)' /\ (Here => (m \in asked' <=> Carried(m)'))
  <2>1. /\ Has(Line, m) <=> Head(inbox).m = m \/ Has(Line', m)
        /\ Single(Line', m) /\ (Head(inbox).m = m => ~Has(Line', m))
    BY <1>1, HasLess DEF InFlight, Apart
  <2>2. Apart(m)'
    BY <2>1 DEF InFlight, Apart
  <2>3. QED
    BY <2>1, <2>2 DEF InFlight, Carried
<1>4. QED
  BY <1>2, <1>3 DEF InFlight

\* The answer to a request reaches the client, or goes to nobody.
LEMMA InFlightAnswered ==
  ASSUME Queues, InFlight, NEW m \in Request, AtServer(m), ~AtServer(m)',
         \A n \in Request : /\ n # m => (AtServer(n)' <=> AtServer(n))
                            /\ busy' = n => n \notin working',
         Reply(m) \/ (~Here /\ UNCHANGED client),
         inbox' = inbox
  PROVE  InFlight'
<1>1. Line \in Seq(Frame) /\ Message("initialized") \in Frame /\ Message("initialized").m = "initialized"
  BY LineType, Frames
<1>2. \/ Line' = Line \/ Line' = Append(Line, Message("initialized"))
  <2>1. wire' = wire \/ wire' = Append(wire, Message("initialized"))
    BY DEF Reply, client
  <2>2. QED
    BY <1>1, <2>1, LineSent DEF Line
<1>3. \A n \in Request : /\ Has(Line', n) <=> Has(Line, n)
                         /\ Single(Line', n) <=> Single(Line, n)
  <2>1. ASSUME NEW n \in Request PROVE n # "initialized"
    BY DEF Request
  <2>2. ASSUME NEW n \in Request, Line' = Append(Line, Message("initialized"))
        PROVE  /\ Has(Line', n) <=> Has(Line, n)
               /\ Single(Line, n) => Single(Line', n)
    BY <1>1, <2>1, <2>2, HasMore
  <2>3. QED
    BY <1>2, <2>2 DEF InFlight, Apart
<1>4. asked' = asked \ {m} /\ (Here' <=> Here) /\ (~Here => asked' = {})
  BY DEF Reply, client, Here, InFlight
<1>5. ASSUME NEW n \in Request
      PROVE  Apart(n)' /\ (Here => (n \in asked' <=> Carried(n)'))
  BY <1>3, <1>4 DEF InFlight, Apart, Carried
<1>6. QED
  BY <1>4, <1>5 DEF InFlight

LEMMA InFlightStep ==
  ASSUME Words, Queues, Dormant, Calls, Detached, InFlight, odd = {}, odd' = {}, [Next]_vars
  PROVE  InFlight'
<1>1. /\ inbox \in Seq(Frame) /\ wire \in Seq(Frame)
      /\ \A m \in Request \cup {"initialized"} : Message(m) \in Frame /\ Message(m).m = m
  BY Frames DEF Queues
<1>2. CASE Initialize \/ Hover \/ Shutdown
  <2>1. PICK m \in Request : SendRequest(m)
    BY <1>2 DEF Initialize, Hover, Shutdown, Request
  <2>2. /\ wire' = Append(wire, Message(m)) /\ m \notin asked /\ asked' = asked \cup {m}
        /\ UNCHANGED <<inbox, busy, working, server>> /\ Here /\ Here'
    BY <1>2, <2>1 DEF Initialize, Hover, Shutdown, SendRequest, Send, memory, session, promises, Here
  <2>3. Message(m) \in Frame /\ Message(m).m = m /\ asked' = asked \cup ({m} \cap Request)
    BY <1>1, <2>2
  <2>4. QED
    BY <2>2, <2>3, InFlightSent
<1>3. CASE Edit
  <2>1. PICK f \in Frame : Send(f) /\ f.m \in {"didOpen", "didChange", "didClose"}
    BY <1>3, Frames DEF Edit
  <2>2. /\ wire' = Append(wire, f) /\ asked' = asked
        /\ UNCHANGED <<inbox, busy, working, server>> /\ Here /\ Here'
    BY <1>3, <2>1 DEF Edit, Send, memory, session, promises, Here
  <2>3. f.m \notin asked /\ f.m \notin Request
    BY <2>1 DEF Words, Request
  <2>4. asked' = asked \cup ({f.m} \cap Request)
    BY <2>2, <2>3
  <2>5. QED
    BY <2>2, <2>3, <2>4, InFlightSent
<1>4. CASE Disconnect
  <2>1. /\ wire' \in {wire, <<>>} /\ asked' = {} /\ UNCHANGED <<inbox, busy, working, server>> /\ ~Here'
    BY <1>4 DEF Disconnect, memory, session, promises, Here
  <2>2. PICK n \in 0 .. Len(Line) : Line' = SubSeq(Line, 1, n)
    BY <2>1, LineCut
  <2>3. \A m \in Request : Single(Line', m) /\ (Has(Line', m) => Has(Line, m))
    BY <2>2, LineType, HasCut DEF InFlight, Apart
  <2>4. \A m \in Request : Apart(m)'
    BY <2>1, <2>3 DEF InFlight, Apart, AtServer
  <2>5. QED
    BY <2>1, <2>4 DEF InFlight
<1>5. CASE Evict
  <2>1. /\ UNCHANGED <<asked, wire, inbox, busy, phase>> /\ busy = "no" /\ acks = {}
        /\ working' = {} /\ server' = "created"
        /\ gate \in {"open", "failed"} \/ gate = "none"
    BY <1>5 DEF Evict, client
  <2>2. Here => working = {} /\ server # "initializing"
    <3>1. CASE gate = "open" /\ transport
      BY <2>1, <3>1 DEF Detached
    <3>2. CASE gate = "open" /\ ~transport
      BY <3>2 DEF Detached, Here
    <3>3. CASE gate # "open"
      BY <2>1, <3>3 DEF Detached, Dormant, Blank
    <3>4. QED
      BY <3>1, <3>2, <3>3
  <2>3. Line' = Line /\ (Here' <=> Here)
    BY <2>1 DEF Line, Here
  <2>4. \A m \in Request : ~AtServer(m)' /\ (Here => ~AtServer(m))
    BY <2>1, <2>2 DEF AtServer, Request
  <2>5. \A m \in Request : Apart(m)' /\ (Here => (Carried(m)' <=> Carried(m)))
    BY <2>1, <2>3, <2>4 DEF InFlight, Apart, Carried, Request
  <2>6. QED
    BY <2>1, <2>3, <2>5 DEF InFlight
<1>6. CASE Wake \/ Deliver
  <2>1. /\ wire # <<>> /\ wire' = Tail(wire) /\ inbox' = Append(inbox, Head(wire))
        /\ UNCHANGED <<asked, busy, working, phase>>
        /\ server' = server \/ (gate = "none" /\ server' = "replaying")
    <3>1. CASE Deliver
      BY <3>1 DEF Deliver, promises
    <3>2. CASE Wake
      <4>1. inbox = <<>>
        BY <3>2 DEF Wake, Quiet
      <4>2. inbox' = Append(inbox, Head(wire))
        BY <3>2, <4>1 DEF Wake
      <4>3. QED
        BY <3>2, <4>2 DEF Wake, promises
    <3>3. QED
      BY <1>6, <3>1, <3>2
  <2>2. Line' = Line
    BY <2>1, LineMoved
  <2>3. server' = "initializing" <=> server = "initializing"
    BY <2>1 DEF Detached
  <2>4. QED
    BY <2>1, <2>2, <2>3, InFlightKept DEF Keeps, Here
<1>7. CASE Close
  <2>1. /\ phase = "gone" /\ phase' = "reported" /\ UNCHANGED <<asked, wire, inbox, busy, working, server>>
    BY <1>7 DEF Close, promises
  <2>2. QED
    BY <2>1, InFlightKept DEF Keeps, Here, Line
<1>8. CASE Refuse
  <2>1. /\ gate = "failed" /\ inbox # <<>> /\ inbox' = Tail(inbox)
        /\ UNCHANGED <<wire, phase, busy, working, server>>
        /\ asked' = asked \ {Head(inbox).m}
    BY <1>8 DEF Refuse, Error, promises
  <2>2. Line # <<>> /\ Line' = Tail(Line) /\ Head(Line) = Head(inbox) /\ Line \in Seq(Frame)
    BY <2>1, LineTaken, LineType
  <2>3. \A m : ~AtServer(m) \/ m = "no"
    BY <2>1 DEF AtServer, Dormant, Blank, Detached
  <2>4. ASSUME NEW m \in Request
        PROVE  Apart(m)' /\ (Here => (m \in asked' <=> Carried(m)'))
    <3>1. /\ Has(Line, m) <=> Head(inbox).m = m \/ Has(Line', m)
          /\ Single(Line', m) /\ (Head(inbox).m = m => ~Has(Line', m))
      BY <2>2, HasLess DEF InFlight, Apart
    <3>2. ~AtServer(m) /\ ~AtServer(m)' /\ (busy' = m => m \notin working')
      BY <2>1, <2>3 DEF AtServer, Request
    <3>3. QED
      BY <2>1, <3>1, <3>2 DEF InFlight, Apart, Carried
  <2>5. QED
    BY <2>1, <2>4 DEF InFlight, Here
<1>9. CASE HandleRequest
  <2>1. /\ gate = "open" /\ inbox # <<>> /\ Head(inbox).m = "hover" /\ inbox' = Tail(inbox) /\ busy' = busy
        /\ IF transport THEN Receive("hover") ELSE Throw
    BY <1>1, <1>9 DEF HandleRequest, Handle, Request
  <2>2. /\ UNCHANGED client /\ server' = server
        /\ IF transport THEN working' = working \cup {"hover"} ELSE working' = working
    <3>1. "not initialized" \notin odd'
      OBVIOUS
    <3>2. QED
      BY <2>1, <3>1 DEF Receive, Throw
  <2>3. ~transport => ~Here
    BY <2>1 DEF Detached, Here
  <2>4. busy # "hover"
    BY DEF Words
  <2>5. \A m \in Request : \/ AtServer(m)' <=> AtServer(m) \/ (Here /\ Head(inbox).m = m)
                           \/ ~Here
    BY <2>1, <2>2, <2>3 DEF AtServer
  <2>6. \A m \in Request : /\ AtServer(m)' => AtServer(m) \/ Head(inbox).m = m
                           /\ busy' = m => m \notin working'
    BY <2>1, <2>2, <2>4 DEF AtServer, InFlight, Apart
  <2>7. asked' = asked /\ UNCHANGED <<wire, phase>> /\ inbox # <<>> /\ inbox' = Tail(inbox)
    BY <2>1, <2>2 DEF client
  <2>8. QED
    BY <2>5, <2>6, <2>7, InFlightTaken
<1>10. CASE HandleInitialize \/ HandleShutdown
  <2>1. PICK r \in {"initialize", "shutdown"} :
          /\ inbox # <<>> /\ Head(inbox).m = r /\ inbox' = Tail(inbox) /\ busy = "no" /\ busy' = r
          /\ UNCHANGED <<phase, wire, asked, working, server>>
    BY <1>1, <1>10 DEF HandleInitialize, HandleShutdown, Handle, Request, client, promises
  <2>2. r \notin working
    <3>1. Has(Line, r)
      BY <2>1, LineType, LineTaken, HasLess
    <3>2. QED
      BY <3>1 DEF InFlight, Apart, AtServer, Request
  <2>3. \A m \in Request : AtServer(m)' <=> AtServer(m) \/ Head(inbox).m = m
    BY <2>1 DEF AtServer, Request
  <2>4. \A m \in Request : busy' = m => m \notin working'
    BY <2>1, <2>2
  <2>5. QED
    BY <2>1, <2>3, <2>4, InFlightTaken
<1>11. CASE HandleInitialized \/ HandleDocument
  <2>1. /\ inbox # <<>> /\ inbox' = Tail(inbox)
        /\ UNCHANGED <<phase, wire, asked, busy, working, server>>
    BY <1>11 DEF HandleInitialized, HandleDocument, Handle, client, promises
  <2>2. Head(inbox).m \notin Request
    <3>1. CASE HandleInitialized
      BY <1>1, <3>1 DEF HandleInitialized, Handle, Request
    <3>2. CASE HandleDocument
      <4>1. PICK f \in Range(inbox) : "doc" \in DOMAIN f /\ Head(inbox) = f
        BY <3>2 DEF HandleDocument, Handle
      <4>2. f \in Frame
        BY <1>1, <2>1, <4>1, Queue
      <4>3. QED
        BY <4>1, <4>2, DocumentFrame DEF Request
    <3>3. QED
      BY <1>11, <3>1, <3>2
  <2>3. \A m : AtServer(m)' <=> AtServer(m)
    BY <2>1 DEF AtServer
  <2>4. \A m \in Request : busy' = m => m \notin working'
    BY <2>1 DEF InFlight, Apart
  <2>5. QED
    BY <2>1, <2>2, <2>3, <2>4, InFlightTaken
<1>12. CASE Resume
  <2>1. /\ busy \in Request /\ busy' = "no" /\ UNCHANGED <<gate, inbox, transport>> /\ gate = "open"
        /\ IF transport THEN Receive(busy) ELSE Throw
    BY <1>12 DEF Resume, Words, Request, Dormant
  <2>2. UNCHANGED client
    <3>1. "not initialized" \notin odd'
      OBVIOUS
    <3>2. QED
      BY <2>1, <3>1 DEF Receive, Throw
  <2>3. \A m \in Request : /\ Here => (AtServer(m)' <=> AtServer(m))
                           /\ AtServer(m)' => AtServer(m)
    <3>1. CASE ~transport
      <4>1. ~Here /\ UNCHANGED <<server, working>>
        BY <2>1, <3>1 DEF Detached, Here, Throw
      <4>2. QED
        BY <2>1, <4>1 DEF AtServer, Request
    <3>2. CASE transport /\ busy = "initialize"
      <4>1. server' = "initializing" /\ working' = working /\ server = "created"
        BY <2>1, <3>2 DEF Receive, Calls, Greeted
      <4>2. QED
        BY <2>1, <3>2, <4>1 DEF AtServer, Request
    <3>3. CASE transport /\ busy # "initialize"
      <4>1. "not initialized" \notin odd'
        OBVIOUS
      <4>2. server' = server /\ working' = working \cup {busy}
        BY <2>1, <3>3, <4>1 DEF Receive
      <4>3. QED
        BY <2>1, <3>3, <4>2 DEF AtServer, Request
    <3>4. QED
      BY <3>1, <3>2, <3>3
  <2>4. Line' = Line /\ asked' = asked /\ (Here' <=> Here)
    BY <2>1, <2>2 DEF Line, Here, client
  <2>5. ASSUME NEW m \in Request
        PROVE  Apart(m)' /\ (Here => (Carried(m)' <=> Carried(m)))
    <3>1. Single(Line', m) <=> Single(Line, m)
      BY <2>4
    <3>2. Has(Line', m) <=> Has(Line, m)
      BY <2>4
    <3>3. busy' # m
      BY <2>1 DEF Request
    <3>4. Apart(m)'
      BY <2>3, <3>1, <3>2, <3>3 DEF InFlight, Apart
    <3>5. QED
      BY <2>3, <3>2, <3>4 DEF Carried
  <2>6. QED
    BY <2>4, <2>5 DEF InFlight
<1>13. CASE HandshakeReplayed
  <2>1. UNCHANGED <<phase, asked, wire, inbox, busy, working>> /\ server = "replaying" /\ server' = "ready"
    BY <1>13 DEF HandshakeReplayed, Replay, session, promises
  <2>2. QED
    BY <2>1, InFlightKept DEF Keeps, Here, Line
<1>14. CASE Initialized
  <2>1. /\ server = "initializing" /\ server' = "ready" /\ UNCHANGED <<inbox, busy, working>>
        /\ IF transport THEN Reply("initialize") ELSE UNCHANGED client
    BY <1>14 DEF Initialized, session
  <2>2. busy # "initialize" /\ "initialize" \notin working /\ "initialize" \in Request
    BY <2>1 DEF Calls, Greeted, Request
  <2>3. ~transport => ~Here
    BY <2>1 DEF Detached, Here
  <2>4. AtServer("initialize") /\ ~AtServer("initialize")'
    BY <2>1, <2>2 DEF AtServer
  <2>5. \A n \in Request : /\ n # "initialize" => (AtServer(n)' <=> AtServer(n))
                           /\ busy' = n => n \notin working'
    BY <2>1 DEF AtServer, InFlight, Apart
  <2>6. Reply("initialize") \/ (~Here /\ UNCHANGED client)
    BY <2>1, <2>3
  <2>7. "initialize" \in Request /\ inbox' = inbox
    BY <2>1, <2>2
  <2>8. QED
    BY <2>4, <2>5, <2>6, <2>7, InFlightAnswered
<1>15. ASSUME NEW m \in Request, Answer(m) PROVE InFlight'
  <2>1. /\ m \in working /\ working' = working \ {m} /\ UNCHANGED <<inbox, busy, server>>
        /\ IF transport THEN Reply(m) ELSE UNCHANGED client
    BY <1>15 DEF Answer, session
  <2>2. busy # m /\ m # "initialize"
    BY <2>1 DEF InFlight, Apart, Calls, Greeted
  <2>3. ~transport => ~Here
    BY <2>1 DEF Detached, Dormant, Blank, Words, Here
  <2>4. AtServer(m) /\ ~AtServer(m)'
    BY <2>1, <2>2 DEF AtServer
  <2>5. \A n \in Request : /\ n # m => (AtServer(n)' <=> AtServer(n))
                           /\ busy' = n => n \notin working'
    BY <2>1 DEF AtServer, InFlight, Apart
  <2>6. Reply(m) \/ (~Here /\ UNCHANGED client)
    BY <2>1, <2>3
  <2>7. inbox' = inbox
    BY <2>1
  <2>8. QED
    BY <2>4, <2>5, <2>6, <2>7, InFlightAnswered
<1>16. CASE \/ RunJob \/ BeginUpdate \/ Parse \/ Link \/ Validate \/ Abandon \/ SettleTimeout
            \/ (\E m \in Request : AckTimeout(m)) \/ ReplayTimeout \/ UNCHANGED vars
  <2>1. UNCHANGED <<phase, asked, wire, inbox, busy, working, server>>
    BY <1>16
    DEF RunJob, BeginUpdate, Parse, Link, Validate, Abandon, SettleTimeout,
        AckTimeout, ReplayTimeout, Replay, vars, client, storage, builder, promises,
        session, memory
  <2>2. QED
    BY <2>1, InFlightKept DEF Keeps, Here, Line
<1>17. QED
  BY <1>2, <1>3, <1>4, <1>5, <1>6, <1>7, <1>8, <1>9, <1>10, <1>11, <1>12,
     <1>13, <1>14, <1>15, <1>16
  DEF Next, Client, Event, Handler, Builder, Server, Timeout

-----------------------------------------------------------------------------
(* What a step is to the server that never hibernates. *)

\* The documents as the studio's server without hibernation would have them.
Shown == IF Spent THEN Nothing ELSE IF Awake THEN text ELSE store

LEMMA ShownIsTold ==
  ASSUME Sound
  PROVE  Shown = IF Spent THEN Nothing ELSE told
BY DEF Sound, Connected, Told, Awake, Shown

LEMMA ShownIsToldNext ==
  ASSUME Sound'
  PROVE  Shown' = IF Spent' THEN Nothing ELSE told'
BY DEF Sound, Connected, Told, Awake, Shown, Nothing

LEMMA Stutters ==
  ASSUME Sound, Sound', UNCHANGED <<Line, asked, told>>, Spent' <=> Spent
  PROVE  UNCHANGED Steady!svars
<1>1. Shown' = Shown
  BY ShownIsTold, ShownIsToldNext
<1>2. Spent' = Spent
  BY Zenon DEF Spent, HasJob
<1>3. QED
  BY <1>1, <1>2 DEF Steady!svars, Shown

LEMMA SteadyTakes ==
  ASSUME Line # <<>>, Line' = Tail(Line), asked' = asked,
         Spent' <=> Spent \/ Head(Line).m = "shutdown",
         Shown' = IF Spent' THEN Nothing ELSE Steady!Noted(Head(Line))
  PROVE  Steady!Take
<1>1. Steady!TakeNext
  BY DEF Steady!TakeNext
<1>2. CASE Spent \/ Head(Line).m = "shutdown"
  <2>1. Spent' = TRUE
    BY <1>2 DEF Spent, HasJob
  <2>2. Shown' = Nothing
    BY <1>2
  <2>3. QED
    BY <1>1, <1>2, <2>1, <2>2 DEF Steady!Take, Shown, Nothing
<1>3. CASE ~(Spent \/ Head(Line).m = "shutdown")
  <2>1. Spent' = Spent
    BY <1>3 DEF Spent, HasJob
  <2>2. Shown' = Steady!Noted(Head(Line))
    BY <1>3
  <2>3. QED
    BY <1>1, <1>3, <2>1, <2>2 DEF Steady!Take, Shown
<1>4. QED
  BY <1>2, <1>3

LEMMA SteadySends ==
  ASSUME Sound, Sound', NEW f \in Frame, f.m \notin asked, wire' = Append(wire, f), inbox' = inbox,
         asked' = asked \cup ({f.m} \cap Request), told' = told, Spent' <=> Spent
  PROVE  Steady!Next
<1>1. Line' = Append(Line, f)
  BY LineSent, TypeParts DEF Sound, CallInv, BuildInv
<1>2. Shown' = Shown
  BY ShownIsTold, ShownIsToldNext
<1>3. Spent' = Spent
  BY DEF Spent, HasJob
<1>4. Steady!Send(f)
  BY <1>1, <1>2, <1>3 DEF Steady!Send, Shown
<1>5. QED
  BY <1>4 DEF Steady!Next

LEMMA SteadyAnswers ==
  ASSUME Sound, Sound', InFlight, NEW m \in Request, AtServer(m),
         Reply(m) \/ (~Here /\ UNCHANGED client),
         inbox' = inbox, told' = told, Spent' <=> Spent
  PROVE  [Steady!Next]_(Steady!svars)
<1>1. Queues
  BY TypeParts DEF Sound, CallInv, BuildInv
<1>2. CASE ~Here
  <2>1. asked' = asked /\ wire' = wire
    BY <1>2 DEF Reply, client, InFlight, Here
  <2>2. UNCHANGED <<Line, asked, told>>
    BY <2>1 DEF Line
  <2>3. QED
    BY <2>2, Stutters
<1>3. CASE Here
  <2>1. m \in asked /\ ~Has(Line, m)
    BY <1>3 DEF InFlight, Apart, Carried
  <2>2. asked' = asked \ {m}
    BY <1>3 DEF Reply
  <2>3. Line' \in {Line} \cup IF m = "initialize" THEN {Append(Line, [m |-> "initialized"])} ELSE {}
    <3>1. CASE m = "initialize" /\ phase = "starting"
      <4>1. wire' = Append(wire, Message("initialized")) /\ Message("initialized") \in Frame
        BY <1>3, <3>1, Frames DEF Reply
      <4>2. QED
        BY <1>1, <3>1, <4>1, LineSent DEF Message
    <3>2. CASE ~(m = "initialize" /\ phase = "starting")
      BY <1>3, <3>2 DEF Reply, Line
    <3>3. QED
      BY <3>1, <3>2
  <2>4. Shown' = Shown
    BY ShownIsTold, ShownIsToldNext
  <2>5. Spent' = Spent
    BY DEF Spent, HasJob
  <2>6. \A i \in DOMAIN Line : Line[i].m # m
    BY <2>1 DEF Has
  <2>7. Steady!Answer(m)
    BY <2>1, <2>2, <2>3, <2>4, <2>5, <2>6 DEF Steady!Answer, Shown
  <2>8. QED
    BY <2>7 DEF Steady!Next
<1>4. QED
  BY <1>2, <1>3

LEMMA SteadyStep ==
  ASSUME DocsAreFinite, "slow" \notin Env, Sound, Sound', Detached, InFlight, [Next]_vars
  PROVE  [Steady!Next]_(Steady!svars)
<1>1. /\ Words /\ Queues /\ Dormant /\ Calls /\ jobs \in Seq(Job)
      /\ \A m \in Request \cup {"initialized"} : Message(m) \in Frame /\ Message(m).m = m
  BY TypeParts, Frames DEF Sound, CallInv, BuildInv, Queues
<1>2. /\ Spent => Spent'
      /\ Spent' => Spent \/ Close \/ HandleShutdown
  BY <1>1, SpentStep
<1>3. odd = {} /\ odd' = {}
  BY DEF Sound
<1>4. CASE Initialize \/ Hover \/ Shutdown
  <2>1. PICK m \in Request : SendRequest(m)
    BY <1>4 DEF Initialize, Hover, Shutdown, Request
  <2>2. /\ wire' = Append(wire, Message(m)) /\ m \notin asked /\ asked' = asked \cup {m}
        /\ UNCHANGED <<inbox, told, jobs, purged>>
    BY <1>4, <2>1 DEF Initialize, Hover, Shutdown, SendRequest, Send, memory, session, storage
  <2>3. Message(m) \in Frame /\ Message(m).m = m /\ asked' = asked \cup ({m} \cap Request)
    BY <1>1, <2>2
  <2>4. Spent' <=> Spent
    BY <2>2 DEF Spent, HasJob
  <2>5. QED
    BY <2>2, <2>3, <2>4, SteadySends
<1>5. CASE Edit
  <2>1. PICK f \in Frame : Send(f) /\ f.m \in {"didOpen", "didChange", "didClose"}
    BY <1>5, Frames DEF Edit
  <2>2. /\ wire' = Append(wire, f) /\ asked' = asked
        /\ UNCHANGED <<inbox, told, jobs, purged>>
    BY <1>5, <2>1 DEF Edit, Send, memory, session, storage
  <2>3. f.m \notin asked /\ f.m \notin Request
    BY <1>1, <2>1 DEF Words, Request
  <2>4. asked' = asked \cup ({f.m} \cap Request)
    BY <2>2, <2>3
  <2>5. Spent' <=> Spent
    BY <2>2 DEF Spent, HasJob
  <2>6. QED
    BY <2>2, <2>3, <2>4, <2>5, SteadySends
<1>6. CASE Disconnect
  <2>1. wire' \in {wire, <<>>} /\ asked' = {} /\ UNCHANGED <<inbox, told, jobs, purged>>
    BY <1>6 DEF Disconnect, memory, session, storage
  <2>2. \E n \in 0 .. Len(Line) : Line' = SubSeq(Line, 1, n)
    BY <1>1, <2>1, LineCut
  <2>3. Spent' = Spent
    BY <2>1 DEF Spent, HasJob
  <2>4. Shown' = Shown
    BY <2>1, <2>3, ShownIsTold, ShownIsToldNext
  <2>5. Steady!Leave
    BY <2>1, <2>2, <2>3, <2>4 DEF Steady!Leave, Shown
  <2>6. QED
    BY <2>5 DEF Steady!Next
<1>7. CASE Wake \/ Deliver
  <2>1. /\ wire # <<>> /\ wire' = Tail(wire) /\ inbox' = Append(inbox, Head(wire))
        /\ UNCHANGED <<asked, told, jobs, purged>>
    <3>1. CASE Deliver
      BY <3>1 DEF Deliver, storage
    <3>2. CASE Wake
      <4>1. inbox = <<>>
        BY <3>2 DEF Wake, Quiet
      <4>2. inbox' = Append(inbox, Head(wire))
        BY <3>2, <4>1 DEF Wake
      <4>3. QED
        BY <3>2, <4>2 DEF Wake, storage
    <3>3. QED
      BY <1>7, <3>1, <3>2
  <2>2. Line' = Line /\ (Spent' <=> Spent)
    BY <1>1, <2>1, LineMoved DEF Spent, HasJob
  <2>3. QED
    BY <2>1, <2>2, Stutters
<1>8. CASE Close
  <2>1. UNCHANGED <<wire, inbox, asked, told>> /\ jobs' = Append(jobs, [op |-> "purge"])
    BY <1>8 DEF Close
  <2>2. Spent'
    BY <1>1, <2>1, MoreJobs DEF Spent
  <2>3. Spent' = TRUE
    BY <2>2 DEF Spent, HasJob
  <2>4. Shown' = Nothing
    BY <2>2, ShownIsToldNext
  <2>5. Line' = Line /\ asked' = asked
    BY <2>1 DEF Line
  <2>6. Steady!End
    BY <2>3, <2>4, <2>5 DEF Steady!End, Shown, Nothing
  <2>7. QED
    BY <2>6 DEF Steady!Next
<1>9. CASE Refuse
  <2>1. /\ gate = "failed" /\ inbox # <<>> /\ inbox' = Tail(inbox)
        /\ UNCHANGED <<wire, phase, told, jobs, purged>>
        /\ asked' = asked \ {Head(inbox).m}
    BY <1>9 DEF Refuse, Error, storage
  <2>2. Line # <<>> /\ Line' = Tail(Line) /\ Head(Line) = Head(inbox)
    BY <1>1, <2>1, LineTaken
  <2>3. Spent' <=> Spent
    BY <2>1 DEF Spent, HasJob
  <2>4. CASE "loadFails" \in Env
    <3>1. Shown' = Shown
      BY <2>1, <2>3, ShownIsTold, ShownIsToldNext
    <3>2. Spent' = Spent
      BY <2>3 DEF Spent, HasJob
    <3>3. Steady!Refuse
      BY <2>1, <2>2, <2>4, <3>1, <3>2 DEF Steady!Refuse, Steady!TakeNext, Shown
    <3>4. QED
      BY <3>3 DEF Steady!Next
  <2>5. CASE "loadFails" \notin Env
    <3>1. Spent /\ asked = {}
      BY <2>1, <2>5 DEF Detached, InFlight, Here
    <3>2. asked' = asked /\ Shown' = Nothing
      BY <2>1, <2>3, <3>1, ShownIsToldNext
    <3>3. Steady!Take
      BY <2>2, <2>3, <3>1, <3>2, SteadyTakes
    <3>4. QED
      BY <3>3 DEF Steady!Next
  <2>6. QED
    BY <2>4, <2>5
<1>10. CASE HandleRequest \/ HandleInitialized \/ HandleInitialize
  <2>1. PICK m \in {"hover", "initialize", "initialized"} : Handle(Message(m))
    BY <1>10 DEF HandleRequest, HandleInitialized, HandleInitialize
  <2>2. /\ inbox # <<>> /\ Head(inbox).m = m /\ inbox' = Tail(inbox) /\ purged' = purged
    BY <1>1, <2>1 DEF Handle, storage, Request
  <2>3. UNCHANGED <<wire, asked, told>>
    <3>1. "not initialized" \notin odd'
      BY <1>3
    <3>2. QED
      BY <1>10, <3>1
      DEF HandleRequest, HandleInitialized, HandleInitialize, Receive, Throw, client
  <2>4. Spent' <=> Spent
    <3>1. jobs' = jobs \/ jobs' = Append(jobs, [op |-> "init"])
      BY <1>10 DEF HandleRequest, HandleInitialized, HandleInitialize
    <3>2. HasJob("purge")' <=> HasJob("purge")
      BY <1>1, <3>1, MoreJobs DEF HasJob
    <3>3. QED
      BY <2>2, <3>2 DEF Spent
  <2>5. Line # <<>> /\ Line' = Tail(Line) /\ Head(Line).m = m
    BY <1>1, <2>2, <2>3, LineTaken
  <2>6. Steady!Noted(Head(Line)) = Shown
    BY <2>5 DEF Steady!Noted, Shown
  <2>7. Shown' = IF Spent' THEN Nothing ELSE Steady!Noted(Head(Line))
    BY <2>3, <2>4, <2>6, ShownIsTold, ShownIsToldNext
  <2>8. Steady!Take
    BY <2>3, <2>4, <2>5, <2>7, SteadyTakes
  <2>9. QED
    BY <2>8 DEF Steady!Next
<1>11. CASE HandleShutdown
  <2>1. /\ inbox # <<>> /\ Head(inbox).m = "shutdown" /\ inbox' = Tail(inbox)
        /\ jobs' = Append(jobs, [op |-> "purge"]) /\ UNCHANGED <<wire, asked>>
    BY <1>1, <1>11 DEF HandleShutdown, Handle, Request, client
  <2>2. Spent'
    BY <1>1, <2>1, MoreJobs DEF Spent
  <2>3. Line # <<>> /\ Line' = Tail(Line) /\ Head(Line).m = "shutdown"
    BY <1>1, <2>1, LineTaken
  <2>4. Shown' = IF Spent' THEN Nothing ELSE Steady!Noted(Head(Line))
    BY <2>2, ShownIsToldNext
  <2>5. Steady!Take
    BY <2>1, <2>2, <2>3, <2>4, SteadyTakes
  <2>6. QED
    BY <2>5 DEF Steady!Next
<1>12. CASE HandleDocument
  <2>1. PICK f \in Range(inbox) :
          /\ "doc" \in DOMAIN f /\ Handle(f)
          /\ told' = (IF transport THEN After(told, f) ELSE told)
    BY <1>12 DEF HandleDocument
  <2>2. /\ inbox # <<>> /\ Head(inbox) = f /\ inbox' = Tail(inbox) /\ gate = "open"
        /\ UNCHANGED <<wire, asked, jobs, purged>>
    BY <1>12, <2>1 DEF HandleDocument, Handle, client, storage
  <2>3. f \in Frame /\ f.m \in {"didOpen", "didChange", "didClose"}
    BY <1>1, <2>1, <2>2, Queue, DocumentFrame DEF Queues
  <2>4. Line # <<>> /\ Line' = Tail(Line) /\ Head(Line) = f
    BY <1>1, <2>2, LineTaken
  <2>5. Spent' <=> Spent
    BY <2>2 DEF Spent, HasJob
  <2>6. ASSUME ~Spent PROVE told' = Steady!Noted(f)
    <3>1. transport
      BY <2>2, <2>6 DEF Sound, Connected
    <3>2. told = Shown
      BY <2>6, ShownIsTold
    <3>3. Steady!Noted(f) = IF f.m = "didOpen" \/ told[f.doc] # None
                              THEN [told EXCEPT ![f.doc] = IF f.m = "didClose" THEN None ELSE f.text]
                              ELSE told
      BY <2>3, <3>2 DEF Steady!Noted, Shown
    <3>4. told' = After(told, f)
      BY <2>1, <3>1
    <3>5. QED
      BY <3>3, <3>4 DEF After, Takes
  <2>7. Shown' = IF Spent' THEN Nothing ELSE Steady!Noted(Head(Line))
    BY <2>4, <2>5, <2>6, ShownIsToldNext
  <2>8. f.m # "shutdown"
    BY <2>3
  <2>9. Steady!Take
    BY <2>2, <2>4, <2>5, <2>7, <2>8, SteadyTakes
  <2>10. QED
    BY <2>9 DEF Steady!Next
<1>13. CASE Initialized
  <2>1. /\ server = "initializing" /\ UNCHANGED <<inbox, told, jobs, purged>>
        /\ IF transport THEN Reply("initialize") ELSE UNCHANGED client
    BY <1>13 DEF Initialized, session, storage
  <2>2. ~transport => ~Here
    BY <2>1 DEF Detached, Here
  <2>3. AtServer("initialize") /\ "initialize" \in Request
    BY <2>1 DEF AtServer, Request
  <2>4. Spent' <=> Spent
    BY <2>1 DEF Spent, HasJob
  <2>5. Reply("initialize") \/ (~Here /\ UNCHANGED client)
    BY <2>1, <2>2
  <2>6. inbox' = inbox /\ told' = told
    BY <2>1
  <2>7. QED
    BY <2>3, <2>4, <2>5, <2>6, SteadyAnswers
<1>14. ASSUME NEW m \in Request, Answer(m) PROVE [Steady!Next]_(Steady!svars)
  <2>1. /\ m \in working /\ UNCHANGED <<inbox, told, jobs, purged>>
        /\ IF transport THEN Reply(m) ELSE UNCHANGED client
    BY <1>14 DEF Answer, session, storage
  <2>2. ~transport => ~Here
    BY <1>1, <2>1 DEF Detached, Dormant, Blank, Words, Here
  <2>3. AtServer(m)
    BY <2>1 DEF AtServer
  <2>4. Spent' <=> Spent
    BY <2>1 DEF Spent, HasJob
  <2>5. Reply(m) \/ (~Here /\ UNCHANGED client)
    BY <2>1, <2>2
  <2>6. inbox' = inbox /\ told' = told
    BY <2>1
  <2>7. QED
    BY <2>3, <2>4, <2>5, <2>6, SteadyAnswers
<1>15. CASE Resume
  <2>1. UNCHANGED <<inbox, told, jobs, purged>> /\ IF transport THEN Receive(busy) ELSE Throw
    BY <1>15 DEF Resume, storage
  <2>2. UNCHANGED client
    <3>1. "not initialized" \notin odd'
      BY <1>3
    <3>2. QED
      BY <2>1, <3>1 DEF Receive, Throw
  <2>3. Spent' <=> Spent
    BY <2>1 DEF Spent, HasJob
  <2>4. UNCHANGED <<Line, asked, told>>
    BY <2>1, <2>2 DEF Line, client
  <2>5. QED
    BY <2>3, <2>4, Stutters
<1>16. CASE \/ Evict \/ HandshakeReplayed \/ RunJob \/ BeginUpdate \/ Parse \/ Link \/ Validate
            \/ Abandon \/ SettleTimeout \/ (\E m \in Request : AckTimeout(m)) \/ ReplayTimeout
            \/ UNCHANGED vars
  <2>1. UNCHANGED <<wire, inbox, asked, told>>
    BY <1>16
    DEF Evict, HandshakeReplayed, RunJob, BeginUpdate, Parse, Link, Validate, Abandon,
        SettleTimeout, AckTimeout, ReplayTimeout, Replay, vars, client, memory, session
  <2>2. Spent' <=> Spent
    <3>1. inbox' = inbox
      BY <2>1
    <3>2. HandleShutdown => FALSE
      BY <3>1, <1>1, Queue DEF HandleShutdown, Handle, Queues
    <3>3. Close => phase' # phase /\ phase = "gone"
      BY DEF Close
    <3>4. phase' = phase
      BY <1>16
      DEF Evict, HandshakeReplayed, RunJob, BeginUpdate, Parse, Link, Validate, Abandon,
          SettleTimeout, AckTimeout, ReplayTimeout, vars, client
    <3>5. QED
      BY <1>2, <3>2, <3>3, <3>4
  <2>3. UNCHANGED <<Line, asked, told>>
    BY <2>1 DEF Line
  <2>4. QED
    BY <2>2, <2>3, Stutters
<1>17. QED
  BY <1>4, <1>5, <1>6, <1>7, <1>8, <1>9, <1>10, <1>11, <1>12, <1>13, <1>14, <1>15, <1>16
  DEF Next, Client, Event, Handler, Builder, Server, Timeout

\* Everything sent, told and stored, in its place.
Whole == Sound /\ Detached /\ InFlight

LEMMA WholeInit ==
  ASSUME Init
  PROVE  Whole
<1>1. /\ phase = "new" /\ asked = {} /\ wire = <<>> /\ inbox = <<>> /\ gate = "none"
      /\ server = "created" /\ working = {} /\ busy = "no" /\ transport = FALSE
  BY DEF Init, Fresh
<1>2. Detached
  BY <1>1 DEF Detached
<1>3. \A m \in Request : ~AtServer(m)
  BY <1>1 DEF AtServer, Request
<1>4. Line = <<>>
  BY <1>1 DEF Line
<1>5. \A m \in Request : Single(Line, m) /\ ~Has(Line, m)
  BY <1>4 DEF Single, Has
<1>6. InFlight
  BY <1>1, <1>3, <1>5 DEF InFlight, Apart, Carried
<1>7. QED
  BY <1>2, <1>6, SoundInit DEF Whole

LEMMA WholeStep ==
  ASSUME DocsAreFinite, "slow" \notin Env, Whole, [Next]_vars
  PROVE  Whole'
<1>1. Sound /\ Detached /\ InFlight /\ Sound'
  BY SoundStep DEF Whole
<1>2. Words /\ Queues /\ Dormant /\ Calls /\ odd = {} /\ odd' = {}
  BY <1>1, TypeParts DEF Sound, CallInv, BuildInv
<1>3. Detached' /\ InFlight'
  BY <1>1, <1>2, DetachedStep, InFlightStep
<1>4. QED
  BY <1>1, <1>3 DEF Whole

(* A request the client waits for is always somewhere: on its way, at a      *)
(* handler that waits for storage, or at the server.  No hibernation, wake,  *)
(* replay, write or close drops it, provided the server answers and builds   *)
(* within RESPONSE_ACK_TIMEOUT_MS; whether it is then answered is left to    *)
(* the runs.                                                                 *)
THEOREM NoRequestIsForgotten ==
  ASSUME DocsAreFinite, "slow" \notin Env
  PROVE  Spec => []NoRequestForgotten
<1>1. Whole /\ [Next]_vars => Whole'
  BY WholeStep
<1>2. Whole => NoRequestForgotten
  <2>1. InFlight => (asked \subseteq Request => NoRequestForgotten)
    BY DEF InFlight, NoRequestForgotten
  <2>2. Sound => asked \subseteq Request
    BY TypeParts DEF Sound, CallInv, BuildInv, Words
  <2>3. QED
    BY <2>1, <2>2 DEF Whole
<1>3. QED
  BY WholeInit, <1>1, <1>2, PTL DEF Spec

(* The object is, to its client, a language server that never hibernates:    *)
(* it takes every frame once and in order, holds the documents they lead to, *)
(* answers each request once, and ends at shutdown or close.  Every          *)
(* hibernation, wake, replay, build and storage write is a step of it that   *)
(* changes nothing, provided the server answers and builds within            *)
(* RESPONSE_ACK_TIMEOUT_MS.                                                  *)
THEOREM ImplementsSteadyServer ==
  ASSUME DocsAreFinite, "slow" \notin Env
  PROVE  Spec => SteadyServerSpec
<1>1. Whole /\ [Next]_vars => Whole'
  BY WholeStep
<1>2. Init => Steady!Init
  <2>1. ASSUME Init PROVE Steady!Init
    <3>1. /\ wire = <<>> /\ inbox = <<>> /\ asked = {} /\ jobs = <<>> /\ purged = FALSE
          /\ store = Nothing /\ gate = "none"
      BY <2>1 DEF Init, Fresh
    <3>2. Line = <<>> /\ ~HasJob("purge")
      BY <3>1 DEF Line, HasJob
    <3>3. Spent = FALSE
      BY <3>1, <3>2 DEF Spent
    <3>4. Shown = Nothing
      BY <3>1, <3>3 DEF Shown, Awake
    <3>5. QED
      BY <3>1, <3>2, <3>3, <3>4 DEF Steady!Init, Shown, Nothing
  <2>2. QED
    BY <2>1
<1>3. Whole /\ Whole' /\ [Next]_vars => [Steady!Next]_(Steady!svars)
  BY SteadyStep DEF Whole
<1>4. QED
  BY WholeInit, <1>1, <1>2, <1>3, PTL DEF Spec, SteadyServerSpec, Steady!Spec
=============================================================================
