---------------------------- MODULE LspSession ----------------------------
(***************************************************************************)
(* One connection of the studio to the language server in the cloud:       *)
(*   apps/lsp-worker/src/session.ts, the Durable Object RuneLspSession,    *)
(*   with the server it hosts (packages/lsp-server/src).                   *)
(*                                                                         *)
(* The object lives in two halves.  Storage survives hibernation; the      *)
(* Langium server, every queue and every promise do not.  The runtime may  *)
(* drop the memory whenever no event is outstanding, and the next frame    *)
(* builds a new server and replays the handshake and the documents.        *)
(*                                                                         *)
(* Each connection has an object of its own (a fresh nonce, index.ts), so  *)
(* the model is one object from its upgrade to its purge.  A frame is one  *)
(* JSON-RPC message; a client has one request of each method in flight,    *)
(* so the method is its id.  A change carries the text it leads to.        *)
(***************************************************************************)
EXTENDS Sequences, SequencesExt

CONSTANTS
  Doc,       \* documents the client opens
  Text,      \* what they can contain
  None,      \* not open, not stored, not indexed
  Unparsed,  \* known to the index, its text not yet parsed
  MaxBehind, \* bound: frames sent whose effect the server has yet to see
  Env        \* what else may happen, see Freedom

\* "loadFails": createRuneLspServer throws; "slow": an answer or a build may
\* take longer than RESPONSE_ACK_TIMEOUT_MS.
Freedom == {"loadFails", "slow"}

ASSUME EnvIsKnown == Env \subseteq Freedom
ASSUME SomeRoom == MaxBehind \in Nat \ {0}
ASSUME MarksAreDistinct == None # Unparsed /\ None \notin Text /\ Unparsed \notin Text

VARIABLES
  phase,     \* how far the client is
  editor,    \* its open documents
  wire,      \* frames it has sent, not yet delivered
  asked,     \* its requests without an answer
  odd,       \* replies it should never have had
  store,     \* docs:* in storage
  init,      \* meta:initializeParams is in storage
  meta,      \* meta is in storage
  jobs,      \* blockConcurrencyWhile: what holds the input gate, in order
  purged,    \* a purge has run
  told,      \* the documents according to the frames handed to a server
  gate,      \* ensureLangiumPromise: none, replay, linking, open, failed
  inbox,     \* frames whose handlers wait for it
  busy,      \* the request whose handler waits for storage, or "no"
  transport, \* this.transport is set
  closed,    \* this.closed
  server,    \* LSPServer: created, replaying, initializing, ready
  text,      \* TextDocuments
  index,     \* LangiumDocuments
  stale,     \* indexed documents not yet Validated
  updates,   \* updates queued on the workspace lock
  build,     \* the running build: idle, started, parsed, linked
  working,   \* requests the server is answering
  acks,      \* waitForResponse, registered with waitUntil
  settle     \* waitForDocumentUpdateSettle, likewise: their updateStarted

client == <<phase, editor, wire, asked, odd>>
storage == <<store, init, meta, purged>>
builder == <<index, stale, updates, build>>
promises == <<working, acks, settle>>
session == <<gate, inbox, busy, transport, closed>>
memory == <<session, server, text, builder, promises>>
vars == <<client, storage, jobs, told, memory>>

Nothing == [d \in Doc |-> None]
Open(docs) == {d \in Doc : docs[d] # None}
Docs == [Doc -> Text \cup {None}]

Request == {"initialize", "hover", "shutdown"}
Message(m) == [m |-> m]
DidOpen(d, t) == [m |-> "didOpen", doc |-> d, text |-> t]
DidChange(d, t) == [m |-> "didChange", doc |-> d, text |-> t]
DidClose(d) == [m |-> "didClose", doc |-> d]
Frame == {Message(m) : m \in Request \cup {"initialized"}}
           \cup [m : {"didOpen", "didChange"}, doc : Doc, text : Text]
           \cup [m : {"didClose"}, doc : Doc]

Put(batch) == [op |-> "put", batch |-> batch]
Delete(d) == [op |-> "delete", doc |-> d]
Job == {[op |-> "init"], [op |-> "purge"]}
         \cup [op : {"put"}, batch : UNION {[D -> Text] : D \in SUBSET Doc}]
         \cup [op : {"delete"}, doc : Doc]

TypeOK ==
  /\ phase \in {"new", "starting", "running", "stopping", "gone", "reported"}
  /\ editor \in Docs
  /\ wire \in Seq(Frame)
  /\ asked \subseteq Request
  /\ odd \subseteq {"replayed handshake", "not initialized"}
  /\ store \in Docs
  /\ init \in BOOLEAN /\ meta \in BOOLEAN /\ purged \in BOOLEAN
  /\ jobs \in Seq(Job)
  /\ told \in Docs
  /\ gate \in {"none", "replay", "linking", "open", "failed"}
  /\ inbox \in Seq(Frame)
  /\ busy \in {"no", "initialize", "shutdown"}
  /\ transport \in BOOLEAN /\ closed \in BOOLEAN
  /\ server \in {"created", "replaying", "initializing", "ready"}
  /\ text \in Docs
  /\ index \in [Doc -> Text \cup {None, Unparsed}]
  /\ stale \subseteq Doc
  /\ updates \in Seq([kind : {"changed", "deleted"}, doc : Doc])
  /\ build \in {"idle", "started", "parsed", "linked"}
  /\ working \subseteq Request /\ acks \subseteq Request
  /\ settle \subseteq BOOLEAN

------------------------------------------------------------------------------
(* Memory *)

\* The fields as the constructor leaves them.
Fresh ==
  /\ gate = "none" /\ inbox = <<>> /\ busy = "no"
  /\ transport = FALSE /\ closed = FALSE
  /\ server = "created" /\ text = Nothing
  /\ index = Nothing /\ stale = {} /\ updates = <<>> /\ build = "idle"
  /\ working = {} /\ acks = {} /\ settle = {}

\* The upgrade has been answered: fetch has accepted the socket and written meta.
Init ==
  /\ phase = "new" /\ editor = Nothing /\ wire = <<>> /\ asked = {} /\ odd = {}
  /\ store = Nothing /\ init = FALSE /\ meta = TRUE /\ purged = FALSE
  /\ jobs = <<>> /\ told = Nothing
  /\ Fresh

\* The runtime drops the memory: every promise of every event has settled.
Evict ==
  /\ gate \in {"open", "failed"} \/ (gate = "none" /\ closed)
  /\ inbox = <<>> /\ busy = "no" /\ jobs = <<>>
  /\ acks = {} /\ settle = {}
  /\ gate' = "none" /\ transport' = FALSE /\ closed' = FALSE
  /\ server' = "created" /\ text' = Nothing
  /\ index' = Nothing /\ stale' = {} /\ updates' = <<>> /\ build' = "idle"
  /\ working' = {}
  /\ UNCHANGED <<client, storage, jobs, told, inbox, busy, acks, settle>>

------------------------------------------------------------------------------
(* The client *)

Send(f) ==
  /\ Len(wire) + Len(inbox) + Len(updates) < MaxBehind
  /\ wire' = Append(wire, f)
SendRequest(m) == m \notin asked /\ Send(Message(m)) /\ asked' = asked \cup {m}

Initialize ==
  /\ phase = "new" /\ phase' = "starting"
  /\ SendRequest("initialize")
  /\ UNCHANGED <<editor, odd, storage, jobs, told, memory>>

Edit ==
  /\ phase = "running"
  /\ \E d \in Doc :
       \/ /\ editor[d] = None
          /\ \E t \in Text : Send(DidOpen(d, t)) /\ editor' = [editor EXCEPT ![d] = t]
       \/ /\ editor[d] # None
          /\ \E t \in Text \ {editor[d]} :
               Send(DidChange(d, t)) /\ editor' = [editor EXCEPT ![d] = t]
       \/ /\ editor[d] # None
          /\ Send(DidClose(d)) /\ editor' = [editor EXCEPT ![d] = None]
  /\ UNCHANGED <<phase, asked, odd, storage, jobs, told, memory>>

Hover ==
  /\ phase = "running"
  /\ SendRequest("hover")
  /\ UNCHANGED <<phase, editor, odd, storage, jobs, told, memory>>

Shutdown ==
  /\ phase = "running" /\ phase' = "stopping"
  /\ SendRequest("shutdown")
  /\ UNCHANGED <<editor, odd, storage, jobs, told, memory>>

\* The tab shuts, crashes or loses the network; frames under way may be lost.
Disconnect ==
  /\ phase \notin {"gone", "reported"} /\ phase' = "gone"
  /\ wire' \in {wire, <<>>}
  /\ asked' = {} /\ editor' = Nothing
  /\ UNCHANGED <<odd, storage, jobs, told, memory>>

\* A reply reaches the client, if it is still there; the result of its
\* initialize lets it go on with initialized.
Reply(m) ==
  /\ asked' = asked \ {m}
  /\ IF m = "initialize" /\ phase = "starting"
       THEN phase' = "running" /\ wire' = Append(wire, Message("initialized"))
       ELSE UNCHANGED <<phase, wire>>
  /\ UNCHANGED <<editor, odd>>
Error(m) == asked' = asked \ {m} /\ UNCHANGED <<phase, editor, wire>>

------------------------------------------------------------------------------
(* Events of the runtime: a frame, the close of the socket.  None is       *)
(* delivered while storage is busy or a handler can still run.             *)

Quiet == jobs = <<>> /\ busy = "no" /\ (inbox = <<>> \/ gate \in {"replay", "linking"})

\* The first frame of an instance: ensureLangium, up to its first await.
Wake ==
  /\ Quiet /\ gate = "none" /\ wire # <<>>
  /\ wire' = Tail(wire) /\ inbox' = <<Head(wire)>>
  /\ \/ /\ "loadFails" \in Env
        /\ gate' = "failed"
        /\ UNCHANGED <<transport, server>>
     \/ /\ transport' = TRUE
        /\ IF init THEN gate' = "replay" /\ server' = "replaying"
                   ELSE gate' = "open" /\ UNCHANGED server
  /\ UNCHANGED <<phase, editor, asked, odd, storage, jobs, told, busy, closed,
                 text, builder, promises>>

Deliver ==
  /\ Quiet /\ gate # "none" /\ wire # <<>>
  /\ wire' = Tail(wire) /\ inbox' = Append(inbox, Head(wire))
  /\ UNCHANGED <<phase, editor, asked, odd, storage, jobs, told, gate, busy,
                 transport, closed, server, text, builder, promises>>

\* Slip: a close without a shutdown request purges nothing.
CloseQuietly ==
  /\ Quiet /\ phase = "gone" /\ wire = <<>>
  /\ phase' = "reported"
  /\ transport' = FALSE /\ closed' = TRUE
  /\ UNCHANGED <<editor, wire, asked, odd, storage, jobs, told, gate, inbox, busy,
                 server, text, builder, promises>>

\* webSocketClose.
Close ==
  /\ Quiet /\ phase = "gone" /\ wire = <<>>
  /\ phase' = "reported"
  /\ transport' = FALSE /\ closed' = TRUE
  /\ jobs' = Append(jobs, [op |-> "purge"])
  /\ UNCHANGED <<editor, wire, asked, odd, storage, told, gate, inbox, busy,
                 server, text, builder, promises>>

\* The head of the blockConcurrencyWhile queue runs.  A put reads the text of
\* a document when it writes it, which may be newer than the one parsed.
RunJob ==
  /\ jobs # <<>>
  /\ jobs' = Tail(jobs)
  /\ LET job == Head(jobs) IN
       CASE job.op = "put" ->
              /\ store' = [d \in Doc |-> IF d \notin DOMAIN job.batch THEN store[d]
                                         ELSE IF text[d] # None THEN text[d]
                                         ELSE job.batch[d]]
              /\ UNCHANGED <<init, meta, purged>>
         [] job.op = "delete" ->
              /\ store' = [store EXCEPT ![job.doc] = None]
              /\ UNCHANGED <<init, meta, purged>>
         [] job.op = "init" -> init' = TRUE /\ UNCHANGED <<store, meta, purged>>
         [] job.op = "purge" ->
              store' = Nothing /\ init' = FALSE /\ meta' = FALSE /\ purged' = TRUE
  /\ UNCHANGED <<client, told, memory>>

------------------------------------------------------------------------------
(* Cold wake *)

\* Slip: the replay does not wait for the build it starts.
ReplayAndGo ==
  /\ gate' = "open"
  /\ text' = store
  /\ LET docs == SetToSeq(Open(store))
     IN updates' = [i \in DOMAIN docs |-> [kind |-> "changed", doc |-> docs[i]]]
  /\ UNCHANGED <<inbox, busy, transport, closed, index, stale, build, promises>>

\* replayIfColdWake after the acknowledgement: initialized, then a didOpen
\* for each stored document.
Replay ==
  /\ gate' = IF Open(store) = {} THEN "open" ELSE "linking"
  /\ text' = store
  /\ LET docs == SetToSeq(Open(store))
     IN updates' = [i \in DOMAIN docs |-> [kind |-> "changed", doc |-> docs[i]]]
  /\ UNCHANGED <<inbox, busy, transport, closed, index, stale, build, promises>>

\* Slip: the reply to the replayed initialize is forwarded like any other.
HandshakeForwarded ==
  /\ server = "replaying" /\ server' = "ready"
  /\ IF transport /\ gate = "replay"
       THEN Replay
       ELSE UNCHANGED <<session, text, builder, promises>>
  /\ odd' = IF transport /\ phase # "gone" THEN odd \cup {"replayed handshake"} ELSE odd
  /\ UNCHANGED <<phase, editor, wire, asked, storage, jobs, told>>

\* The server has answered the replayed initialize.  The reply is kept from the
\* client as long as the replay waits for it.
HandshakeReplayed ==
  /\ server = "replaying" /\ server' = "ready"
  /\ IF transport /\ gate = "replay"
       THEN Replay
       ELSE UNCHANGED <<session, text, builder, promises>>
  /\ odd' = IF transport /\ gate # "replay" /\ phase # "gone"
              THEN odd \cup {"replayed handshake"} ELSE odd
  /\ UNCHANGED <<phase, editor, wire, asked, storage, jobs, told>>

\* The wait gives up and goes on as if answered; if the socket has been closed
\* meanwhile there is no transport left and ensureLangium fails.
ReplayTimeout ==
  /\ gate = "replay"
  /\ IF transport
       THEN "slow" \in Env /\ Replay
       ELSE /\ gate' = "failed"
            /\ UNCHANGED <<inbox, busy, transport, closed, text, builder, promises>>
  /\ UNCHANGED <<client, storage, jobs, told, server>>

------------------------------------------------------------------------------
(* Handlers: webSocketMessage after the gate, in the order of arrival *)

Handle(f) ==
  /\ gate = "open" /\ busy = "no"
  /\ inbox # <<>> /\ Head(inbox) = f
  /\ inbox' = Tail(inbox)
  /\ UNCHANGED <<gate, storage>>

\* Slip: the error names no request (id: null).
RefuseAnonymously ==
  /\ gate = "failed" /\ inbox # <<>>
  /\ inbox' = Tail(inbox)
  /\ UNCHANGED <<client, storage, jobs, told, gate, busy, transport, closed, server,
                 text, builder, promises>>

\* Langium could not be loaded: a request gets that as its error.
Refuse ==
  /\ gate = "failed" /\ inbox # <<>>
  /\ inbox' = Tail(inbox)
  /\ Error(Head(inbox).m)
  /\ UNCHANGED <<odd, storage, jobs, told, gate, busy, transport, closed, server,
                 text, builder, promises>>

\* transport.receive of a request, and the waitUntil that follows it.
Receive(m) ==
  IF m = "initialize" \/ server = "ready"
    THEN /\ IF m = "initialize"
              THEN server' = "initializing" /\ UNCHANGED working
              ELSE working' = working \cup {m} /\ UNCHANGED server
         /\ acks' = acks \cup {m}
         /\ UNCHANGED client
    ELSE /\ Error(m)
         /\ odd' = odd \cup {"not initialized"}
         /\ UNCHANGED <<server, working, acks>>

\* this.transport! is null: the handler throws.
Throw == UNCHANGED <<client, server, working, acks>>

HandleRequest ==
  /\ Handle(Message("hover"))
  /\ IF transport THEN Receive("hover") ELSE Throw
  /\ UNCHANGED <<jobs, told, busy, transport, closed, text, builder, settle>>

HandleInitialized ==
  /\ Handle(Message("initialized"))
  /\ UNCHANGED <<client, jobs, told, busy, transport, closed, server, text,
                 builder, promises>>

\* initialize first stores its params, shutdown first purges the storage.
HandleInitialize ==
  /\ Handle(Message("initialize"))
  /\ busy' = "initialize"
  /\ jobs' = Append(jobs, [op |-> "init"])
  /\ UNCHANGED <<client, told, transport, closed, server, text, builder, promises>>

HandleShutdown ==
  /\ Handle(Message("shutdown"))
  /\ busy' = "shutdown"
  /\ closed' = TRUE
  /\ jobs' = Append(jobs, [op |-> "purge"])
  /\ UNCHANGED <<client, told, transport, server, text, builder, promises>>

Resume ==
  /\ busy # "no" /\ busy' = "no"
  /\ \A i \in DOMAIN jobs : jobs[i].op \notin {"init", "purge"}
  /\ IF transport THEN Receive(busy) ELSE Throw
  /\ UNCHANGED <<storage, jobs, told, gate, inbox, transport, closed, text,
                 builder, settle>>

\* TextDocuments: a document nobody opened cannot be changed or closed.
Takes(docs, f) == f.m = "didOpen" \/ docs[f.doc] # None
After(docs, f) ==
  IF ~Takes(docs, f) THEN docs
  ELSE [docs EXCEPT ![f.doc] = IF f.m = "didClose" THEN None ELSE f.text]
Update(f) == [kind |-> IF f.m = "didClose" THEN "deleted" ELSE "changed", doc |-> f.doc]

HandleDocument ==
  \E f \in {g \in Range(inbox) : "doc" \in DOMAIN g} :
    /\ Handle(f)
    /\ IF transport
         THEN /\ told' = After(told, f)
              /\ text' = After(text, f)
              /\ updates' = IF Takes(text, f) THEN Append(updates, Update(f)) ELSE updates
              /\ settle' = settle \cup {FALSE}
         ELSE UNCHANGED <<told, text, updates, settle>>
    /\ UNCHANGED <<client, jobs, busy, transport, closed, server, index,
                   stale, build, working, acks>>

------------------------------------------------------------------------------
(* The server: DocumentBuilder under the workspace lock, and answers *)

\* An update applies its change, fires onUpdate and then builds, unless the
\* next update has already cancelled it.
BeginUpdate ==
  /\ build = "idle" /\ updates # <<>>
  /\ updates' = Tail(updates)
  /\ build' = IF Tail(updates) = <<>> THEN "started" ELSE "idle"
  /\ LET u == Head(updates) IN
       IF u.kind = "changed"
         THEN /\ index' = [index EXCEPT ![u.doc] = Unparsed]
              /\ stale' = stale \cup {u.doc}
              /\ UNCHANGED jobs
         ELSE /\ index' = [index EXCEPT ![u.doc] = None]
              /\ stale' = stale \ {u.doc}
              /\ jobs' = IF index[u.doc] # None /\ ~closed
                           THEN Append(jobs, Delete(u.doc)) ELSE jobs
  /\ settle' = {TRUE : w \in settle}
  /\ UNCHANGED <<client, storage, told, session, server, text, working, acks>>

\* Slip: a build the next update has cancelled still parses.
ParseCancelled ==
  /\ build = "started" /\ build' = "parsed"
  /\ LET batch == [d \in {e \in Doc : index[e] = Unparsed} |-> text[d]] IN
       /\ index' = [d \in Doc |-> IF d \in DOMAIN batch THEN batch[d] ELSE index[d]]
       /\ jobs' = IF DOMAIN batch # {} /\ ~closed THEN Append(jobs, Put(batch)) ELSE jobs
  /\ UNCHANGED <<client, storage, told, session, server, text, stale, updates, promises>>

\* Slip: the storage mirror does not look whether the session is closed.
ParseClosed ==
  /\ build = "started" /\ build' = "parsed"
  /\ updates = <<>>
  /\ LET batch == [d \in {e \in Doc : index[e] = Unparsed} |-> text[d]] IN
       /\ index' = [d \in Doc |-> IF d \in DOMAIN batch THEN batch[d] ELSE index[d]]
       /\ jobs' = IF DOMAIN batch # {} THEN Append(jobs, Put(batch)) ELSE jobs
  /\ UNCHANGED <<client, storage, told, session, server, text, stale, updates, promises>>

\* onBuildPhase(Parsed), the storage mirror.
Parse ==
  /\ build = "started" /\ build' = "parsed"
  /\ updates = <<>>
  /\ LET batch == [d \in {e \in Doc : index[e] = Unparsed} |-> text[d]] IN
       /\ index' = [d \in Doc |-> IF d \in DOMAIN batch THEN batch[d] ELSE index[d]]
       /\ jobs' = IF DOMAIN batch # {} /\ ~closed THEN Append(jobs, Put(batch)) ELSE jobs
  /\ UNCHANGED <<client, storage, told, session, server, text, stale, updates, promises>>

\* onBuildPhase(Linked), which an empty batch does not fire.
Link ==
  /\ build = "parsed" /\ build' = "linked"
  /\ gate' = IF gate = "linking" /\ stale # {} THEN "open" ELSE gate
  /\ UNCHANGED <<client, storage, jobs, told, inbox, busy, transport, closed,
                 server, text, index, stale, updates, promises>>

\* Slip: a waiter takes any Validated for its own, as waitUntil(Validated) would.
ValidateForAll ==
  /\ build = "linked" /\ build' = "idle"
  /\ stale' = {}
  /\ settle' = IF stale # {} THEN {} ELSE settle
  /\ UNCHANGED <<client, storage, jobs, told, session, server, text, index,
                 updates, working, acks>>

\* onBuildPhase(Validated), likewise.
Validate ==
  /\ build = "linked" /\ build' = "idle"
  /\ stale' = {}
  /\ settle' = IF stale # {} THEN settle \ {TRUE} ELSE settle
  /\ UNCHANGED <<client, storage, jobs, told, session, server, text, index,
                 updates, working, acks>>

\* A newer update has cancelled the running build.
Abandon ==
  /\ build # "idle" /\ updates # <<>>
  /\ build' = "idle"
  /\ UNCHANGED <<client, storage, jobs, told, session, server, text, index,
                 stale, updates, promises>>

Initialized ==
  /\ server = "initializing" /\ server' = "ready"
  /\ IF transport THEN Reply("initialize") /\ acks' = acks \ {"initialize"}
                  ELSE UNCHANGED <<client, acks>>
  /\ UNCHANGED <<storage, jobs, told, session, text, builder, working, settle>>

Answer(m) ==
  /\ m \in working /\ working' = working \ {m}
  /\ IF transport THEN Reply(m) /\ acks' = acks \ {m} ELSE UNCHANGED <<client, acks>>
  /\ UNCHANGED <<storage, jobs, told, session, server, text, builder, settle>>

\* The safety nets under the promises of waitUntil: RESPONSE_ACK_TIMEOUT_MS
\* runs out on a reply or a Validated that will not come, or comes too late.
AckTimeout(m) ==
  /\ m \in acks /\ acks' = acks \ {m}
  /\ transport => "slow" \in Env
  /\ UNCHANGED <<client, storage, jobs, told, session, server, text, builder,
                 working, settle>>

SettleTimeout ==
  /\ settle # {} /\ settle' = {}
  /\ updates # <<>> \/ build # "idle" => "slow" \in Env
  /\ UNCHANGED <<client, storage, jobs, told, session, server, text, builder,
                 working, acks>>

------------------------------------------------------------------------------

Client == Initialize \/ Edit \/ Hover \/ Shutdown \/ Disconnect
Event == Wake \/ Deliver \/ Close
Handler == \/ Refuse \/ HandleRequest \/ HandleInitialized \/ HandleInitialize
           \/ HandleShutdown \/ HandleDocument \/ Resume
Builder == BeginUpdate \/ Parse \/ Link \/ Validate \/ Abandon
Server == HandshakeReplayed \/ Initialized \/ \E m \in Request : Answer(m)
Timeout == ReplayTimeout \/ SettleTimeout \/ \E m \in Request : AckTimeout(m)

Next == Client \/ Evict \/ Event \/ RunJob \/ Handler \/ Builder \/ Server \/ Timeout

Spec == Init /\ [][Next]_vars

\* The client owes nothing and the runtime need not hibernate; everything
\* else is code that runs when it can, or a timer.
FairSpec ==
  /\ Spec
  /\ WF_vars(Event) /\ WF_vars(RunJob) /\ WF_vars(Handler)
  /\ WF_vars(Builder) /\ WF_vars(Server) /\ WF_vars(Timeout)

------------------------------------------------------------------------------
(* Properties *)

\* What is on its way, to the handlers first.
Line == inbox \o wire

Awake == gate \in {"linking", "open"}
HasJob(o) == \E i \in DOMAIN jobs : jobs[i].op = o
Spent == purged \/ HasJob("purge")

\* Seen from the studio the object is a server that never hibernates: the
\* documents in memory while there is a server are those in storage while
\* there is none, and frames wait in line wherever they are.  Hibernating,
\* waking, replaying, building and writing change nothing.
Steady == INSTANCE SteadyServer WITH
  line <- Line,
  docs <- IF Spent THEN Nothing ELSE IF Awake THEN text ELSE store,
  over <- Spent,
  Fails <- "loadFails" \in Env
SteadyServerSpec == Steady!Spec

\* Where a request is that the client has no answer to: under way, at a
\* handler that waits for storage, or at the server.
Has(q, m) == \E i \in DOMAIN q : q[i].m = m
AtServer(m) == \/ busy = m \/ m \in working
               \/ m = "initialize" /\ server = "initializing"
Carried(m) == Has(Line, m) \/ AtServer(m)

\* No request is forgotten, whatever memory is dropped and rebuilt before the
\* client has its answer (waitForResponse under waitUntil).
NoRequestForgotten == \A m \in asked : Carried(m)

\* What the client has told the server, the server it reaches has: hibernation
\* loses no edit, however it falls between edits, builds and storage writes
\* (storage mirror, waitUntil, replayIfColdWake).
ServerHasEveryEdit == gate = "open" /\ transport => text = told

\* The client cannot tell that its server was rebuilt: it gets no answer to
\* the replayed handshake and no request of its own is turned away.
WakeIsInvisible == odd = {}

\* A request that woke the object is not served before the replayed documents
\* are parsed and linked (replayIfColdWake, its last await).
BuiltBeforeAsked ==
  [][(gate \in {"replay", "linking"} /\ gate' = "open") => index' = text']_vars

\* Once purged, by shutdown or by the close of the socket, storage stays
\* empty, whatever builds and writes were under way.
NothingLeftBehind == purged => store = Nothing /\ ~init /\ ~meta

\* Every request of a client that stays is answered, with a result or an error.
EveryRequestAnswered == \A m \in Request : m \in asked ~> m \notin asked

\* A client that goes, however it goes, leaves nothing in storage.
GoneIsPurged == phase = "gone" ~> [](store = Nothing /\ ~init /\ ~meta)
=============================================================================
