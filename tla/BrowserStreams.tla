--------------------------- MODULE BrowserStreams ---------------------------
(***************************************************************************)
(* The streams a plugin asks the browser for: NpapiStream with what it has *)
(* of BrowserStream, the BrowserStreamManager that keeps it, the NPP_      *)
(* functions of NpapiPlugin that report to it, and its observer, which is  *)
(* a SimpleStreamHelper or a handler of the plugin's own.                  *)
(*                                                                         *)
(* Everything is on the main thread, so each call of the browser's or of   *)
(* the plugin's is one step, with the calls back that it makes: close()    *)
(* calls NPN_DestroyStream, and the browser then calls NPP_DestroyStream   *)
(* before it returns.  A handler that closes its stream while it is opened *)
(* or gets data does what it would do in a step of its own afterwards.     *)
(***************************************************************************)
EXTENDS Naturals

CONSTANTS
  Streams,     \* the requests the plugin makes
  Length       \* how many pieces of data there are to a stream

ASSUME StreamsAssumption == Length \in Nat

VARIABLES
  stream,      \* each NpapiStream, its observer and what the browser has of it
  gone         \* has NPP_Destroy shut the host down?

vars == <<stream, gone>>

\* browser: "asked" until NPP_NewStream, then "streaming", then "done" or
\* "broken" when the browser has given the NPStream up; sent: pieces written.
\* seekable: asked for as such (the server agrees, or NPP_NewStream fails);
\* linked: getStream() # 0; self: m_selfReference; managed: retained by the
\* manager and observed by it.  kind: a SimpleStreamHelper, a handler of the
\* plugin's, or one whose onStreamCompleted returns true; helperSelf: the helper's
\* reference to itself; user: the plugin holds the handler; seen: the last
\* event it got; received and answer: the data of a helper, and what its
\* callback was called with; closed: has close() ended it while it was open, called
\* by the plugin or because NPP_URLNotify reported a failure?
Record ==
  [browser : {"idle", "refused", "asked", "streaming", "done", "broken"},
   sent : 0..Length, seekable : BOOLEAN,
   linked : BOOLEAN, opened : BOOLEAN, completed : BOOLEAN,
   destroyed : BOOLEAN, notified : BOOLEAN, self : BOOLEAN, managed : BOOLEAN,
   kind : {"helper", "handler", "taker"}, helperSelf : BOOLEAN, user : BOOLEAN,
   seen : {"nothing", "created", "opened", "data", "failed", "completed"},
   received : 0..Length, answer : {"none", "whole", "part", "failed"},
   closed : BOOLEAN]

TypeOK == stream \in [Streams -> Record] /\ gone \in BOOLEAN

Idle ==
  [browser |-> "idle", sent |-> 0, seekable |-> FALSE,
   linked |-> FALSE, opened |-> FALSE, completed |-> FALSE,
   destroyed |-> FALSE, notified |-> FALSE, self |-> FALSE, managed |-> FALSE,
   kind |-> "helper", helperSelf |-> FALSE, user |-> FALSE, seen |-> "nothing",
   received |-> 0, answer |-> "none", closed |-> FALSE]

Init == stream = [s \in Streams |-> Idle] /\ gone = FALSE

-----------------------------------------------------------------------------
(* References.                                                             *)

\* The browser took the request, and the handler was given the stream.
Taken(st) == st.browser \notin {"idle", "refused"}

HandlerAlive(st) == st.user \/ st.helperSelf

\* Is there still a pointer to the NpapiStream?
Alive(st) == st.self \/ st.managed \/ (Taken(st) /\ HandlerAlive(st))

\* NPP_URLNotify is to come.
Owes(st) == Taken(st) /\ ~st.notified

\* The browser can still call with the NpapiStream as its notifyData.
BrowserHolds(st) == st.browser \in {"asked", "streaming"} \/ Owes(st)

-----------------------------------------------------------------------------
(* Events.  SendEvent calls the observers in the order in which they were  *)
(* attached, the handler and then the manager, until one returns true.     *)

Tell(st, event) == IF HandlerAlive(st) THEN [st EXCEPT !.seen = event] ELSE st

\* SimpleStreamHelper::onStreamCompleted: what the callback is called with.
Answer(st, ok) ==
  IF st.kind # "helper" \/ st.answer # "none" THEN st.answer
  ELSE IF ~ok THEN "failed" ELSE IF st.received = Length THEN "whole" ELSE "part"

\* Mutant: the helper lets go of itself only when the request succeeded.
HandlerCompletesKept(st, ok) ==
  IF HandlerAlive(st)
    THEN [st EXCEPT !.seen = "completed", !.answer = Answer(st, ok), !.helperSelf = @ /\ ~ok]
    ELSE st

HandlerCompletes(st, ok) ==
  IF HandlerAlive(st)
    THEN [st EXCEPT !.seen = "completed", !.answer = Answer(st, ok), !.helperSelf = FALSE]
    ELSE st

SendCompleted(st, ok) ==
  LET told == HandlerCompletes(st, ok)
  IN IF HandlerAlive(st) /\ st.kind = "taker" THEN told ELSE [told EXCEPT !.managed = FALSE]

\* signalCompleted of a stream without an NPStream.
Complete(st, ok) ==
  IF (st.seekable /\ ok) \/ st.completed THEN st
  ELSE SendCompleted([st EXCEPT !.completed = TRUE], ok)

-----------------------------------------------------------------------------
(* The end of a stream.                                                    *)

\* Mutant: the reference is dropped without waiting for the other.
SetDestroyedOnly(st) == [st EXCEPT !.destroyed = TRUE, !.self = FALSE]

SetDestroyed(st) == [st EXCEPT !.destroyed = TRUE, !.self = @ /\ ~st.notified]

SetNotified(st) == [st EXCEPT !.notified = TRUE, !.self = @ /\ ~st.destroyed]

Ended(ok) == IF ok THEN "done" ELSE "broken"

\* Mutant: the reason is not looked at.
DestroyedWell(st, ok) ==
  LET unlinked == [st EXCEPT !.browser = Ended(ok), !.linked = FALSE]
  IN IF st.linked THEN SetDestroyed(Complete(unlinked, TRUE)) ELSE unlinked

\* NPP_DestroyStream; the browser then deletes the NPStream.
Destroyed(st, ok) ==
  LET unlinked == [st EXCEPT !.browser = Ended(ok), !.linked = FALSE]
  IN IF st.linked THEN SetDestroyed(Complete(unlinked, ok)) ELSE unlinked

\* NpapiStream::close; npn: are the browser's functions still there?
CloseStream(st, npn) ==
  IF ~st.linked THEN st
  ELSE LET told == IF st.opened THEN SendCompleted(st, TRUE) ELSE st
           shut == [told EXCEPT !.opened = FALSE]
       IN IF npn THEN Destroyed(shut, FALSE) ELSE [shut EXCEPT !.linked = FALSE]

SignalCompleted(st, ok) ==
  IF (st.seekable /\ ok) \/ st.completed THEN st
  ELSE SendCompleted(CloseStream([st EXCEPT !.completed = TRUE], TRUE), ok)

-----------------------------------------------------------------------------
(* What the plugin does.                                                   *)

Becomes(s, st) == stream' = [stream EXCEPT ![s] = st] /\ UNCHANGED gone

\* createStream of a SimpleStreamHelper, whose user may keep it or not, or of
\* a handler of the plugin's.
HelperRequest(kept) == [Idle EXCEPT !.helperSelf = TRUE, !.user = kept]

HandlerRequest(k, seek) == [Idle EXCEPT !.kind = k, !.user = TRUE, !.seekable = seek]

Requests ==
  {HelperRequest(kept) : kept \in BOOLEAN}
  \cup {HandlerRequest("handler", seek) : seek \in BOOLEAN}
  \cup {HandlerRequest("taker", seek) : seek \in BOOLEAN}

CreateStream(s) ==
  /\ ~gone /\ stream[s].browser = "idle"
  /\ \E r \in Requests :
       Becomes(s, [r EXCEPT !.browser = "asked", !.self = TRUE, !.managed = TRUE,
                            !.seen = "created"])

\* The browser turns the request down: the stream is destroyed at once, and
\* its handler hears of nothing but that.
CreateFails(s) ==
  /\ ~gone /\ stream[s].browser = "idle"
  /\ \E r \in Requests : Becomes(s, [r EXCEPT !.browser = "refused"])

\* The plugin closes a stream that its handler gave it.
ClosePlugin(s) ==
  /\ ~gone /\ stream[s].user /\ stream[s].linked
  /\ Becomes(s, [CloseStream(stream[s], TRUE) EXCEPT !.closed = TRUE])

DropHandler(s) ==
  /\ stream[s].user
  /\ Becomes(s, [stream[s] EXCEPT !.user = FALSE])

\* NPP_Destroy: NPNFuncs is zeroed, and the manager closes what it has left.
\* It is no observer any more: its weak pointers have expired.
Shutdown ==
  /\ ~gone /\ gone' = TRUE
  /\ stream' = [s \in Streams |->
       IF stream[s].managed
         THEN [CloseStream(stream[s], FALSE) EXCEPT !.managed = FALSE]
         ELSE stream[s]]

-----------------------------------------------------------------------------
(* What the browser does.                                                  *)

\* NPP_NewStream.  A seekable stream was asked for and the server has none:
\* the browser gives it up without NPP_DestroyStream.
OpenFails(st) ==
  [Tell(st, "failed") EXCEPT !.linked = FALSE, !.browser = "broken"]

\* Mutant: the stream is opened and its handler hears of it with the data.
OpenedUntold(st) == [st EXCEPT !.browser = "streaming", !.linked = TRUE, !.opened = TRUE]

Opened(st) ==
  LET linked == [st EXCEPT !.browser = "streaming", !.linked = TRUE]
  IN IF st.completed THEN linked ELSE Tell([linked EXCEPT !.opened = TRUE], "opened")

NewStream(s) ==
  /\ ~gone /\ stream[s].browser = "asked"
  /\ \/ Becomes(s, Opened(stream[s]))
     \/ stream[s].seekable /\ Becomes(s, OpenFails(stream[s]))

\* signalDataArrived, and what onStreamDataArrived adds up.
DataArrived(st) ==
  IF st.opened /\ HandlerAlive(st)
    THEN [st EXCEPT !.seen = "data", !.received = IF st.kind = "helper" THEN @ + 1 ELSE @]
    ELSE st

\* NPP_Write.
Write(s) ==
  /\ ~gone /\ stream[s].browser = "streaming" /\ stream[s].sent < Length
  /\ Becomes(s, DataArrived([stream[s] EXCEPT !.sent = @ + 1]))

\* NPP_DestroyStream, when all has been sent or something broke.
DestroyStream(s) ==
  /\ ~gone /\ stream[s].browser = "streaming"
  /\ \/ stream[s].sent = Length /\ Becomes(s, Destroyed(stream[s], TRUE))
     \/ Becomes(s, Destroyed(stream[s], FALSE))

\* Does the browser tell the outcome ok?  NPP_URLNotify comes before or after
\* NPP_DestroyStream, or without it instead of NPP_NewStream.  A stream still
\* open may be reported broken at any time, and completed when all of it has
\* been sent, or at any time when it is seekable.
Outcome(st, ok) ==
  \/ st.browser = "done" /\ ok
  \/ st.browser \in {"asked", "broken", "streaming"} /\ ~ok
  \/ st.browser = "streaming" /\ ok /\ (st.seekable \/ st.sent = Length)

\* Mutant: a request that was never opened is not completed.
NotifiedOnly(st, ok) ==
  LET ended == IF st.browser = "asked" THEN "broken" ELSE st.browser
  IN SetNotified([st EXCEPT !.browser = ended])

Notified(st, ok) ==
  LET ended == IF st.browser = "asked" THEN "broken" ELSE st.browser
  IN SetNotified(SignalCompleted([st EXCEPT !.browser = ended,
                                            !.closed = @ \/ (st.linked /\ ~ok)], ok))

\* NPP_URLNotify.
URLNotify(s) ==
  /\ ~gone /\ Owes(stream[s])
  /\ \E ok \in BOOLEAN : Outcome(stream[s], ok) /\ Becomes(s, Notified(stream[s], ok))

Browser(s) == NewStream(s) \/ Write(s) \/ DestroyStream(s) \/ URLNotify(s)

Next ==
  \/ Shutdown
  \/ \E s \in Streams :
       CreateStream(s) \/ CreateFails(s) \/ ClosePlugin(s) \/ DropHandler(s) \/ Browser(s)

Spec == Init /\ [][Next]_vars

\* The browser goes on with a request it took, unless that is to seek in.
BrowserGoesOn(s) == Browser(s) /\ ~stream[s].seekable

FairSpec == Spec /\ \A s \in Streams : WF_vars(BrowserGoesOn(s))

-----------------------------------------------------------------------------
(* Properties.                                                             *)

\* "so that the object can't be deleted out from under the browser"
\* (NpapiStream.cpp:148): while the browser can call with a pointer to it, the
\* stream is there, and the destructor of a stream never finds it linked.
BrowserHoldsLiveStream ==
  \A s \in Streams : BrowserHolds(stream[s]) \/ stream[s].linked => Alive(stream[s])

\* A helper whose stream NPP_DestroyStream ends, or NPP_URLNotify after it,
\* is told success only with the whole of the data.  The "full body" that
\* SimpleStreamHelper.h:95-97 expects of a success is missing where close()
\* ends an open stream, which says success whatever has come
\* (NpapiStream.cpp:61-64): the plugin closed it, the page was closed, or
\* NPP_URLNotify reported a failure first (NpapiStream.cpp:120).
SuccessIsWhole ==
  \A s \in Streams : stream[s].answer = "part" => stream[s].closed \/ gone

\* When the browser is done with a stream and it has been completed, nothing
\* keeps it but its handler, or one that took the event from the manager.
FinishedStreamsAreFreed ==
  \A s \in Streams :
    LET st == stream[s]
    IN st.destroyed /\ st.notified /\ st.completed
       => ~st.self /\ (st.managed => st.kind = "taker") /\ ~st.helperSelf

\* The observers of all streams see what StreamLife promises.
Life == INSTANCE StreamLife WITH
          seen <- [s \in Streams |-> stream[s].seen],
          answer <- [s \in Streams |-> stream[s].answer]

HandlerSeesLife == Life!Spec

\* A request through a SimpleStreamHelper that the browser took is answered,
\* whether or not it can be opened and whoever ends it, if the page stays.
TakenRequestsAreAnswered ==
  \A s \in Streams :
    (stream[s].kind = "helper" /\ stream[s].browser = "asked") ~> (stream[s].answer # "none" \/ gone)

-----------------------------------------------------------------------------
(* The inductive invariant, stream by stream.                              *)

\* The stream's reference to itself is what NPP_DestroyStream and
\* NPP_URLNotify, together, take away.
SelfUntilBoth(st) ==
  /\ st.self <=> Taken(st) /\ ~(st.destroyed /\ st.notified)
  /\ st.destroyed => st.browser \in {"done", "broken"}
  /\ ~Taken(st) => ~st.managed /\ st.seen = "nothing" /\ st.answer = "none"

\* An open stream has its NPStream until the host is shut down, and is not
\* completed before it has lost it.
LinkedWhileStreaming(st, shut) ==
  /\ st.linked <=> st.browser = "streaming" /\ ~shut
  /\ st.linked => st.opened /\ st.managed /\ ~st.completed
  /\ st.browser = "asked" => ~st.completed /\ (~shut => st.managed)
  /\ shut => ~st.managed

\* A helper keeps itself, and counts what was sent, until it has answered.
HelperWaits(st, shut) ==
  /\ st.kind = "helper" /\ Taken(st) => ~st.seekable /\ (st.answer = "none" <=> st.helperSelf)
  /\ st.kind # "helper" => ~st.helperSelf /\ st.answer = "none"
  /\ st.kind = "helper" /\ (st.linked \/ (st.browser = "asked" /\ ~shut)) =>
       st.helperSelf /\ st.received = st.sent
  /\ st.kind = "helper" /\ ~shut /\ st.helperSelf => st.browser # "done" /\ ~st.completed
  /\ st.answer = "part" => st.closed \/ shut

\* What a handler that is still there has seen last.
SeenInOrder(st) ==
  /\ Taken(st) => st.seen # "nothing"
  /\ HandlerAlive(st) /\ st.browser = "asked" => st.seen = "created"
  /\ HandlerAlive(st) /\ st.linked => st.seen \in {"opened", "data"}
  /\ st.answer # "none" => st.seen = "completed"

\* A stream that is completed lets go of the manager and of the helper.
CompletedLetsGo(st) ==
  st.completed /\ st.destroyed => (st.managed => st.kind = "taker") /\ ~st.helperSelf

StreamOK(st, shut) ==
  /\ SelfUntilBoth(st) /\ LinkedWhileStreaming(st, shut) /\ HelperWaits(st, shut)
  /\ SeenInOrder(st) /\ CompletedLetsGo(st)

IInv == TypeOK /\ \A s \in Streams : StreamOK(stream[s], gone)

=============================================================================
