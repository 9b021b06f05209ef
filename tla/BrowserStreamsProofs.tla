------------------------ MODULE BrowserStreamsProofs ------------------------
(***************************************************************************)
(* Proofs about BrowserStreams.  Streams do not share state, so what keeps *)
(* the invariant is said of the operators on one stream; the steps of the  *)
(* specification apply one of them to one stream, or to all.               *)
(***************************************************************************)
EXTENDS BrowserStreams, TLAPS

\* What the sending of a completion, and all that ends a stream, leaves alone.
Same(r, st) ==
  /\ r.sent = st.sent /\ r.seekable = st.seekable /\ r.kind = st.kind
  /\ r.user = st.user /\ r.received = st.received /\ r.closed = st.closed

\* What an event of completion does to handler and manager.
CompletionTold(r, st, ok) ==
  /\ HandlerAlive(st) =>
       r.seen = "completed" /\ ~r.helperSelf /\ r.answer = Answer(st, ok)
  /\ ~HandlerAlive(st) =>
       r.seen = st.seen /\ r.helperSelf = st.helperSelf /\ r.answer = st.answer
  /\ r.managed <=> st.managed /\ HandlerAlive(st) /\ st.kind = "taker"

LEMMA AnswerType ==
  ASSUME NEW st \in Record, NEW ok \in BOOLEAN
  PROVE  Answer(st, ok) \in {"none", "whole", "part", "failed"}
  BY DEF Answer, Record

\* An event of completion reaches the handler that is there, then the manager.
LEMMA SendCompletedFacts ==
  ASSUME NEW st \in Record, NEW ok \in BOOLEAN, NEW r, r = SendCompleted(st, ok)
  PROVE  /\ r \in Record /\ Same(r, st) /\ CompletionTold(r, st, ok)
         /\ r.browser = st.browser /\ r.linked = st.linked /\ r.opened = st.opened
         /\ r.completed = st.completed /\ r.destroyed = st.destroyed
         /\ r.notified = st.notified /\ r.self = st.self
<1> DEFINE told == HandlerCompletes(st, ok)
<1>1. CASE HandlerAlive(st)
  <2>1. told = [st EXCEPT !.seen = "completed", !.answer = Answer(st, ok), !.helperSelf = FALSE]
    BY <1>1 DEF HandlerCompletes
  <2>2. told \in Record
    <3> DEFINE a == Answer(st, ok)
    <3>1. a \in {"none", "whole", "part", "failed"}
      BY AnswerType
    <3> HIDE DEF a
    <3>2. [st EXCEPT !.seen = "completed", !.answer = a, !.helperSelf = FALSE] \in Record
      BY <3>1 DEF Record
    <3> QED BY <2>1, <3>2 DEF a
  <2>3. CASE st.kind = "taker"
    <3>1. r = [st EXCEPT !.seen = "completed", !.answer = Answer(st, ok), !.helperSelf = FALSE]
      BY <1>1, <2>1, <2>3 DEF SendCompleted
    <3>2. Same(r, st)
      BY <3>1 DEF Record, Same
    <3>3. CompletionTold(r, st, ok)
      BY <3>1, <1>1, <2>3 DEF Record, CompletionTold
    <3> QED BY <3>1, <3>2, <3>3, <2>1, <2>2 DEF Record
  <2>4. CASE st.kind # "taker"
    <3>1. r = [told EXCEPT !.managed = FALSE]
      BY <1>1, <2>4 DEF SendCompleted
    <3> HIDE DEF told
    <3>2. r \in Record
      BY <3>1, <2>2 DEF Record
    <3>3. Same(told, st)
      BY <2>1 DEF Record, Same
    <3>4. Same(r, told)
      BY <2>2, <3>1 DEF Record, Same
    <3>5. Same(r, st)
      BY <3>3, <3>4 DEF Same
    <3>6. ~r.managed /\ r.seen = told.seen /\ r.answer = told.answer /\ r.helperSelf = told.helperSelf
      BY <2>2, <3>1 DEF Record
    <3>7. told.seen = "completed" /\ told.answer = Answer(st, ok) /\ told.helperSelf = FALSE
      BY <2>1 DEF Record
    <3>8. CompletionTold(r, st, ok)
      BY <3>6, <3>7, <1>1, <2>4 DEF CompletionTold
    <3>9. /\ r.browser = told.browser /\ r.linked = told.linked /\ r.opened = told.opened
          /\ r.completed = told.completed /\ r.destroyed = told.destroyed
          /\ r.notified = told.notified /\ r.self = told.self
      BY <2>2, <3>1 DEF Record
    <3>10. /\ st.browser = told.browser /\ st.linked = told.linked /\ st.opened = told.opened
           /\ st.completed = told.completed /\ st.destroyed = told.destroyed
           /\ st.notified = told.notified /\ st.self = told.self
      BY <2>1 DEF Record
    <3> QED BY <3>2, <3>5, <3>8, <3>9, <3>10
  <2> QED BY <2>3, <2>4
<1>2. CASE ~HandlerAlive(st)
  <2>1. r = [st EXCEPT !.managed = FALSE]
    BY <1>2 DEF SendCompleted, HandlerCompletes
  <2>2. Same(r, st) /\ CompletionTold(r, st, ok)
    BY <1>2, <2>1 DEF Record, Same, CompletionTold
  <2> QED BY <2>1, <2>2 DEF Record
<1> QED BY <1>1, <1>2

\* The completion of a stream that has lost its NPStream.
LEMMA CompleteFacts ==
  ASSUME NEW st \in Record, NEW ok \in BOOLEAN, NEW r, r = Complete(st, ok)
  PROVE  /\ r \in Record /\ Same(r, st)
         /\ r.browser = st.browser /\ r.linked = st.linked /\ r.opened = st.opened
         /\ r.destroyed = st.destroyed /\ r.notified = st.notified /\ r.self = st.self
         /\ (st.seekable /\ ok) \/ st.completed => r = st
         /\ ~(st.seekable /\ ok) /\ ~st.completed =>
              r.completed /\ CompletionTold(r, st, ok)
<1>1. CASE (st.seekable /\ ok) \/ st.completed
  BY <1>1 DEF Complete, Same
<1>2. CASE ~((st.seekable /\ ok) \/ st.completed)
  <2> DEFINE mid == [st EXCEPT !.completed = TRUE]
  <2>1. r = SendCompleted(mid, ok)
    BY <1>2 DEF Complete
  <2>2. /\ mid \in Record /\ mid.completed /\ Same(mid, st)
        /\ mid.browser = st.browser /\ mid.linked = st.linked /\ mid.opened = st.opened
        /\ mid.destroyed = st.destroyed /\ mid.notified = st.notified /\ mid.self = st.self
        /\ mid.seen = st.seen /\ mid.answer = st.answer /\ mid.helperSelf = st.helperSelf
        /\ mid.managed = st.managed
    BY DEF Record, Same
  <2> HIDE DEF mid
  <2>3. HandlerAlive(mid) = HandlerAlive(st) /\ Answer(mid, ok) = Answer(st, ok)
    BY <2>2 DEF HandlerAlive, Answer, Same
  <2>4. CompletionTold(r, mid, ok) /\ Same(r, mid) /\ r \in Record
    BY <2>1, <2>2, SendCompletedFacts
  <2>5. CompletionTold(r, st, ok) /\ Same(r, st)
    BY <2>2, <2>3, <2>4 DEF CompletionTold, Same
  <2>6. /\ r.browser = mid.browser /\ r.linked = mid.linked /\ r.opened = mid.opened
        /\ r.completed = mid.completed /\ r.destroyed = mid.destroyed
        /\ r.notified = mid.notified /\ r.self = mid.self
    BY <2>1, <2>2, SendCompletedFacts
  <2> QED BY <1>2, <2>2, <2>4, <2>5, <2>6
<1> QED BY <1>1, <1>2

\* NPP_DestroyStream of a stream that has its NPStream.
LEMMA DestroyedFacts ==
  ASSUME NEW st \in Record, NEW ok \in BOOLEAN, NEW r, r = Destroyed(st, ok),
         st.linked
  PROVE  /\ r \in Record /\ Same(r, st)
         /\ r.browser = Ended(ok) /\ ~r.linked /\ r.opened = st.opened
         /\ r.destroyed /\ r.notified = st.notified /\ (r.self <=> st.self /\ ~st.notified)
         /\ (st.seekable /\ ok) \/ st.completed =>
              /\ r.completed = st.completed /\ r.managed = st.managed /\ r.seen = st.seen
              /\ r.helperSelf = st.helperSelf /\ r.answer = st.answer
         /\ ~(st.seekable /\ ok) /\ ~st.completed =>
              r.completed /\ CompletionTold(r, st, ok)
<1> DEFINE mid == [st EXCEPT !.browser = Ended(ok), !.linked = FALSE]
           told == Complete(mid, ok)
<1>1. r = [told EXCEPT !.destroyed = TRUE, !.self = @ /\ ~told.notified]
  BY DEF Destroyed, SetDestroyed
<1>2. /\ mid \in Record /\ mid.completed = st.completed /\ Same(mid, st)
      /\ mid.browser = Ended(ok)
      /\ ~mid.linked
      /\ mid.opened = st.opened /\ mid.notified = st.notified /\ mid.self = st.self
      /\ mid.seen = st.seen /\ mid.answer = st.answer /\ mid.helperSelf = st.helperSelf
      /\ mid.managed = st.managed
  BY ZenonT(60) DEF Record, Same, Ended
<1> HIDE DEF mid
<1>3. HandlerAlive(mid) = HandlerAlive(st) /\ Answer(mid, ok) = Answer(st, ok)
  BY <1>2 DEF HandlerAlive, Answer, Same
<1>4. told = Complete(mid, ok)
  OBVIOUS
<1> HIDE DEF told
<1>5. /\ told \in Record /\ Same(told, mid)
      /\ told.browser = mid.browser /\ told.linked = mid.linked /\ told.opened = mid.opened
      /\ told.notified = mid.notified /\ told.self = mid.self
      /\ (mid.seekable /\ ok) \/ mid.completed => told = mid
      /\ ~(mid.seekable /\ ok) /\ ~mid.completed =>
           told.completed /\ CompletionTold(told, mid, ok)
  BY <1>2, <1>4, CompleteFacts
<1>6. /\ r \in Record /\ Same(r, told) /\ r.browser = told.browser /\ r.linked = told.linked
      /\ r.opened = told.opened /\ r.notified = told.notified /\ r.destroyed
      /\ (r.self <=> told.self /\ ~told.notified) /\ r.completed = told.completed
      /\ r.managed = told.managed /\ r.seen = told.seen /\ r.answer = told.answer
      /\ r.helperSelf = told.helperSelf
  <2> DEFINE kept == told.self /\ ~told.notified
  <2>1. kept \in BOOLEAN /\ (kept <=> told.self /\ ~told.notified)
    BY <1>5 DEF Record
  <2> HIDE DEF kept
  <2>2. r = [told EXCEPT !.destroyed = TRUE, !.self = kept]
    BY <1>1 DEF kept
  <2>3. r \in Record
    BY ZenonT(60), <1>5, <2>1, <2>2 DEF Record
  <2> QED BY <1>5, <2>1, <2>2, <2>3 DEF Record, Same
<1>7. Same(r, st) /\ mid.seekable = st.seekable /\ mid.kind = st.kind
  BY <1>2, <1>5, <1>6 DEF Same
<1>8. ~(st.seekable /\ ok) /\ ~st.completed => CompletionTold(r, st, ok)
  BY <1>2, <1>3, <1>5, <1>6, <1>7 DEF CompletionTold
<1> QED BY <1>2, <1>5, <1>6, <1>7, <1>8

\* What one or two events of completion do to the handler and the manager.
Told(r, st) ==
  /\ HandlerAlive(st) => r.seen = "completed" /\ ~r.helperSelf
  /\ ~HandlerAlive(st) => r.seen = st.seen /\ ~r.helperSelf /\ r.answer = st.answer
  /\ r.answer = st.answer \/ (st.kind = "helper" /\ st.answer = "none" /\ HandlerAlive(st))
  /\ st.kind = "helper" /\ HandlerAlive(st) => r.answer # "none"
  /\ r.managed => st.managed /\ st.kind = "taker"
  /\ r.answer = "part" => st.answer = "part" \/ st.received # Length

LEMMA CompletionIsTold ==
  ASSUME NEW st \in Record, NEW r \in Record, NEW ok \in BOOLEAN, CompletionTold(r, st, ok)
  PROVE  Told(r, st)
  BY DEF CompletionTold, Told, HandlerAlive, Answer, Record

LEMMA ToldTwice ==
  ASSUME NEW a \in Record, NEW b \in Record, NEW c \in Record,
         Told(b, a), Told(c, b), Same(b, a)
  PROVE  Told(c, a)
  BY DEF Told, Same, HandlerAlive, Record

\* close() of an open stream: the handler is told, the browser gives it up.
LEMMA CloseFacts ==
  ASSUME NEW st \in Record, NEW npn \in BOOLEAN, NEW r, r = CloseStream(st, npn),
         st.linked, st.opened
  PROVE  /\ r \in Record /\ Same(r, st) /\ ~r.linked /\ ~r.opened /\ Told(r, st)
         /\ r.notified = st.notified
         /\ npn => /\ r.browser = "broken" /\ r.destroyed /\ r.completed
                   /\ r.self <=> st.self /\ ~st.notified
         /\ ~npn => /\ r.browser = st.browser /\ r.destroyed = st.destroyed
                    /\ r.completed = st.completed /\ r.self = st.self
<1> DEFINE told == SendCompleted(st, TRUE)
           shut == [told EXCEPT !.opened = FALSE]
<1>1. /\ told \in Record /\ Same(told, st) /\ CompletionTold(told, st, TRUE)
      /\ told.browser = st.browser /\ told.linked /\ told.completed = st.completed
      /\ told.destroyed = st.destroyed /\ told.notified = st.notified /\ told.self = st.self
  BY ZenonT(60), SendCompletedFacts
<1>2. /\ npn => r = Destroyed(shut, FALSE)
      /\ ~npn => r = [shut EXCEPT !.linked = FALSE]
  BY DEF CloseStream
<1> HIDE DEF told
<1>3. /\ shut \in Record /\ ~shut.opened /\ shut.linked
      /\ shut.browser = told.browser /\ shut.completed = told.completed
      /\ shut.destroyed = told.destroyed /\ shut.notified = told.notified
      /\ shut.self = told.self /\ Same(shut, told)
      /\ shut.seen = told.seen /\ shut.answer = told.answer
      /\ shut.helperSelf = told.helperSelf /\ shut.managed = told.managed
  BY ZenonT(60), <1>1 DEF Record, Same
<1> HIDE DEF shut
<1>4. Same(shut, st)
  BY <1>1, <1>3 DEF Same
<1>5. Told(shut, st)
  <2>1. Told(told, st)
    BY <1>1, CompletionIsTold
  <2> QED BY <2>1, <1>3 DEF Told
<1>6. CASE npn
  <2>1. /\ r \in Record /\ Same(r, shut) /\ r.browser = Ended(FALSE) /\ ~r.linked
        /\ r.opened = shut.opened /\ r.destroyed /\ r.notified = shut.notified
        /\ (r.self <=> shut.self /\ ~shut.notified)
        /\ shut.completed =>
              /\ r.completed /\ r.managed = shut.managed /\ r.seen = shut.seen
              /\ r.helperSelf = shut.helperSelf /\ r.answer = shut.answer
        /\ ~shut.completed => r.completed /\ CompletionTold(r, shut, FALSE)
    <3>1. r = Destroyed(shut, FALSE)
      BY <1>2, <1>6
    <3> QED BY ZenonT(60), <3>1, <1>3, DestroyedFacts
  <2>2. CASE shut.completed
    <3>1. Told(r, st)
      BY <2>1, <2>2, <1>5 DEF Told
    <3>2. Same(r, st)
      BY <1>4, <2>1 DEF Same
    <3> QED BY <1>1, <1>3, <1>6, <2>1, <2>2, <3>1, <3>2 DEF Ended
  <2>3. CASE ~shut.completed
    <3>1. Told(r, shut)
      BY <1>3, <2>1, <2>3, CompletionIsTold
    <3>2. Told(r, st)
      BY <1>3, <1>4, <1>5, <2>1, <3>1, ToldTwice
    <3>3. Same(r, st)
      BY <1>4, <2>1 DEF Same
    <3>4. r.completed
      BY <2>1, <2>3
    <3> QED BY <1>1, <1>3, <1>6, <2>1, <3>2, <3>3, <3>4 DEF Ended
  <2> QED BY <2>2, <2>3
<1>7. CASE ~npn
  <2>1. r = [shut EXCEPT !.linked = FALSE]
    BY <1>2, <1>7
  <2>2. /\ r \in Record /\ ~r.linked /\ ~r.opened
        /\ r.browser = shut.browser /\ r.completed = shut.completed
        /\ r.destroyed = shut.destroyed /\ r.notified = shut.notified
        /\ r.self = shut.self /\ Same(r, shut)
        /\ r.seen = shut.seen /\ r.answer = shut.answer
        /\ r.helperSelf = shut.helperSelf /\ r.managed = shut.managed
    BY ZenonT(60), <2>1, <1>3 DEF Record, Same
  <2>3. Told(r, st)
    BY <2>2, <1>5 DEF Told
  <2> QED BY <1>1, <1>3, <1>4, <1>7, <2>2, <2>3 DEF Same
<1> QED BY <1>6, <1>7

-----------------------------------------------------------------------------
(* Each operator keeps the invariant of its stream, and its handler sees   *)
(* what StreamLife allows.                                                 *)

LifeStep(r, st) ==
  /\ r.seen = st.seen \/ <<st.seen, r.seen>> \in Life!Order
  /\ r.answer = st.answer \/ (st.answer = "none" /\ r.seen = "completed")

LEMMA RequestFacts ==
  ASSUME NEW r \in Requests
  PROVE  /\ r \in Record /\ r.browser = "idle" /\ r.sent = 0 /\ r.received = 0
         /\ ~r.linked /\ ~r.opened /\ ~r.completed /\ ~r.destroyed /\ ~r.notified
         /\ ~r.self /\ ~r.managed /\ r.seen = "nothing" /\ r.answer = "none"
         /\ r.kind = "helper" => r.helperSelf /\ ~r.seekable
         /\ r.kind # "helper" => ~r.helperSelf
<1>0. /\ Idle \in Record /\ Idle.browser = "idle" /\ Idle.sent = 0 /\ Idle.received = 0
      /\ ~Idle.linked /\ ~Idle.opened /\ ~Idle.completed /\ ~Idle.destroyed
      /\ ~Idle.notified /\ ~Idle.self /\ ~Idle.managed /\ Idle.seen = "nothing"
      /\ Idle.answer = "none" /\ Idle.kind = "helper" /\ ~Idle.seekable /\ ~Idle.helperSelf
  BY StreamsAssumption DEF Idle, Record
<1>1. CASE \E kept \in BOOLEAN : r = HelperRequest(kept)
  BY ZenonT(60), <1>0, <1>1 DEF Record, HelperRequest
<1>2. CASE \E k \in {"handler", "taker"}, seek \in BOOLEAN :
             r = HandlerRequest(k, seek)
  BY ZenonT(60), <1>0, <1>2 DEF Record, HandlerRequest
<1> QED BY <1>1, <1>2 DEF Requests

LEMMA CreateKeeps ==
  ASSUME NEW st \in Record, NEW q \in Requests, NEW r, st.seen = "nothing", st.answer = "none",
         r = [q EXCEPT !.browser = "asked", !.self = TRUE, !.managed = TRUE, !.seen = "created"]
  PROVE  r \in Record /\ StreamOK(r, FALSE) /\ LifeStep(r, st)
<1>1. /\ r \in Record /\ r.browser = "asked" /\ r.sent = 0 /\ r.received = 0
      /\ ~r.linked /\ ~r.opened /\ ~r.completed /\ ~r.destroyed /\ ~r.notified
      /\ r.self /\ r.managed /\ r.seen = "created" /\ r.answer = "none"
      /\ r.kind = "helper" => r.helperSelf /\ ~r.seekable
      /\ r.kind # "helper" => ~r.helperSelf
  BY ZenonT(60), RequestFacts DEF Record
<1>2. StreamOK(r, FALSE)
  BY <1>1 DEF StreamOK, SelfUntilBoth, LinkedWhileStreaming, HelperWaits, SeenInOrder,
     CompletedLetsGo, Taken, HandlerAlive
<1>3. LifeStep(r, st)
  BY <1>1 DEF LifeStep, Life!Order
<1> QED BY <1>1, <1>2, <1>3

LEMMA CreateFailsKeeps ==
  ASSUME NEW st \in Record, NEW q \in Requests, NEW r, st.seen = "nothing", st.answer = "none",
         r = [q EXCEPT !.browser = "refused"]
  PROVE  r \in Record /\ StreamOK(r, FALSE) /\ LifeStep(r, st)
<1>1. /\ r \in Record /\ r.browser = "refused" /\ r.sent = 0 /\ r.received = 0
      /\ ~r.linked /\ ~r.opened /\ ~r.completed /\ ~r.destroyed /\ ~r.notified
      /\ ~r.self /\ ~r.managed /\ r.seen = "nothing" /\ r.answer = "none"
      /\ r.kind = "helper" => r.helperSelf /\ ~r.seekable
      /\ r.kind # "helper" => ~r.helperSelf
  BY RequestFacts DEF Record
<1>2. StreamOK(r, FALSE)
  BY <1>1 DEF StreamOK, SelfUntilBoth, LinkedWhileStreaming, HelperWaits, SeenInOrder,
     CompletedLetsGo, Taken, HandlerAlive
<1> QED BY <1>1, <1>2 DEF LifeStep

LEMMA CloseKeeps ==
  ASSUME NEW st \in Record, NEW r, StreamOK(st, FALSE), st.linked,
         r = [CloseStream(st, TRUE) EXCEPT !.closed = TRUE]
  PROVE  r \in Record /\ StreamOK(r, FALSE) /\ LifeStep(r, st)
<1> DEFINE shut == CloseStream(st, TRUE)
<1>1. st.opened
  BY DEF StreamOK, LinkedWhileStreaming
<1>2. shut = CloseStream(st, TRUE)
  OBVIOUS
<1> HIDE DEF shut
<1>3. /\ shut \in Record /\ Same(shut, st) /\ ~shut.linked /\ ~shut.opened /\ Told(shut, st)
      /\ shut.notified = st.notified /\ shut.browser = "broken" /\ shut.destroyed
      /\ shut.completed /\ (shut.self <=> st.self /\ ~st.notified)
  BY <1>1, <1>2, CloseFacts
<1>4. /\ r \in Record /\ r.closed
      /\ r.browser = "broken" /\ r.seekable = shut.seekable /\ ~r.linked
      /\ r.completed /\ r.destroyed /\ r.notified = shut.notified /\ r.self = shut.self
      /\ r.managed = shut.managed /\ r.kind = shut.kind /\ r.helperSelf = shut.helperSelf
      /\ r.user = shut.user /\ r.seen = shut.seen /\ r.answer = shut.answer
  BY ZenonT(60), <1>2, <1>3 DEF Record
<1>5. StreamOK(r, FALSE)
  BY ZenonT(60), <1>3, <1>4 DEF Told, Same, StreamOK, SelfUntilBoth, LinkedWhileStreaming, HelperWaits, SeenInOrder,
     CompletedLetsGo, Taken, HandlerAlive
<1>6. LifeStep(r, st)
  BY ZenonT(60), <1>3, <1>4 DEF Record, LifeStep, Life!Order, Told, StreamOK, SelfUntilBoth, LinkedWhileStreaming, HelperWaits, SeenInOrder,
     CompletedLetsGo, Taken, HandlerAlive
<1> QED BY <1>4, <1>5, <1>6

LEMMA DropKeeps ==
  ASSUME NEW st \in Record, NEW shut \in BOOLEAN, NEW r, StreamOK(st, shut),
         r = [st EXCEPT !.user = FALSE]
  PROVE  r \in Record /\ StreamOK(r, shut) /\ LifeStep(r, st)
<1>1. /\ r \in Record /\ r.browser = st.browser /\ r.sent = st.sent
      /\ r.seekable = st.seekable /\ r.linked = st.linked /\ r.opened = st.opened
      /\ r.completed = st.completed /\ r.destroyed = st.destroyed
      /\ r.notified = st.notified /\ r.self = st.self /\ r.managed = st.managed
      /\ r.kind = st.kind /\ r.helperSelf = st.helperSelf /\ ~r.user /\ r.seen = st.seen
      /\ r.received = st.received /\ r.answer = st.answer /\ r.closed = st.closed
  BY DEF Record
<1>2. StreamOK(r, shut)
  BY <1>1 DEF StreamOK, SelfUntilBoth, LinkedWhileStreaming, HelperWaits, SeenInOrder,
     CompletedLetsGo, Taken, HandlerAlive
<1> QED BY <1>1, <1>2 DEF LifeStep

\* Tell changes what a handler that is there has seen, and nothing else.
LEMMA TellFacts ==
  ASSUME NEW st \in Record, NEW e \in Life!Events, NEW r, r = Tell(st, e)
  PROVE  /\ /\ r \in Record /\ r.browser = st.browser /\ r.sent = st.sent
         /\ r.seekable = st.seekable /\ r.linked = st.linked /\ r.opened = st.opened
         /\ r.completed = st.completed /\ r.destroyed = st.destroyed
         /\ r.notified = st.notified /\ r.self = st.self /\ r.managed = st.managed
         /\ r.kind = st.kind /\ r.helperSelf = st.helperSelf /\ r.user = st.user
         /\ r.received = st.received /\ r.answer = st.answer /\ r.closed = st.closed
         /\ HandlerAlive(st) => r.seen = e
         /\ ~HandlerAlive(st) => r.seen = st.seen
<1>1. CASE HandlerAlive(st)
  <2>1. r = [st EXCEPT !.seen = e]
    BY <1>1 DEF Tell
  <2> QED BY <1>1, <2>1 DEF Record, Life!Events
<1>2. CASE ~HandlerAlive(st)
  BY <1>2 DEF Tell
<1> QED BY <1>1, <1>2

LEMMA OpenedKeeps ==
  ASSUME NEW st \in Record, NEW r, StreamOK(st, FALSE), st.browser = "asked", r = Opened(st)
  PROVE  r \in Record /\ StreamOK(r, FALSE) /\ LifeStep(r, st)
<1> DEFINE linked == [st EXCEPT !.browser = "streaming", !.linked = TRUE]
           mid == [linked EXCEPT !.opened = TRUE]
<1>1. ~st.completed
  BY DEF StreamOK, LinkedWhileStreaming
<1>2. r = Tell(mid, "opened")
  BY <1>1 DEF Opened
<1>3. /\ linked \in Record /\ linked.browser = "streaming" /\ linked.sent = st.sent
      /\ linked.seekable = st.seekable /\ linked.linked /\ linked.opened = st.opened
      /\ linked.completed = st.completed /\ linked.destroyed = st.destroyed
      /\ linked.notified = st.notified /\ linked.self = st.self
      /\ linked.managed = st.managed /\ linked.kind = st.kind
      /\ linked.helperSelf = st.helperSelf /\ linked.user = st.user
      /\ linked.seen = st.seen /\ linked.received = st.received
      /\ linked.answer = st.answer /\ linked.closed = st.closed
  BY DEF Record
<1> HIDE DEF linked
<1>4. /\ mid \in Record /\ mid.browser = linked.browser /\ mid.sent = linked.sent
      /\ mid.seekable = linked.seekable /\ mid.linked = linked.linked /\ mid.opened
      /\ mid.completed = linked.completed /\ mid.destroyed = linked.destroyed
      /\ mid.notified = linked.notified /\ mid.self = linked.self
      /\ mid.managed = linked.managed /\ mid.kind = linked.kind
      /\ mid.helperSelf = linked.helperSelf /\ mid.user = linked.user
      /\ mid.seen = linked.seen /\ mid.received = linked.received
      /\ mid.answer = linked.answer /\ mid.closed = linked.closed
  BY <1>3 DEF Record
<1> HIDE DEF mid
<1>5. /\ r \in Record /\ r.browser = mid.browser /\ r.sent = mid.sent
      /\ r.seekable = mid.seekable /\ r.linked = mid.linked /\ r.opened = mid.opened
      /\ r.completed = mid.completed /\ r.destroyed = mid.destroyed
      /\ r.notified = mid.notified /\ r.self = mid.self /\ r.managed = mid.managed
      /\ r.kind = mid.kind /\ r.helperSelf = mid.helperSelf /\ r.user = mid.user
      /\ r.received = mid.received /\ r.answer = mid.answer /\ r.closed = mid.closed
      /\ HandlerAlive(mid) => r.seen = "opened"
      /\ ~HandlerAlive(mid) => r.seen = mid.seen
  <2>1. "opened" \in Life!Events
    BY DEF Life!Events
  <2> QED BY <1>2, <1>4, <2>1, TellFacts
<1>6. /\ r \in Record /\ r.browser = "streaming" /\ r.sent = st.sent
      /\ r.seekable = st.seekable /\ r.linked /\ r.opened /\ r.completed = st.completed
      /\ r.destroyed = st.destroyed /\ r.notified = st.notified /\ r.self = st.self
      /\ r.managed = st.managed /\ r.kind = st.kind /\ r.helperSelf = st.helperSelf
      /\ r.user = st.user /\ r.received = st.received /\ r.answer = st.answer
      /\ r.closed = st.closed
      /\ HandlerAlive(st) => r.seen = "opened"
      /\ ~HandlerAlive(st) => r.seen = st.seen
  BY <1>3, <1>4, <1>5 DEF HandlerAlive
<1>7. StreamOK(r, FALSE)
  BY <1>6 DEF StreamOK, SelfUntilBoth, LinkedWhileStreaming, HelperWaits, SeenInOrder,
     CompletedLetsGo, Taken, HandlerAlive
<1>8. LifeStep(r, st)
  BY <1>6 DEF LifeStep, Life!Order, StreamOK, SelfUntilBoth, LinkedWhileStreaming, HelperWaits, SeenInOrder,
     CompletedLetsGo, Taken, HandlerAlive
<1> QED BY <1>6, <1>7, <1>8

LEMMA OpenFailsKeeps ==
  ASSUME NEW st \in Record, NEW r, StreamOK(st, FALSE), st.browser = "asked", st.seekable,
         r = OpenFails(st)
  PROVE  r \in Record /\ StreamOK(r, FALSE) /\ LifeStep(r, st)
<1> DEFINE mid == Tell(st, "failed")
<1>1. r = [mid EXCEPT !.linked = FALSE, !.browser = "broken"]
  BY DEF OpenFails
<1>2. /\ mid \in Record /\ mid.browser = st.browser /\ mid.sent = st.sent
      /\ mid.seekable = st.seekable /\ mid.linked = st.linked /\ mid.opened = st.opened
      /\ mid.completed = st.completed /\ mid.destroyed = st.destroyed
      /\ mid.notified = st.notified /\ mid.self = st.self /\ mid.managed = st.managed
      /\ mid.kind = st.kind /\ mid.helperSelf = st.helperSelf /\ mid.user = st.user
      /\ mid.received = st.received /\ mid.answer = st.answer /\ mid.closed = st.closed
      /\ HandlerAlive(st) => mid.seen = "failed"
      /\ ~HandlerAlive(st) => mid.seen = st.seen
  <2>1. CASE HandlerAlive(st)
    <3>1. mid = [st EXCEPT !.seen = "failed"]
      BY <2>1 DEF Tell
    <3> QED BY ZenonT(60), <2>1, <3>1 DEF Record
  <2>2. CASE ~HandlerAlive(st)
    BY <2>2 DEF Tell
  <2> QED BY <2>1, <2>2
<1>a. mid \in Record
  BY <1>2
<1> HIDE DEF mid
<1>3. /\ r \in Record /\ r.browser = "broken" /\ r.sent = mid.sent
      /\ r.seekable = mid.seekable /\ ~r.linked /\ r.opened = mid.opened
      /\ r.completed = mid.completed /\ r.destroyed = mid.destroyed
      /\ r.notified = mid.notified /\ r.self = mid.self /\ r.managed = mid.managed
      /\ r.kind = mid.kind /\ r.helperSelf = mid.helperSelf /\ r.user = mid.user
      /\ r.seen = mid.seen /\ r.received = mid.received /\ r.answer = mid.answer
      /\ r.closed = mid.closed
  BY ZenonT(60), <1>1, <1>a DEF Record
<1>4. StreamOK(r, FALSE)
  BY <1>2, <1>3 DEF StreamOK, SelfUntilBoth, LinkedWhileStreaming, HelperWaits, SeenInOrder,
     CompletedLetsGo, Taken, HandlerAlive
<1>5. LifeStep(r, st)
  BY <1>2, <1>3 DEF LifeStep, Life!Order, StreamOK, SelfUntilBoth, LinkedWhileStreaming, HelperWaits, SeenInOrder,
     CompletedLetsGo, Taken, HandlerAlive
<1> QED BY <1>3, <1>4, <1>5

LEMMA WriteKeeps ==
  ASSUME NEW st \in Record, NEW r, StreamOK(st, FALSE), st.browser = "streaming",
         st.sent < Length, r = DataArrived([st EXCEPT !.sent = @ + 1])
  PROVE  r \in Record /\ StreamOK(r, FALSE) /\ LifeStep(r, st)
<1> DEFINE mid == [st EXCEPT !.sent = @ + 1]
           data == [mid EXCEPT !.seen = "data",
                               !.received = IF mid.kind = "helper" THEN mid.received + 1 ELSE mid.received]
<1>1. st.linked /\ st.opened /\ (st.kind = "helper" => st.received = st.sent)
  BY DEF StreamOK, SelfUntilBoth, LinkedWhileStreaming, HelperWaits, SeenInOrder,
     CompletedLetsGo, Taken, HandlerAlive
<1>2. st.sent + 1 \in 0..Length
  BY StreamsAssumption DEF Record
<1>3. /\ mid \in Record /\ mid.browser = st.browser /\ mid.sent = st.sent + 1
      /\ mid.seekable = st.seekable /\ mid.linked = st.linked /\ mid.opened = st.opened
      /\ mid.completed = st.completed /\ mid.destroyed = st.destroyed
      /\ mid.notified = st.notified /\ mid.self = st.self /\ mid.managed = st.managed
      /\ mid.kind = st.kind /\ mid.helperSelf = st.helperSelf /\ mid.user = st.user
      /\ mid.seen = st.seen /\ mid.received = st.received /\ mid.answer = st.answer
      /\ mid.closed = st.closed
  BY <1>2 DEF Record
<1>4. r = IF HandlerAlive(mid) THEN data ELSE mid
  BY <1>1, <1>3 DEF DataArrived
<1> HIDE DEF mid
<1>5. /\ data \in Record /\ data.browser = mid.browser /\ data.sent = mid.sent
      /\ data.seekable = mid.seekable /\ data.linked = mid.linked
      /\ data.opened = mid.opened /\ data.completed = mid.completed
      /\ data.destroyed = mid.destroyed /\ data.notified = mid.notified
      /\ data.self = mid.self /\ data.managed = mid.managed /\ data.kind = mid.kind
      /\ data.helperSelf = mid.helperSelf /\ data.user = mid.user /\ data.seen = "data"
      /\ data.answer = mid.answer /\ data.closed = mid.closed
      /\ mid.kind = "helper" => data.received = mid.received + 1
  <2> DEFINE n == IF mid.kind = "helper" THEN mid.received + 1 ELSE mid.received
  <2>1. n \in 0..Length
    BY <1>1, <1>2, <1>3 DEF Record
  <2> HIDE DEF n
  <2>2. data = [mid EXCEPT !.seen = "data", !.received = n]
    BY DEF n
  <2>3. /\ data \in Record /\ data.seen = "data" /\ data.received = n
    BY ZenonT(60), <2>1, <2>2, <1>3 DEF Record
  <2> QED BY <2>1, <2>2, <2>3, <1>3 DEF Record, n
<1> HIDE DEF data
<1>6. CASE HandlerAlive(mid)
  <2>1. r = data
    BY <1>4, <1>6
  <2>2. /\ r \in Record /\ r.browser = st.browser /\ r.sent = st.sent + 1
        /\ r.seekable = st.seekable /\ r.linked = st.linked /\ r.opened = st.opened
        /\ r.completed = st.completed /\ r.destroyed = st.destroyed
        /\ r.notified = st.notified /\ r.self = st.self /\ r.managed = st.managed
        /\ r.kind = st.kind /\ r.helperSelf = st.helperSelf /\ r.user = st.user
        /\ r.seen = "data" /\ r.answer = st.answer /\ r.closed = st.closed
        /\ st.kind = "helper" => r.received = st.received + 1
        /\ HandlerAlive(st)
    BY <2>1, <1>3, <1>5, <1>6 DEF HandlerAlive
  <2>3. StreamOK(r, FALSE)
    BY ZenonT(60), <2>2, <1>1 DEF StreamOK, SelfUntilBoth, LinkedWhileStreaming, HelperWaits, SeenInOrder,
     CompletedLetsGo, Taken, HandlerAlive
  <2>4. LifeStep(r, st)
    BY <2>2, <1>1 DEF LifeStep, Life!Order, StreamOK, SelfUntilBoth, LinkedWhileStreaming, HelperWaits, SeenInOrder,
     CompletedLetsGo, Taken, HandlerAlive
  <2> QED BY <2>2, <2>3, <2>4
<1>7. CASE ~HandlerAlive(mid)
  <2>1. r = mid
    BY <1>4, <1>7
  <2>2. StreamOK(r, FALSE)
    BY ZenonT(60), <2>1, <1>1, <1>3, <1>7 DEF StreamOK, SelfUntilBoth, LinkedWhileStreaming, HelperWaits, SeenInOrder,
     CompletedLetsGo, Taken, HandlerAlive
  <2> QED BY <2>1, <2>2, <1>3 DEF LifeStep
<1> QED BY <1>6, <1>7

LEMMA DestroyKeeps ==
  ASSUME NEW st \in Record, NEW ok \in BOOLEAN, NEW r, StreamOK(st, FALSE),
         st.browser = "streaming", ok => st.sent = Length, r = Destroyed(st, ok)
  PROVE  r \in Record /\ StreamOK(r, FALSE) /\ LifeStep(r, st)
<1>1. /\ st.linked /\ st.opened /\ st.managed /\ ~st.completed /\ ~st.destroyed /\ st.self
      /\ HandlerAlive(st) => st.seen \in {"opened", "data"}
      /\ st.kind = "helper" => st.helperSelf /\ st.received = st.sent /\ ~st.seekable
                               /\ st.answer = "none"
      /\ st.kind # "helper" => ~st.helperSelf /\ st.answer = "none"
      /\ st.seen # "nothing"
  BY DEF StreamOK, SelfUntilBoth, LinkedWhileStreaming, HelperWaits, SeenInOrder,
     CompletedLetsGo, Taken, HandlerAlive
<1>2. /\ r \in Record /\ Same(r, st)
      /\ r.browser = Ended(ok) /\ ~r.linked /\ r.opened = st.opened
      /\ r.destroyed /\ r.notified = st.notified /\ (r.self <=> st.self /\ ~st.notified)
      /\ st.seekable /\ ok =>
              /\ ~r.completed /\ r.managed = st.managed /\ r.seen = st.seen
              /\ r.helperSelf = st.helperSelf /\ r.answer = st.answer
      /\ ~(st.seekable /\ ok) => r.completed /\ CompletionTold(r, st, ok)
  <2>0. st.linked /\ ~st.completed
    BY <1>1
  <2>1. /\ r \in Record /\ Same(r, st)
        /\ r.browser = Ended(ok) /\ ~r.linked /\ r.opened = st.opened
        /\ r.destroyed /\ r.notified = st.notified /\ (r.self <=> st.self /\ ~st.notified)
        /\ (st.seekable /\ ok) \/ st.completed =>
              /\ r.completed = st.completed /\ r.managed = st.managed /\ r.seen = st.seen
              /\ r.helperSelf = st.helperSelf /\ r.answer = st.answer
        /\ ~(st.seekable /\ ok) /\ ~st.completed =>
              r.completed /\ CompletionTold(r, st, ok)
    BY <2>0, DestroyedFacts
  <2> QED BY <2>0, <2>1
<1>3. r.browser \in {"done", "broken"}
  BY <1>2 DEF Ended
<1>4. CASE st.seekable /\ ok
  <2>1. r.seen = st.seen /\ r.answer = st.answer /\ st.kind # "helper" /\ ~r.completed
        /\ r.managed = st.managed /\ r.helperSelf = st.helperSelf
    BY <1>1, <1>2, <1>4
  <2>2. StreamOK(r, FALSE)
    BY <1>1, <1>2, <1>3, <2>1 DEF Same, StreamOK, SelfUntilBoth, LinkedWhileStreaming, HelperWaits, SeenInOrder,
     CompletedLetsGo, Taken, HandlerAlive
  <2> QED BY <1>2, <2>1, <2>2 DEF LifeStep
<1>5. CASE ~(st.seekable /\ ok)
  <2>1. r.completed /\ CompletionTold(r, st, ok)
    BY <1>2, <1>5
  <2>2. Told(r, st)
    BY <1>2, <2>1, CompletionIsTold
  <2>3. r.answer # "part"
    <3>1. CASE st.kind = "helper"
      <4>1. r.answer = Answer(st, ok)
        BY <1>1, <2>1, <3>1 DEF CompletionTold, HandlerAlive
      <4> QED BY <1>1, <3>1, <4>1 DEF Answer
    <3>2. CASE st.kind # "helper"
      BY <1>1, <2>2, <3>2 DEF Told
    <3> QED BY <3>1, <3>2
  <2>4. StreamOK(r, FALSE)
    BY <1>1, <1>2, <1>3, <2>1, <2>2, <2>3 DEF Same, Told, StreamOK, SelfUntilBoth, LinkedWhileStreaming, HelperWaits, SeenInOrder,
     CompletedLetsGo, Taken, HandlerAlive
  <2>5. LifeStep(r, st)
    BY <1>1, <2>2 DEF Told, LifeStep, Life!Order, HandlerAlive
  <2> QED BY <1>2, <2>4, <2>5
<1> QED BY <1>4, <1>5

\* setNotified drops the stream's own reference when NPP_DestroyStream has been.
LEMMA SetNotifiedFacts ==
  ASSUME NEW st \in Record, NEW r, r = SetNotified(st)
  PROVE  /\ /\ r \in Record /\ r.browser = st.browser /\ r.sent = st.sent
         /\ r.seekable = st.seekable /\ r.linked = st.linked /\ r.opened = st.opened
         /\ r.completed = st.completed /\ r.destroyed = st.destroyed /\ r.notified
         /\ r.managed = st.managed /\ r.kind = st.kind /\ r.helperSelf = st.helperSelf
         /\ r.user = st.user /\ r.seen = st.seen /\ r.received = st.received
         /\ r.answer = st.answer /\ r.closed = st.closed
         /\ r.self <=> st.self /\ ~st.destroyed
<1> DEFINE kept == st.self /\ ~st.destroyed
<1>1. kept \in BOOLEAN /\ (kept <=> st.self /\ ~st.destroyed)
  BY DEF Record
<1>2. r = [st EXCEPT !.notified = TRUE, !.self = kept]
  BY DEF SetNotified
<1> HIDE DEF kept
<1> QED BY ZenonT(60), <1>1, <1>2 DEF Record

\* What NPP_URLNotify does before it notes that it has been: mid is the stream
\* after signalCompleted.
LEMMA SignalFacts ==
  ASSUME NEW st \in Record, NEW ok \in BOOLEAN, NEW r, r = SignalCompleted(st, ok),
         ~(st.seekable /\ ok), ~st.completed, st.linked => st.opened
  PROVE  /\ r \in Record /\ Same(r, st) /\ Told(r, st) /\ r.completed /\ ~r.linked
         /\ r.notified = st.notified
         /\ st.linked => /\ r.browser = "broken" /\ r.destroyed
                         /\ r.self <=> st.self /\ ~st.notified
         /\ ~st.linked => /\ r.browser = st.browser /\ r.destroyed = st.destroyed
                          /\ r.self = st.self
                          /\ CompletionTold(r, st, ok)
<1> DEFINE begun == [st EXCEPT !.completed = TRUE]
           mid == CloseStream(begun, TRUE)
<1>1. r = SendCompleted(mid, ok)
  BY DEF SignalCompleted
<1>2. /\ /\ begun \in Record /\ begun.browser = st.browser /\ begun.sent = st.sent
      /\ begun.seekable = st.seekable /\ begun.linked = st.linked
      /\ begun.opened = st.opened /\ begun.completed /\ begun.destroyed = st.destroyed
      /\ begun.notified = st.notified /\ begun.self = st.self
      /\ begun.managed = st.managed /\ begun.kind = st.kind
      /\ begun.helperSelf = st.helperSelf /\ begun.user = st.user
      /\ begun.seen = st.seen /\ begun.received = st.received
      /\ begun.answer = st.answer /\ begun.closed = st.closed
  BY DEF Record
<1> HIDE DEF begun
<1>3. HandlerAlive(begun) = HandlerAlive(st) /\ Answer(begun, ok) = Answer(st, ok) /\ Same(begun, st)
  BY <1>2 DEF HandlerAlive, Answer, Same
<1>4. mid = CloseStream(begun, TRUE)
  OBVIOUS
<1> HIDE DEF mid
<1>5. mid \in Record => /\ r \in Record /\ Same(r, mid) /\ CompletionTold(r, mid, ok)
      /\ r.browser = mid.browser /\ r.linked = mid.linked /\ r.opened = mid.opened
      /\ r.completed = mid.completed /\ r.destroyed = mid.destroyed
      /\ r.notified = mid.notified /\ r.self = mid.self
  BY <1>1, SendCompletedFacts
<1>6. CASE st.linked
  <2>1. begun.linked /\ begun.opened
    BY <1>2, <1>6
  <2>2. /\ mid \in Record /\ Same(mid, begun) /\ ~mid.linked /\ Told(mid, begun)
        /\ mid.notified = begun.notified /\ mid.browser = "broken" /\ mid.destroyed
        /\ mid.completed /\ (mid.self <=> begun.self /\ ~begun.notified)
    BY ZenonT(60), <1>2, <1>4, <2>1, CloseFacts
  <2>3. Told(mid, st) /\ Same(mid, st)
    BY <1>2, <1>3, <2>2 DEF Told, Same
  <2>4. Told(r, mid)
    BY <1>5, <2>2, CompletionIsTold
  <2>5. Told(r, st)
    BY <1>5, <2>2, <2>3, <2>4, ToldTwice
  <2>6. Same(r, st)
    BY <1>5, <2>2, <2>3 DEF Same
  <2> QED BY <1>2, <1>5, <1>6, <2>2, <2>5, <2>6
<1>7. CASE ~st.linked
  <2>1. mid = begun
    BY <1>2, <1>4, <1>7 DEF CloseStream
  <2>2. CompletionTold(r, st, ok)
    BY <1>2, <1>3, <1>5, <2>1 DEF CompletionTold, Same
  <2>3. Told(r, st)
    BY <1>2, <1>5, <2>1, <2>2, CompletionIsTold
  <2>4. Same(r, st)
    BY <1>2, <1>3, <1>5, <2>1 DEF Same
  <2> QED BY <1>2, <1>5, <1>7, <2>1, <2>2, <2>3, <2>4
<1> QED BY <1>6, <1>7

LEMMA NotifiedKeeps ==
  ASSUME NEW st \in Record, NEW ok \in BOOLEAN, NEW r, StreamOK(st, FALSE), Owes(st),
         Outcome(st, ok), r = Notified(st, ok)
  PROVE  r \in Record /\ StreamOK(r, FALSE) /\ LifeStep(r, st)
<1> DEFINE over == IF st.browser = "asked" THEN "broken" ELSE st.browser
           shut == st.closed \/ (st.linked /\ ~ok)
           begun == [st EXCEPT !.browser = over, !.closed = shut]
           Kept(x) == /\ x.sent = st.sent /\ x.seekable = st.seekable /\ x.kind = st.kind
                      /\ x.user = st.user /\ x.received = st.received /\ x.closed = shut
           mid == SignalCompleted(begun, ok)
<1>0. over \in {"streaming", "done", "broken"} /\ (over = "streaming" <=> st.browser = "streaming")
      /\ (st.browser = "asked" => over = "broken") /\ (st.browser # "asked" => over = st.browser)
  BY DEF Owes, Taken, Record
<1>8. shut \in BOOLEAN /\ (shut <=> st.closed \/ (st.linked /\ ~ok))
  BY DEF Record
<1>1. r = SetNotified(mid)
  BY DEF Notified
<1> HIDE DEF over, shut
<1>2. /\ /\ begun \in Record /\ begun.browser = over /\ begun.sent = st.sent
      /\ begun.seekable = st.seekable /\ begun.linked = st.linked
      /\ begun.opened = st.opened /\ begun.completed = st.completed
      /\ begun.destroyed = st.destroyed /\ begun.notified = st.notified
      /\ begun.self = st.self /\ begun.managed = st.managed /\ begun.kind = st.kind
      /\ begun.helperSelf = st.helperSelf /\ begun.user = st.user
      /\ begun.seen = st.seen /\ begun.received = st.received
      /\ begun.answer = st.answer /\ begun.closed = shut
  BY <1>0, <1>8 DEF Record
<1> HIDE DEF begun
<1>3. mid = SignalCompleted(begun, ok)
  OBVIOUS
<1> HIDE DEF mid
<1>4. mid \in Record =>
      /\ /\ r \in Record /\ r.browser = mid.browser /\ r.sent = mid.sent
      /\ r.seekable = mid.seekable /\ r.linked = mid.linked /\ r.opened = mid.opened
      /\ r.completed = mid.completed /\ r.destroyed = mid.destroyed /\ r.notified
      /\ r.managed = mid.managed /\ r.kind = mid.kind /\ r.helperSelf = mid.helperSelf
      /\ r.user = mid.user /\ r.seen = mid.seen /\ r.received = mid.received
      /\ r.answer = mid.answer /\ r.closed = mid.closed
      /\ (r.self <=> mid.self /\ ~mid.destroyed)
  BY <1>1, SetNotifiedFacts
<1>5. /\ HandlerAlive(begun) = HandlerAlive(st) /\ Kept(begun)
      /\ begun.linked => begun.opened
  BY <1>2 DEF HandlerAlive, Same, StreamOK, LinkedWhileStreaming
<1>6. CASE (st.seekable /\ ok) \/ st.completed
  <2>1. mid = begun
    BY <1>2, <1>3, <1>6 DEF SignalCompleted
  <2>2. st.browser # "asked"
    BY <1>6 DEF Outcome, StreamOK, LinkedWhileStreaming
  <2>3. /\ /\ r \in Record /\ r.browser = st.browser /\ r.sent = st.sent
        /\ r.seekable = st.seekable /\ r.linked = st.linked /\ r.opened = st.opened
        /\ r.completed = st.completed /\ r.destroyed = st.destroyed /\ r.notified
        /\ r.managed = st.managed /\ r.kind = st.kind /\ r.helperSelf = st.helperSelf
        /\ r.user = st.user /\ r.seen = st.seen /\ r.received = st.received
        /\ r.answer = st.answer /\ r.closed = shut
        /\ (r.self <=> st.self /\ ~st.destroyed)
    BY <1>0, <1>2, <1>4, <2>1, <2>2
  <2>4. StreamOK(r, FALSE)
    BY <1>8, <2>3 DEF Owes, StreamOK, SelfUntilBoth, LinkedWhileStreaming, HelperWaits, SeenInOrder,
     CompletedLetsGo, Taken, HandlerAlive
  <2> QED BY <2>3, <2>4 DEF LifeStep
<1>7. CASE ~(st.seekable /\ ok) /\ ~st.completed
  <2>1. ~(begun.seekable /\ ok) /\ ~begun.completed
    BY <1>2, <1>7
  <2>2. /\ mid \in Record /\ Same(mid, begun) /\ Told(mid, begun) /\ mid.completed /\ ~mid.linked
        /\ mid.notified = begun.notified
        /\ begun.linked => /\ mid.browser = "broken" /\ mid.destroyed
                           /\ (mid.self <=> begun.self /\ ~begun.notified)
        /\ ~begun.linked => /\ mid.browser = begun.browser /\ mid.destroyed = begun.destroyed
                            /\ mid.self = begun.self
                            /\ CompletionTold(mid, begun, ok)
    BY <1>2, <1>3, <1>5, <2>1, SignalFacts
  <2>3. Told(mid, st)
    BY <1>2, <1>5, <2>2 DEF Told
  <2>4. /\ r \in Record /\ Kept(r) /\ Told(r, st) /\ r.completed /\ ~r.linked /\ r.notified
        /\ r.browser = mid.browser /\ r.destroyed = mid.destroyed
        /\ (r.self <=> mid.self /\ ~mid.destroyed)
    BY ZenonT(60), <1>4, <1>5, <2>2, <2>3 DEF Told, Same
  <2>5. Taken(st) /\ ~st.notified
    BY DEF Owes
  <2>6. /\ st.browser = "streaming" <=> st.linked
        /\ st.self <=> ~(st.destroyed /\ st.notified)
        /\ st.destroyed => st.browser \in {"done", "broken"}
    BY <2>5 DEF StreamOK, SelfUntilBoth, LinkedWhileStreaming
  <2>7. /\ r.browser \in {"done", "broken"} /\ (r.self <=> ~r.destroyed)
        /\ st.linked => r.browser = "broken" /\ r.destroyed
        /\ r.destroyed => st.linked \/ st.destroyed
    BY <1>0, <1>2, <2>2, <2>4, <2>5, <2>6
  <2>8. r.answer = "part" => r.closed
    <3>1. CASE st.answer = "part"
      BY <3>1, <1>8, <2>4 DEF StreamOK, HelperWaits
    <3>2. CASE st.kind # "helper"
      BY <3>1, <3>2, <2>4 DEF Told
    <3>3. CASE st.kind = "helper" /\ st.linked
      <4>1. ~st.seekable /\ st.received = st.sent
        BY <2>5, <3>3 DEF StreamOK, HelperWaits
      <4>2. ok => st.received = Length
        BY <2>6, <3>3, <4>1 DEF Outcome
      <4> QED BY <3>1, <3>3, <4>2, <1>8, <2>4 DEF Told
    <3>4. CASE st.kind = "helper" /\ ~st.linked /\ st.answer # "part"
      <4>1. CompletionTold(mid, begun, ok) /\ r.answer = mid.answer
        BY <1>2, <1>4, <2>2, <3>4
      <4>2. CASE HandlerAlive(st) /\ st.answer = "none"
        <5>1. st.helperSelf
          BY <4>2, <3>4, <2>5 DEF StreamOK, HelperWaits
        <5>2. ~ok
          BY <5>1, <2>5, <2>6, <3>4 DEF Outcome, StreamOK, HelperWaits
        <5>3. r.answer = Answer(begun, ok)
          BY <4>1, <4>2, <1>5 DEF CompletionTold
        <5> QED BY <5>2, <5>3, <3>4, <4>2, <1>2 DEF Answer
      <4>3. CASE ~(HandlerAlive(st) /\ st.answer = "none")
        BY <4>3, <2>4, <3>4 DEF Told
      <4> QED BY <4>2, <4>3
    <3> QED BY <3>1, <3>2, <3>3, <3>4
  <2>9. StreamOK(r, FALSE)
    <3>1. SelfUntilBoth(r)
      BY <2>4, <2>7 DEF SelfUntilBoth, Taken
    <3>2. LinkedWhileStreaming(r, FALSE)
      BY <2>4, <2>7 DEF LinkedWhileStreaming
    <3>3. HelperWaits(r, FALSE)
      BY <2>4, <2>5, <2>7, <2>8, <1>8 DEF HelperWaits, Told, Taken, HandlerAlive, StreamOK
    <3>4. SeenInOrder(r)
      BY <2>4, <2>5, <2>7 DEF SeenInOrder, Told, Taken, HandlerAlive, StreamOK
    <3>5. CompletedLetsGo(r)
      BY <2>4, <2>7 DEF CompletedLetsGo, Told
    <3> QED BY <3>1, <3>2, <3>3, <3>4, <3>5 DEF StreamOK
  <2>10. LifeStep(r, st)
    <3>1. st.browser \in {"asked", "streaming", "done", "broken"}
      BY <2>5 DEF Taken, Record
    <3>2. CASE HandlerAlive(st)
      <4>1. <<st.seen, "completed">> \in Life!Order \/ st.seen = "completed"
        BY <2>5 DEF Life!Order, StreamOK, SeenInOrder, Taken, Record
      <4> QED BY <4>1, <3>2, <2>4 DEF LifeStep, Told
    <3>3. CASE ~HandlerAlive(st)
      BY <3>3, <2>4 DEF LifeStep, Told
    <3> QED BY <3>2, <3>3
  <2> QED BY <2>4, <2>9, <2>10
<1> QED BY <1>6, <1>7

\* The host is shut down: a stream the manager has left loses its NPStream, its
\* handler is told if it was opened, and the others stay as they are.
LEMMA ShutdownKeeps ==
  ASSUME NEW st \in Record, NEW r, StreamOK(st, FALSE), st.managed,
         r = [CloseStream(st, FALSE) EXCEPT !.managed = FALSE]
  PROVE  r \in Record /\ StreamOK(r, TRUE) /\ LifeStep(r, st)
<1> DEFINE mid == CloseStream(st, FALSE)
<1>1. r = [mid EXCEPT !.managed = FALSE]
  OBVIOUS
<1>2. mid = CloseStream(st, FALSE)
  OBVIOUS
<1> HIDE DEF mid
<1>3. mid \in Record => /\ /\ r \in Record /\ r.browser = mid.browser /\ r.sent = mid.sent
      /\ r.seekable = mid.seekable /\ r.linked = mid.linked /\ r.opened = mid.opened
      /\ r.completed = mid.completed /\ r.destroyed = mid.destroyed
      /\ r.notified = mid.notified /\ r.self = mid.self /\ ~r.managed
      /\ r.kind = mid.kind /\ r.helperSelf = mid.helperSelf /\ r.user = mid.user
      /\ r.seen = mid.seen /\ r.received = mid.received /\ r.answer = mid.answer
      /\ r.closed = mid.closed
  BY ZenonT(60), <1>1 DEF Record
<1>4. CASE ~st.linked
  <2>1. mid = st
    BY <1>2, <1>4 DEF CloseStream
  <2>2. StreamOK(r, TRUE)
    BY ZenonT(60), <1>3, <1>4, <2>1 DEF StreamOK, SelfUntilBoth, LinkedWhileStreaming, HelperWaits, SeenInOrder,
     CompletedLetsGo, Taken, HandlerAlive
  <2> QED BY <1>3, <2>1, <2>2 DEF LifeStep
<1>5. CASE st.linked
  <2>1. /\ st.opened /\ st.browser = "streaming" /\ ~st.completed /\ ~st.destroyed /\ st.self
        /\ st.seen # "nothing" /\ (HandlerAlive(st) => st.seen \in {"opened", "data"})
        /\ st.kind = "helper" => st.helperSelf /\ st.answer = "none" /\ ~st.seekable
        /\ st.kind # "helper" => ~st.helperSelf /\ st.answer = "none"
    BY <1>5 DEF StreamOK, SelfUntilBoth, LinkedWhileStreaming, HelperWaits, SeenInOrder,
     CompletedLetsGo, Taken, HandlerAlive
  <2>2. /\ mid \in Record /\ Same(mid, st) /\ ~mid.linked /\ Told(mid, st)
        /\ mid.notified = st.notified
        /\ mid.browser = st.browser /\ mid.destroyed = st.destroyed
        /\ mid.completed = st.completed /\ mid.self = st.self
    BY <1>2, <1>5, <2>1, CloseFacts
  <2>3. StreamOK(r, TRUE)
    BY ZenonT(60), <1>3, <2>1, <2>2 DEF Same, Told, StreamOK, SelfUntilBoth, LinkedWhileStreaming, HelperWaits, SeenInOrder,
     CompletedLetsGo, Taken, HandlerAlive
  <2>4. LifeStep(r, st)
    BY <1>3, <2>1, <2>2 DEF Told, LifeStep, Life!Order
  <2> QED BY <1>3, <2>2, <2>3, <2>4
<1> QED BY <1>4, <1>5

LEMMA ShutdownSpares ==
  ASSUME NEW st \in Record, StreamOK(st, FALSE), ~st.managed
  PROVE  StreamOK(st, TRUE)
  BY DEF StreamOK, SelfUntilBoth, LinkedWhileStreaming, HelperWaits, SeenInOrder,
     CompletedLetsGo, Taken, HandlerAlive

\* A request that was not made yet is in order.
LEMMA IdleOK ==
  Idle \in Record /\ StreamOK(Idle, FALSE) /\ Idle.seen = "nothing" /\ Idle.answer = "none"
  BY StreamsAssumption DEF Idle, Record, StreamOK, SelfUntilBoth, LinkedWhileStreaming, HelperWaits, SeenInOrder,
     CompletedLetsGo, Taken, HandlerAlive

\* A step of one stream's.
LEMMA BecomesKeeps ==
  ASSUME IInv, NEW s \in Streams, NEW r \in Record, StreamOK(r, gone), LifeStep(r, stream[s]),
         Becomes(s, r)
  PROVE  IInv' /\ \A q \in Streams : LifeStep(stream'[q], stream[q])
<1>1. /\ stream' \in [Streams -> Record] /\ gone' = gone /\ stream'[s] = r
      /\ \A q \in Streams \ {s} : stream'[q] = stream[q]
  BY DEF Becomes, IInv, TypeOK
<1>2. IInv'
  <2>1. TypeOK'
    BY <1>1 DEF IInv, TypeOK
  <2>2. ASSUME NEW q \in Streams
        PROVE  StreamOK(stream'[q], gone')
    BY <1>1 DEF IInv
  <2>3. \A q \in Streams : StreamOK(stream'[q], gone')
    BY <2>2
  <2> QED BY <2>1, <2>3 DEF IInv, StreamOK, SelfUntilBoth, LinkedWhileStreaming, HelperWaits, SeenInOrder,
     CompletedLetsGo, Taken, HandlerAlive
<1>3. ASSUME NEW q \in Streams
      PROVE  LifeStep(stream'[q], stream[q])
  <2>1. CASE q = s
    BY <1>1, <2>1
  <2>2. CASE q # s
    BY <1>1, <2>2 DEF LifeStep
  <2> QED BY <2>1, <2>2
<1> QED BY <1>2, <1>3

LEMMA InitInvariant == Init => IInv
<1> SUFFICES ASSUME Init PROVE IInv
  OBVIOUS
<1>1. gone = FALSE /\ \A s \in Streams : stream[s] = Idle
  BY DEF Init
<1>2. TypeOK
  BY <1>1, IdleOK DEF Init, TypeOK
<1>3. \A s \in Streams : StreamOK(stream[s], gone)
  BY <1>1, IdleOK
<1> QED BY <1>2, <1>3 DEF IInv

LEMMA NextInvariant ==
  ASSUME IInv, [Next]_vars
  PROVE  IInv' /\ \A q \in Streams : LifeStep(stream'[q], stream[q])
<1>0. gone \in BOOLEAN /\ \A s \in Streams : stream[s] \in Record /\ StreamOK(stream[s], gone)
  BY DEF IInv, TypeOK
<1>1. CASE Shutdown
  <2>1. ~gone /\ gone' = TRUE /\ gone = FALSE
    BY <1>0, <1>1 DEF Shutdown
  <2>2. ASSUME NEW s \in Streams
        PROVE  /\ stream'[s] \in Record /\ StreamOK(stream'[s], TRUE)
               /\ LifeStep(stream'[s], stream[s])
    <3>0. stream[s] \in Record /\ StreamOK(stream[s], FALSE)
      BY <1>0, <2>1
    <3>1. CASE stream[s].managed
      <4>1. stream'[s] = [CloseStream(stream[s], FALSE) EXCEPT !.managed = FALSE]
        BY <1>1, <3>1 DEF Shutdown
      <4> QED BY <3>0, <3>1, <4>1, ShutdownKeeps
    <3>2. CASE ~stream[s].managed
      <4>1. stream'[s] = stream[s]
        BY <1>1, <3>2 DEF Shutdown
      <4> QED BY <3>0, <3>2, <4>1, ShutdownSpares DEF LifeStep
    <3> QED BY <3>1, <3>2
  <2>3. stream' \in [Streams -> Record]
    <3>1. \E f : stream' = [s \in Streams |-> f[s]]
      <4>1. stream' = [s \in Streams |-> stream'[s]]
        BY <1>1 DEF Shutdown
      <4> QED BY <4>1
    <3> QED BY <2>2, <3>1
  <2>4. TypeOK'
    BY <2>1, <2>3 DEF TypeOK
  <2>5. \A s \in Streams : StreamOK(stream'[s], gone')
    BY <2>1, <2>2
  <2>6. IInv'
    BY <2>4, <2>5 DEF IInv, StreamOK, SelfUntilBoth, LinkedWhileStreaming, HelperWaits, SeenInOrder,
     CompletedLetsGo, Taken, HandlerAlive
  <2> QED BY <2>2, <2>6
<1>2. ASSUME NEW s \in Streams,
             CreateStream(s) \/ CreateFails(s) \/ ClosePlugin(s) \/ DropHandler(s) \/ Browser(s)
      PROVE  IInv' /\ \A q \in Streams : LifeStep(stream'[q], stream[q])
  <2> DEFINE st == stream[s]
  <2>0. st \in Record /\ StreamOK(st, gone) /\ (~gone => StreamOK(st, FALSE) /\ gone = FALSE)
    BY <1>0
  <2> SUFFICES \E r \in Record : StreamOK(r, gone) /\ LifeStep(r, st) /\ Becomes(s, r)
    BY BecomesKeeps
  <2>1. CASE CreateStream(s)
    <3>1. st.seen = "nothing" /\ st.answer = "none" /\ gone = FALSE
      BY <1>0, <2>0, <2>1 DEF CreateStream, StreamOK, SelfUntilBoth, Taken
    <3>2. PICK q \in Requests :
            Becomes(s, [q EXCEPT !.browser = "asked", !.self = TRUE, !.managed = TRUE,
                                 !.seen = "created"])
      BY <2>1 DEF CreateStream
    <3> DEFINE r == [q EXCEPT !.browser = "asked", !.self = TRUE, !.managed = TRUE,
                              !.seen = "created"]
    <3>3. r \in Record /\ StreamOK(r, FALSE) /\ LifeStep(r, st)
      BY <2>0, <3>1, CreateKeeps
    <3> HIDE DEF r
    <3>4. Becomes(s, r)
      BY <3>2 DEF r
    <3> QED BY <3>1, <3>3, <3>4
  <2>2. CASE CreateFails(s)
    <3>1. st.seen = "nothing" /\ st.answer = "none" /\ gone = FALSE
      BY <1>0, <2>0, <2>2 DEF CreateFails, StreamOK, SelfUntilBoth, Taken
    <3>2. PICK q \in Requests : Becomes(s, [q EXCEPT !.browser = "refused"])
      BY <2>2 DEF CreateFails
    <3> DEFINE r == [q EXCEPT !.browser = "refused"]
    <3>3. r \in Record /\ StreamOK(r, FALSE) /\ LifeStep(r, st)
      BY <2>0, <3>1, CreateFailsKeeps
    <3> HIDE DEF r
    <3>4. Becomes(s, r)
      BY <3>2 DEF r
    <3> QED BY <3>1, <3>3, <3>4
  <2>3. CASE ClosePlugin(s)
    <3>1. st.linked /\ gone = FALSE
      BY <1>0, <2>3 DEF ClosePlugin
    <3> DEFINE r == [CloseStream(st, TRUE) EXCEPT !.closed = TRUE]
    <3>3. r \in Record /\ StreamOK(r, FALSE) /\ LifeStep(r, st)
      BY <2>0, <3>1, CloseKeeps
    <3>4. Becomes(s, r)
      BY <2>3 DEF ClosePlugin
    <3> HIDE DEF r
    <3> QED BY <3>1, <3>3, <3>4
  <2>4. CASE DropHandler(s)
    <3> DEFINE r == [st EXCEPT !.user = FALSE]
    <3>3. r \in Record /\ StreamOK(r, gone) /\ LifeStep(r, st)
      BY <1>0, <2>0, DropKeeps
    <3>4. Becomes(s, r)
      BY <2>4 DEF DropHandler
    <3> HIDE DEF r
    <3> QED BY <3>3, <3>4
  <2>5. CASE NewStream(s)
    <3>1. st.browser = "asked" /\ gone = FALSE
      BY <1>0, <2>5 DEF NewStream
    <3>2. CASE Becomes(s, Opened(st))
      <4>1. Opened(st) \in Record /\ StreamOK(Opened(st), FALSE) /\ LifeStep(Opened(st), st)
        BY <2>0, <3>1, OpenedKeeps
      <4> QED BY <3>1, <3>2, <4>1
    <3>3. CASE st.seekable /\ Becomes(s, OpenFails(st))
      <4>1. OpenFails(st) \in Record /\ StreamOK(OpenFails(st), FALSE) /\ LifeStep(OpenFails(st), st)
        BY <2>0, <3>1, <3>3, OpenFailsKeeps
      <4> QED BY <3>1, <3>3, <4>1
    <3> QED BY <2>5, <3>2, <3>3 DEF NewStream
  <2>6. CASE Write(s)
    <3>1. st.browser = "streaming" /\ st.sent < Length /\ gone = FALSE
      BY <1>0, <2>6 DEF Write
    <3> DEFINE r == DataArrived([st EXCEPT !.sent = @ + 1])
    <3>3. r \in Record /\ StreamOK(r, FALSE) /\ LifeStep(r, st)
      BY <2>0, <3>1, WriteKeeps
    <3>4. Becomes(s, r)
      BY <2>6 DEF Write
    <3> HIDE DEF r
    <3> QED BY <3>1, <3>3, <3>4
  <2>7. CASE DestroyStream(s)
    <3>1. st.browser = "streaming" /\ gone = FALSE
      BY <1>0, <2>7 DEF DestroyStream
    <3>2. PICK ok \in BOOLEAN : (ok => st.sent = Length) /\ Becomes(s, Destroyed(st, ok))
      BY <2>7 DEF DestroyStream
    <3>3. /\ Destroyed(st, ok) \in Record /\ StreamOK(Destroyed(st, ok), FALSE)
          /\ LifeStep(Destroyed(st, ok), st)
      BY <2>0, <3>1, <3>2, DestroyKeeps
    <3> QED BY <3>1, <3>2, <3>3
  <2>8. CASE URLNotify(s)
    <3>1. Owes(st) /\ gone = FALSE
      BY <1>0, <2>8 DEF URLNotify
    <3>2. PICK ok \in BOOLEAN : Outcome(st, ok) /\ Becomes(s, Notified(st, ok))
      BY <2>8 DEF URLNotify
    <3>3. /\ Notified(st, ok) \in Record /\ StreamOK(Notified(st, ok), FALSE)
          /\ LifeStep(Notified(st, ok), st)
      BY <2>0, <3>1, <3>2, NotifiedKeeps
    <3> QED BY <3>1, <3>2, <3>3
  <2> QED BY <1>2, <2>1, <2>2, <2>3, <2>4, <2>5, <2>6, <2>7, <2>8 DEF Browser
<1>3. CASE UNCHANGED vars
  BY <1>3 DEF vars, IInv, TypeOK, LifeStep, StreamOK, SelfUntilBoth, LinkedWhileStreaming, HelperWaits, SeenInOrder,
     CompletedLetsGo, Taken, HandlerAlive
<1> QED BY <1>1, <1>2, <1>3 DEF Next

-----------------------------------------------------------------------------
(* The theorems.                                                           *)

\* The inductive invariant: references, handlers and the browser's protocol
\* agree for every stream.
THEOREM InvariantHolds == Spec => []IInv
<1>1. Init => IInv
  BY InitInvariant
<1>2. IInv /\ [Next]_vars => IInv'
  BY NextInvariant
<1> QED BY <1>1, <1>2, PTL DEF Spec

\* No NPP_ function is called with a stream that has been deleted, and no
\* stream is deleted with its NPStream (NpapiStream.cpp:146-165).
THEOREM BrowserHoldsNoDeadStream == Spec => []BrowserHoldsLiveStream
<1>1. IInv => BrowserHoldsLiveStream
  <2> SUFFICES ASSUME IInv, NEW s \in Streams, BrowserHolds(stream[s]) \/ stream[s].linked
               PROVE  Alive(stream[s])
    BY DEF BrowserHoldsLiveStream
  <2>1. StreamOK(stream[s], gone)
    BY DEF IInv
  <2> QED BY <2>1 DEF StreamOK, SelfUntilBoth, LinkedWhileStreaming, BrowserHolds, Owes, Taken, Alive
<1> QED BY <1>1, InvariantHolds, PTL

\* A helper calls back with success and a part of the data only when the
\* plugin or the page cut the stream short (SimpleStreamHelper.cpp:129-162).
THEOREM SuccessMeansWhole == Spec => []SuccessIsWhole
<1>1. IInv => SuccessIsWhole
  BY DEF IInv, StreamOK, HelperWaits, SuccessIsWhole
<1> QED BY <1>1, InvariantHolds, PTL

\* What the browser has finished with is kept by its handler alone
\* (BrowserStreamManager.cpp:50-61).
THEOREM FinishedMeansFreed == Spec => []FinishedStreamsAreFreed
<1>1. IInv => FinishedStreamsAreFreed
  <2> SUFFICES ASSUME IInv, NEW s \in Streams, stream[s].destroyed, stream[s].notified,
                      stream[s].completed
               PROVE  /\ ~stream[s].self /\ ~stream[s].helperSelf
                      /\ stream[s].managed => stream[s].kind = "taker"
    BY DEF FinishedStreamsAreFreed
  <2>1. StreamOK(stream[s], gone)
    BY DEF IInv
  <2> QED BY <2>1 DEF StreamOK, SelfUntilBoth, CompletedLetsGo
<1> QED BY <1>1, InvariantHolds, PTL

\* The observers of the streams see the life that StreamLife specifies.
THEOREM ImplementsStreamLife == Spec => HandlerSeesLife
<1>1. Init => Life!Init
  BY DEF Init, Life!Init, Idle
<1>2. IInv /\ [Next]_vars => [Life!Next]_<<[s \in Streams |-> stream[s].seen],
                                         [s \in Streams |-> stream[s].answer]>>
  <2> SUFFICES ASSUME IInv, [Next]_vars PROVE Life!Next
    OBVIOUS
  <2>1. IInv' /\ \A q \in Streams : LifeStep(stream'[q], stream[q])
    BY NextInvariant
  <2>2. \A s \in Streams : stream'[s].seen \in Life!Events
                          /\ stream'[s].answer \in {"none", "whole", "part", "failed"}
    BY <2>1 DEF IInv, TypeOK, Record, Life!Events
  <2>3. /\ [s \in Streams |-> stream'[s].seen] \in [Streams -> Life!Events]
        /\ [s \in Streams |-> stream'[s].answer]
              \in [Streams -> {"none", "whole", "part", "failed"}]
    BY <2>2
  <2> QED BY <2>1, <2>3 DEF Life!Next, Life!Event, LifeStep
<1> QED BY <1>1, <1>2, InvariantHolds, PTL DEF Spec, HandlerSeesLife, Life!Spec

=============================================================================
